-------------------------- MODULE FolderSyncProofs --------------------------
(***************************************************************************)
(* Proofs about FolderSync, for any number of devices, files and versions,  *)
(* and any number of edits, manifests and faults: Inv is inductive, and     *)
(* with it AgreedHad is an invariant and GuardedNotLost holds of every step.*)
(***************************************************************************)
EXTENDS FolderSync, TLAPS

-----------------------------------------------------------------------------
(* Histories only grow: manifests are added, and what a device has had      *)
(* stays had.                                                               *)

Extends ==
    /\ Len(mans') \in Nat /\ Len(mans) <= Len(mans')
    /\ \A i \in 1 .. Len(mans) : mans'[i] = mans[i]
    /\ \A d \in Device : \A n \in Name : seen[d][n] \subseteq seen'[d][n]

\* A manifest id that is in range names a tree.
LEMMA RootType ==
    ASSUME TypeOK, NEW i \in Nat, i <= Len(mans)
    PROVE  RootOf(i) \in Root
  <1>1. CASE i = 0
    BY <1>1 DEF RootOf, EmptyRoot, Root
  <1>2. CASE i # 0
    <2>1. i \in 1 .. Len(mans)
      BY <1>2 DEF TypeOK
    <2>2. mans[i] \in Manifest
      BY <2>1 DEF TypeOK
    <2> QED BY <1>2, <2>2 DEF RootOf, Manifest
  <1> QED BY <1>1, <1>2

\* A manifest does not change under its id.
LEMMA RootStable ==
    ASSUME TypeOK, Extends, NEW i \in Nat, i <= Len(mans)
    PROVE  RootOf(i)' = RootOf(i)
  <1>1. Len(mans) \in Nat
    BY DEF TypeOK
  <1>2. i # 0 => i \in 1 .. Len(mans)
    BY <1>1
  <1> QED BY <1>2 DEF Extends, RootOf

\* A session's view of its merge stands as long as its registers do.
SessSame(d) ==
    /\ pc'[d] = pc[d] /\ peer'[d] = peer[d] /\ cur'[d] = cur[d]
    /\ target'[d] = target[d] /\ basis'[d] = basis[d]
    /\ todo'[d] = todo[d] /\ atGuard'[d] = atGuard[d]

\* A decision depends only on manifests and on the session's registers.
LEMMA DecStable ==
    ASSUME TypeOK, Extends, NEW d \in Device, Refs(d), NEW n \in Name,
           pc[d] \in {"quarantine", "guard", "write"},
           cur'[d] = cur[d], target'[d] = target[d], basis'[d] = basis[d]
    PROVE  /\ Dec(d, n)' = Dec(d, n)
           /\ Loc(d, n)' = Loc(d, n)
           /\ Rem(d, n)' = Rem(d, n)
  <1>1. /\ Len(mans) \in Nat
        /\ cur[d] \in Nat /\ target[d] \in Nat /\ basis[d] \in Nat
        /\ cur[d] <= Len(mans) /\ target[d] <= Len(mans) /\ basis[d] <= Len(mans)
        /\ cur[d] # 0 /\ target[d] # 0
    BY DEF TypeOK, Refs
  <1>2. /\ RootOf(cur[d])' = RootOf(cur[d])
        /\ RootOf(target[d])' = RootOf(target[d])
        /\ RootOf(basis[d])' = RootOf(basis[d])
    BY <1>1, RootStable
  <1>3. /\ mans'[cur[d]] = mans[cur[d]]
        /\ mans'[target[d]] = mans[target[d]]
    BY <1>1 DEF Extends
  <1>4. Loc(d, n)' = Loc(d, n) /\ Rem(d, n)' = Rem(d, n)
    BY <1>2 DEF Loc, Rem
  <1> QED BY <1>2, <1>3, <1>4 DEF Dec

\* What the invariant says of one device's manifest ids.
LEMMA Ids ==
    ASSUME Inv, NEW d \in Device
    PROVE  /\ TypeOK /\ Local(d) /\ Len(mans) \in Nat /\ peer[d] \in Device
           /\ cur[d] \in Nat /\ cur[d] <= Len(mans)
           /\ target[d] \in Nat /\ target[d] <= Len(mans)
           /\ basis[d] \in Nat /\ basis[d] <= Len(mans)
           /\ chan[d] \in Nat /\ chan[d] <= Len(mans)
           /\ current[d] \in Nat /\ current[d] <= Len(mans)
           /\ latest[d] \in Nat /\ latest[d] <= Len(mans)
           /\ parentId[d] \in Nat /\ parentId[d] <= Len(mans)
           /\ \A e \in Device : ledger[d][e] \in Nat /\ ledger[d][e] <= Len(mans)
  <1>1. TypeOK /\ Local(d)
    BY DEF Inv
  <1>2. Refs(d)
    BY <1>1 DEF Local
  <1>3. /\ Len(mans) \in Nat /\ peer[d] \in Device
        /\ cur[d] \in Nat /\ target[d] \in Nat /\ basis[d] \in Nat
        /\ chan[d] \in Nat /\ current[d] \in Nat /\ latest[d] \in Nat
        /\ parentId[d] \in Nat /\ \A e \in Device : ledger[d][e] \in Nat
    BY <1>1 DEF TypeOK
  <1> QED BY <1>1, <1>2, <1>3 DEF Refs

\* What a session knows survives every step that leaves its registers alone.
LEMMA SessStable ==
    ASSUME Inv, Extends, NEW d \in Device, SessSame(d)
    PROVE  Knows(d)' /\ Quarantined(d)' /\ Writing(d)'
  <1>1. /\ TypeOK /\ Local(d)
        /\ peer[d] \in Device
    BY Ids
  <1>2. /\ RootOf(target[d])' = RootOf(target[d])
        /\ RootOf(basis[d])' = RootOf(basis[d])
    BY Ids, RootStable DEF SessSame
  <1>3. Knows(d)'
    BY <1>1, <1>2 DEF Local, Knows, SessSame, HadAll, Had, Extends
  <1>4. ASSUME pc[d] \in {"guard", "write"}, NEW n \in Name
        PROVE  /\ Dec(d, n)' = Dec(d, n)
               /\ Loc(d, n)' = Loc(d, n)
               /\ Rem(d, n)' = Rem(d, n)
    BY <1>1, <1>4, DecStable DEF Local, SessSame
  <1>5. Quarantined(d)'
    <2> SUFFICES ASSUME pc[d] \in {"guard", "write"}, NEW p \in Path,
                        Dec(d, p)' = "conflict_remote", Loc(d, p)' # NoEntry
                 PROVE  seen'[d][<<p, Loc(d, p)'>>] # {}
      BY DEF Quarantined, SessSame
    <2>1. Dec(d, p)' = Dec(d, p) /\ Loc(d, p)' = Loc(d, p)
      BY <1>4 DEF Name
    <2>2. seen[d][<<p, Loc(d, p)>>] # {}
      BY <1>1, <2>1 DEF Local, Quarantined
    <2>3. <<p, Loc(d, p)>> \in Name
      <3>1. RootOf(cur[d]) \in Root
        BY Ids, RootType
      <3> QED BY <2>1, <3>1 DEF Loc, Root, Name
    <2> QED BY <2>1, <2>2, <2>3 DEF Extends
  <1>6. Writing(d)'
    <2> SUFFICES ASSUME pc[d] = "write"
                 PROVE  Writing(d)'
      BY DEF Writing, SessSame
    <2>1. ASSUME NEW o \in todo[d]
          PROVE  o.n \in Name
      BY <1>1 DEF TypeOK, Op
    <2>2. ASSUME NEW n \in Name, Had(d, n, Rem(d, n))
          PROVE  Had(d, n, Rem(d, n))'
      BY <1>4, <2>2 DEF Had, Extends
    <2> QED BY <1>1, <1>4, <2>1, <2>2 DEF Local, Writing, SessSame
  <1> QED BY <1>3, <1>5, <1>6

\* Steps of other devices.
Same(d) ==
    /\ SessSame(d)
    /\ tree'[d] = tree[d] /\ ledger'[d] = ledger[d] /\ latest'[d] = latest[d]
    /\ parentId'[d] = parentId[d] /\ chan'[d] = chan[d] /\ current'[d] = current[d]

\* What a device holds survives a step that leaves its folder and pointers alone.
LEMMA HoldsStable ==
    ASSUME Inv, Extends, NEW d \in Device, tree'[d] = tree[d],
           chan'[d] = chan[d], current'[d] = current[d], cur'[d] = cur[d]
    PROVE  Holds(d)'
  <1>1. /\ TypeOK /\ Holds(d)
    BY Ids DEF Local
  <1>2. \A i \in {chan[d], current[d], cur[d]} : RootOf(i)' = RootOf(i)
    BY Ids, RootStable
  <1>3. \A i \in {chan[d], current[d], cur[d]} : HadAll(d, RootOf(i))'
    BY <1>1, <1>2 DEF Holds, HadAll, Had, Extends
  <1>4. \A n \in Name : tree'[d][n] # NoEntry => tree'[d][n] \in seen'[d][n]
    BY <1>1 DEF Holds, Extends
  <1>5. CopyNames(tree[d])'
    BY <1>1 DEF Holds, CopyNames
  <1> QED BY <1>3, <1>4, <1>5 DEF Holds

\* A step of other devices keeps all that the invariant says of d.
LEMMA LocalStable ==
    ASSUME Inv, Extends, NEW d \in Device, Same(d)
    PROVE  Local(d)'
  <1>1. Refs(d)'
    <2>1. Refs(d)
      BY Ids DEF Local
    <2> QED BY <2>1, Ids DEF Refs, Same, SessSame, Extends
  <1>2. Holds(d)'
    BY HoldsStable DEF Same, SessSame
  <1> QED BY <1>1, <1>2, SessStable DEF Local, Same

\* A step that publishes nothing and records no agreement keeps both.
LEMMA ManifestsStable ==
    ASSUME Inv, Extends, mans' = mans
    PROVE  ManifestsHad'
  <1>1. mans \in Seq(Manifest)
    BY DEF Inv, TypeOK
  <1>2. \A i \in Id : mans[i] \in Manifest
    BY <1>1 DEF Id
  <1>3. \A i \in Id : mans[i].dev \in Device
    BY <1>2 DEF Manifest
  <1> QED BY <1>3 DEF Inv, ManifestsHad, Id, CopyNames, HadAll, Had, Extends

\* A step that records no agreement keeps the agreements sound.
LEMMA AgreedStable ==
    ASSUME Inv, Extends, ledger' = ledger
    PROVE  AgreedHad'
  <1>1. \A d, e \in Device : ledger[d][e] \in Nat /\ ledger[d][e] <= Len(mans)
    BY Ids
  <1>2. \A d, e \in Device : RootOf(ledger[d][e])' = RootOf(ledger[d][e])
    BY <1>1, RootStable DEF Inv
  <1> QED BY <1>1, <1>2 DEF Inv, AgreedHad, HadAll, Had, Extends

-----------------------------------------------------------------------------
(* Type correctness of every step.                                          *)

\* SetTree replaces one folder and adds what it shows to that device's history.
LEMMA TreeSet ==
    ASSUME TypeOK, NEW d \in Device, NEW T \in Root, SetTree(d, T)
    PROVE  /\ tree' \in [Device -> Root]
           /\ seen' \in [Device -> [Name -> SUBSET File]]
           /\ tree'[d] = T
           /\ \A x \in Device \ {d} : tree'[x] = tree[x]
           /\ \A x \in Device : \A n \in Name : seen[x][n] \subseteq seen'[x][n]
           /\ \A n \in Name : T[n] # NoEntry => T[n] \in seen'[d][n]
  <1>1. tree \in [Device -> Root] /\ seen \in [Device -> [Name -> SUBSET File]]
    BY DEF TypeOK
  <1>2. \A n \in Name : T[n] \in File \cup {NoEntry}
    BY DEF Root
  <1> QED BY <1>1, <1>2 DEF SetTree, Witness

\* A session that has ended has left no state (run_v1_session drops Exchange).
LEMMA QuitType ==
    ASSUME TypeOK, NEW d \in Device, NEW w \in {"off", "idle"}, Quit(d, w)
    PROVE  /\ pc' \in [Device -> PC] /\ peer' \in [Device -> Device]
           /\ dialer' \in [Device -> BOOLEAN]
           /\ cur' \in [Device -> Nat] /\ target' \in [Device -> Nat]
           /\ basis' \in [Device -> Nat] /\ todo' \in [Device -> SUBSET Op]
           /\ atGuard' \in [Device -> Root]
           /\ Idle'
  <1>1. EmptyRoot \in Root
    BY DEF EmptyRoot, Root
  <1>2. w \in PC
    BY DEF PC
  <1> QED BY <1>1, <1>2 DEF TypeOK, Quit, Idle

\* Publishing appends one manifest of the live folder.
LEMMA PublishType ==
    ASSUME TypeOK, NEW d \in Device, Publish(d)
    PROVE  /\ mans' \in Seq(Manifest) /\ Len(mans') = Len(mans) + 1
           /\ \A i \in 1 .. Len(mans) : mans'[i] = mans[i]
           /\ mans'[Len(mans) + 1] = [dev |-> d, root |-> tree[d], parent |-> parentId[d]]
           /\ store' \in [Device -> SUBSET Nat] /\ staged' \in [Device -> SUBSET Nat]
           /\ scanRoot' \in [Device -> Root]
           /\ parentId' \in [Device -> Nat] /\ chan' \in [Device -> Nat]
  <1>1. /\ mans \in Seq(Manifest) /\ tree[d] \in Root /\ parentId[d] \in Nat
        /\ Len(mans) \in Nat
    BY DEF TypeOK
  <1>2. [dev |-> d, root |-> tree[d], parent |-> parentId[d]] \in Manifest
    BY <1>1 DEF Manifest
  <1>3. /\ mans' \in Seq(Manifest) /\ Len(mans') = Len(mans) + 1
        /\ \A i \in 1 .. Len(mans) : mans'[i] = mans[i]
        /\ mans'[Len(mans) + 1] = [dev |-> d, root |-> tree[d], parent |-> parentId[d]]
    BY <1>1, <1>2 DEF Publish
  <1> QED BY <1>1, <1>3 DEF TypeOK, Publish

\* The tree that a plan writes is a tree.
LEMMA MergeType ==
    ASSUME Inv, NEW d \in Device, NEW n \in Name
    PROVE  /\ Loc(d, n) \in File \cup {NoEntry}
           /\ Rem(d, n) \in File \cup {NoEntry}
           /\ LostVersion(d, n) \in File \cup {NoEntry}
  <1>1. RootOf(cur[d]) \in Root /\ RootOf(target[d]) \in Root
    BY Ids, RootType
  <1>2. Loc(d, n) \in File \cup {NoEntry} /\ Rem(d, n) \in File \cup {NoEntry}
    BY <1>1 DEF Loc, Rem, Root
  <1> QED BY <1>2 DEF LostVersion, Loser

\* The folder with the conflict copies in it is a folder (write_loser_copy).
LEMMA QuarantineType ==
    ASSUME Inv, NEW d \in Device
    PROVE  [n \in Name |->
              IF \E p \in Path : LostVersion(d, p) # NoEntry
                                   /\ n = <<p, LostVersion(d, p)>>
              THEN n[2] ELSE tree[d][n]] \in Root
  <1>1. tree[d] \in Root
    BY Ids DEF TypeOK
  <1>2. ASSUME NEW n \in Name, NEW p \in Path, LostVersion(d, p) # NoEntry,
               n = <<p, LostVersion(d, p)>>
        PROVE  n[2] \in File
    BY <1>2, MergeType DEF Name
  <1> QED BY <1>1, <1>2 DEF Root

\* The folder after one operation of apply is a folder (execute_upsert,
\* execute_remove).
LEMMA WriteType ==
    ASSUME Inv, NEW d \in Device, NEW o \in todo[d], pc[d] = "write",
           o.op = "touch" => tree[d][o.n] # NoEntry
    PROVE  /\ o.n \in Name
           /\ [tree[d] EXCEPT ![o.n] =
                 IF o.op = "touch" THEN [@ EXCEPT !.t = Rem(d, o.n).t]
                                   ELSE Rem(d, o.n)] \in Root
  <1>1. tree[d] \in Root /\ o \in Op
    BY Ids DEF TypeOK
  <1>2. o.n \in Name
    BY <1>1 DEF Op
  <1>3. Rem(d, o.n) \in File \cup {NoEntry} /\ tree[d][o.n] \in File \cup {NoEntry}
    BY <1>1, <1>2, MergeType DEF Root
  <1>4. ASSUME o.op = "touch"
        PROVE  [tree[d][o.n] EXCEPT !.t = Rem(d, o.n).t] \in File
    <2>1. Rem(d, o.n) \in File
      BY <1>3, <1>4, Ids DEF Local, Writing
    <2>2. tree[d][o.n] \in File
      BY <1>3, <1>4
    <2> QED BY <2>1, <2>2 DEF File
  <1> QED BY <1>1, <1>2, <1>3, <1>4 DEF Root

\* AgreementLedger::record keeps the ledger's type.
LEMMA RecordType ==
    ASSUME TypeOK, NEW d \in Device, NEW e, NEW i \in Nat, Record(d, e, i)
    PROVE  /\ ledger' \in [Device -> [Device -> Nat]]
           /\ latest' \in [Device -> Nat]
  <1>1. ledger \in [Device -> [Device -> Nat]] /\ latest \in [Device -> Nat]
    BY DEF TypeOK
  <1>2. [ledger[d] EXCEPT ![e] = i] \in [Device -> Nat]
    BY <1>1
  <1> QED BY <1>1, <1>2 DEF Record

\* fetch_blobs keeps the store's type.
LEMMA FetchType ==
    ASSUME TypeOK, NEW d \in Device, FetchManifest(d)
    PROVE  store' \in [Device -> SUBSET Nat] /\ staged' \in [Device -> SUBSET Nat]
  <1>1. target[d] \in Nat
    BY DEF TypeOK
  <1>2. /\ store[d] \cup {target[d]} \in SUBSET Nat
        /\ staged[d] \cup ({target[d]} \ store[d]) \in SUBSET Nat
    BY <1>1 DEF TypeOK
  <1> QED BY <1>2 DEF TypeOK, FetchManifest

\* Every step of the engine keeps the types.
LEMMA TypeStep ==
    ASSUME Inv, Next
    PROVE  TypeOK'
  <1> USE DEF disk, scan, sess, hist
  <1>0. TypeOK
    BY DEF Inv
  <1>1. ASSUME NEW x \in Device, NEW p \in Path, NEW e \in Writes, Edit(x, p, e)
        PROVE  TypeOK'
    <2>1. [tree[x] EXCEPT ![p] = e] \in Root
      BY <1>0, UserAssumption DEF TypeOK, Root, Name
    <2>2. tree' \in [Device -> Root] /\ seen' \in [Device -> [Name -> SUBSET File]]
      BY <1>0, <1>1, <2>1, TreeSet DEF Edit
    <2>3. edits' \in Nat
      BY <1>0, <1>1 DEF Edit, TypeOK
    <2> QED BY <1>0, <1>1, <2>2, <2>3 DEF Edit, TypeOK, Idle
  <1>2. ASSUME NEW x \in Device, NEW n \in Path \X File, Discard(x, n)
        PROVE  TypeOK'
    <2>1. [tree[x] EXCEPT ![n] = NoEntry] \in Root
      BY <1>0 DEF TypeOK, Root, Name
    <2>2. tree' \in [Device -> Root] /\ seen' \in [Device -> [Name -> SUBSET File]]
      BY <1>0, <1>2, <2>1, TreeSet DEF Discard
    <2>3. edits' \in Nat
      BY <1>0, <1>2 DEF Discard, TypeOK
    <2> QED BY <1>0, <1>2, <2>2, <2>3 DEF Discard, TypeOK, Idle
  <1>3. ASSUME NEW x \in Device, Start(x)
        PROVE  TypeOK'
    <2>1. /\ mans \in Seq(Manifest) /\ tree[x] \in Root /\ Len(mans) \in Nat
          /\ latest[x] \in Nat
      BY <1>0 DEF TypeOK
    <2>2. mans' \in Seq(Manifest)
      BY <1>3, <2>1 DEF Start, LatestAgreed, Manifest
    <2>3. /\ store' \in [Device -> SUBSET Nat] /\ scanRoot' \in [Device -> Root]
          /\ chan' \in [Device -> Nat]
      BY <1>0, <1>3, <2>1 DEF Start, LatestAgreed, TypeOK
    <2>4. parentId' \in [Device -> Nat] /\ current' \in [Device -> Nat]
      BY <1>0, <1>3, <2>1 DEF Start, LatestAgreed, TypeOK
    <2>5. pc' \in [Device -> PC] /\ Idle'
      BY <1>0, <1>3 DEF Start, LatestAgreed, TypeOK, Idle, PC
    <2> QED BY <1>0, <1>3, <2>2, <2>3, <2>4, <2>5 DEF Start, LatestAgreed, TypeOK
  <1>4. ASSUME NEW x \in Device, Scan(x)
        PROVE  TypeOK'
    BY <1>0, <1>4, PublishType DEF Scan, TypeOK, Idle
  <1>5. ASSUME NEW x \in Device, HandleScanUpdate(x)
        PROVE  TypeOK'
    BY <1>0, <1>5 DEF HandleScanUpdate, UpdateFromScan, TypeOK, Idle
  <1>6. ASSUME NEW x \in Device, NEW e \in Device, Connect(x, e)
        PROVE  TypeOK'
    BY <1>0, <1>6 DEF Connect, TypeOK, Idle, PC
  <1>7. ASSUME NEW x \in Device, Crash(x)
        PROVE  TypeOK'
    <2>1. /\ store' \in [Device -> SUBSET Nat] /\ staged' \in [Device -> SUBSET Nat]
          /\ scanRoot' \in [Device -> Root] /\ parentId' \in [Device -> Nat]
          /\ chan' \in [Device -> Nat] /\ current' \in [Device -> Nat]
          /\ faults' \in Nat
      BY <1>0, <1>7 DEF Crash, TypeOK, EmptyRoot, Root
    <2> QED BY <1>0, <1>7, <2>1, QuitType DEF Crash, TypeOK
  <1>8. ASSUME NEW x \in Device, Disconnect(x)
        PROVE  TypeOK'
    <2>1. faults' \in Nat
      BY <1>0, <1>8 DEF Disconnect, TypeOK
    <2> QED BY <1>0, <1>8, <2>1, QuitType DEF Disconnect, Leave, TypeOK
  <1>9. ASSUME NEW x \in Device, BeginStale(x)
        PROVE  TypeOK'
    BY <1>0, <1>9 DEF BeginStale, TypeOK, Idle, PC
  <1>10. ASSUME NEW x \in Device, BeginScan(x)
         PROVE  TypeOK'
    <2>1. Len(mans) \in Nat
      BY <1>0 DEF TypeOK
    <2>2. current' \in [Device -> Nat]
      BY <1>0, <1>10, <2>1 DEF BeginScan, UpdateFromScan, TypeOK
    <2> QED BY <1>0, <1>10, <2>2, PublishType DEF BeginScan, TypeOK, Idle, PC
  <1>11. ASSUME NEW x \in Device, OfferRound(x)
         PROVE  TypeOK'
    BY <1>0, <1>11 DEF OfferRound, Paired, TypeOK, Idle, PC
  <1>12. ASSUME NEW x \in Device, PullEqualRoots(x)
         PROVE  TypeOK'
    <2>1. store' \in [Device -> SUBSET Nat] /\ staged' \in [Device -> SUBSET Nat]
      BY <1>0, <1>12, FetchType DEF PullEqualRoots
    <2>2. /\ parentId' \in [Device -> Nat] /\ current' \in [Device -> Nat]
          /\ cur' \in [Device -> Nat]
      BY <1>0, <1>12 DEF PullEqualRoots, Adopt, TypeOK
    <2>3. pc' \in [Device -> PC] /\ Idle'
      BY <1>0, <1>12 DEF PullEqualRoots, Adopt, TypeOK, Idle, PC
    <2> QED BY <1>0, <1>12, <2>1, <2>2, <2>3 DEF PullEqualRoots, TypeOK
  <1>13. ASSUME NEW x \in Device, PullEmptyPeer(x)
         PROVE  TypeOK'
    <2>1. store' \in [Device -> SUBSET Nat] /\ staged' \in [Device -> SUBSET Nat]
      BY <1>0, <1>13, FetchType DEF PullEmptyPeer
    <2>2. pc' \in [Device -> PC] /\ Idle'
      BY <1>0, <1>13 DEF PullEmptyPeer, TypeOK, Idle, PC
    <2> QED BY <1>0, <1>13, <2>1, <2>2 DEF PullEmptyPeer, TypeOK
  <1>14. ASSUME NEW x \in Device, PullContent(x)
         PROVE  TypeOK'
    <2>1. SafeBase(x) \in Nat
      BY <1>0 DEF SafeBase, TypeOK
    <2>2. store' \in [Device -> SUBSET Nat] /\ staged' \in [Device -> SUBSET Nat]
      BY <1>0, <1>14, FetchType DEF PullContent
    <2>3. pc' \in [Device -> PC] /\ basis' \in [Device -> Nat] /\ Idle'
      BY <1>0, <1>14, <2>1 DEF PullContent, TypeOK, Idle, PC
    <2> QED BY <1>0, <1>14, <2>2, <2>3 DEF PullContent, TypeOK
  <1>15. ASSUME NEW x \in Device, Quarantine(x)
         PROVE  TypeOK'
    <2>1. tree' \in [Device -> Root] /\ seen' \in [Device -> [Name -> SUBSET File]]
      BY <1>0, <1>15, QuarantineType, TreeSet DEF Quarantine
    <2> QED BY <1>0, <1>15, <2>1 DEF Quarantine, TypeOK, Idle, PC
  <1>16. ASSUME NEW x \in Device, Guard(x)
         PROVE  TypeOK'
    <2>1. Ops(x) \in SUBSET Op
      BY DEF Ops, Op
    <2> QED BY <1>0, <1>16, <2>1 DEF Guard, TypeOK, Idle, PC
  <1>17. ASSUME NEW x \in Device, Diverged(x)
         PROVE  TypeOK'
    BY <1>0, <1>17, QuitType DEF Diverged, Leave, TypeOK
  <1>18. ASSUME NEW x \in Device, NEW o \in todo[x], WriteOne(x, o)
         PROVE  TypeOK'
    <2>1. tree' \in [Device -> Root] /\ seen' \in [Device -> [Name -> SUBSET File]]
      BY <1>0, <1>18, WriteType, TreeSet DEF WriteOne
    <2> QED BY <1>0, <1>18, <2>1 DEF WriteOne, TypeOK, Idle
  <1>19. ASSUME NEW x \in Device, WriteFails(x)
         PROVE  TypeOK'
    BY <1>0, <1>19, QuitType DEF WriteFails, Leave, TypeOK
  <1>20. ASSUME NEW x \in Device, PullDone(x)
         PROVE  TypeOK'
    <2>1. target[x] \in Nat /\ EmptyRoot \in Root
      BY <1>0 DEF TypeOK, EmptyRoot, Root
    <2>2. ledger' \in [Device -> [Device -> Nat]] /\ latest' \in [Device -> Nat]
      <3>1. CASE Clean(x)
        BY <1>0, <1>20, <2>1, <3>1, RecordType DEF PullDone
      <3>2. CASE ~Clean(x)
        BY <1>0, <1>20, <3>2 DEF PullDone, TypeOK
      <3> QED BY <3>1, <3>2
    <2>3. /\ parentId' \in [Device -> Nat] /\ current' \in [Device -> Nat]
          /\ cur' \in [Device -> Nat]
      BY <1>0, <1>20, <2>1 DEF PullDone, Adopt, TypeOK
    <2>4. Idle'
      BY <1>0, <1>20 DEF PullDone, Adopt, TypeOK, Idle
    <2> QED BY <1>0, <1>20, <2>1, <2>2, <2>3, <2>4 DEF PullDone, TypeOK, PC
  <1>21. ASSUME NEW x \in Device, CloseStage(x)
         PROVE  TypeOK'
    BY <1>0, <1>21 DEF CloseStage, Paired, TypeOK, Idle, PC
  <1>22. ASSUME NEW x \in Device, FinalRound(x)
         PROVE  TypeOK'
    BY <1>0, <1>22 DEF FinalRound, Paired, TypeOK, Idle, PC
  <1>23. ASSUME NEW x \in Device, Agree(x)
         PROVE  TypeOK'
    <2>1. cur[x] \in Nat /\ peer[x] \in Device
      BY <1>0 DEF TypeOK
    <2>2. ledger' \in [Device -> [Device -> Nat]] /\ latest' \in [Device -> Nat]
      BY <1>0, <1>23, <2>1, RecordType DEF Agree
    <2> QED BY <1>0, <1>23, <2>1, <2>2 DEF Agree, TypeOK, Idle, PC
  <1>24. ASSUME NEW x \in Device, Disagree(x)
         PROVE  TypeOK'
    BY <1>0, <1>24 DEF Disagree, TypeOK, Idle, PC
  <1>25. ASSUME NEW x \in Device, ByeQuiet(x)
         PROVE  TypeOK'
    BY <1>0, <1>25, QuitType DEF ByeQuiet, Leave, TypeOK
  <1>26. ASSUME NEW x \in Device, ByeScan(x)
         PROVE  TypeOK'
    BY <1>0, <1>26, QuitType, PublishType DEF ByeScan, Leave, TypeOK
  <1>27. ASSUME NEW x \in Device, Abandoned(x)
         PROVE  TypeOK'
    BY <1>0, <1>27, QuitType DEF Abandoned, Leave, TypeOK
  <1> QED BY <1>1, <1>2, <1>3, <1>4, <1>5, <1>6, <1>7, <1>8, <1>9, <1>10, <1>11,
             <1>12, <1>13, <1>14, <1>15, <1>16, <1>17, <1>18, <1>19, <1>20,
             <1>21, <1>22, <1>23, <1>24, <1>25, <1>26, <1>27
          DEF Next, UserStep, Dial, SessionStep

-----------------------------------------------------------------------------
(* The invariant, one device at a time.                                     *)

\* Nothing published, nothing seen.
LEMMA NoNews ==
    ASSUME TypeOK, mans' = mans, seen' = seen
    PROVE  Extends
  BY DEF TypeOK, Extends

\* A step of two devices that publishes nothing and records no agreement.
LEMMA Quiet ==
    ASSUME Inv, Extends, TypeOK', mans' = mans, ledger' = ledger,
           NEW d \in Device, NEW e \in Device, Local(d)', Local(e)',
           \A x \in Device \ {d, e} : Same(x)
    PROVE  Inv'
  <1>1. \A x \in Device : Local(x)'
    BY LocalStable
  <1> QED BY <1>1, ManifestsStable, AgreedStable DEF Inv

\* Outside converge a session knows only its base.
LEMMA CalmSess ==
    ASSUME Inv, Extends, NEW d \in Device,
           pc'[d] \notin {"guard", "write", "agree"},
           basis'[d] = 0 \/ (basis'[d] = basis[d] /\ peer'[d] = peer[d])
    PROVE  Knows(d)' /\ Quarantined(d)' /\ Writing(d)'
  <1>1. HadAll(peer[d], RootOf(basis[d]))'
    <2>1. CASE basis'[d] = 0
      BY <2>1 DEF RootOf, EmptyRoot, HadAll
    <2>2. CASE basis'[d] = basis[d] /\ peer'[d] = peer[d]
      <3>1. HadAll(peer[d], RootOf(basis[d])) /\ peer[d] \in Device
        BY Ids DEF Local, Knows
      <3>2. RootOf(basis[d])' = RootOf(basis[d])
        BY <2>2, Ids, RootStable
      <3> QED BY <2>2, <3>1, <3>2 DEF HadAll, Had, Extends
    <2> QED BY <2>1, <2>2
  <1> QED BY <1>1 DEF Knows, Quarantined, Writing

\* What a device holds, when its live folder is left alone.
LEMMA HoldsPointers ==
    ASSUME Inv, Extends, NEW d \in Device, tree'[d] = tree[d],
           HadAll(d, RootOf(chan[d]))', HadAll(d, RootOf(current[d]))',
           HadAll(d, RootOf(cur[d]))'
    PROVE  Holds(d)'
  <1>1. Holds(d)
    BY Ids DEF Local
  <1>2. \A n \in Name : tree'[d][n] # NoEntry => tree'[d][n] \in seen'[d][n]
    BY <1>1 DEF Holds, Extends
  <1>3. CopyNames(tree[d])'
    BY <1>1 DEF Holds, CopyNames
  <1> QED BY <1>2, <1>3 DEF Holds

\* What has been had stays had, and nothing is had of no manifest.
LEMMA HadStable ==
    ASSUME Inv, Extends, NEW d \in Device, NEW i \in Nat, i <= Len(mans),
           HadAll(d, RootOf(i))
    PROVE  HadAll(d, RootOf(i))'
  <1>1. RootOf(i)' = RootOf(i)
    BY RootStable DEF Inv
  <1> QED BY <1>1 DEF HadAll, Had, Extends

\* The end of a session changes no other device's session.
LEMMA QuitSame ==
    ASSUME TypeOK, NEW d \in Device, NEW w \in {"off", "idle"}, Quit(d, w)
    PROVE  /\ pc'[d] = w /\ peer'[d] = d /\ cur'[d] = 0 /\ target'[d] = 0
           /\ basis'[d] = 0
           /\ \A x \in Device \ {d} : SessSame(x)
  BY DEF TypeOK, Quit, SessSame

\* A session that ends without publishing: its registers are cleared.
LEMMA LeaveStep ==
    ASSUME Inv, TypeOK', NEW d \in Device, Leave(d),
           UNCHANGED <<mans, tree, ledger, latest, parentId, chan, current, seen>>,
           pc[d] # "off"
    PROVE  Inv'
  <1>1. TypeOK
    BY DEF Inv
  <1>2. Extends
    BY <1>1, NoNews
  <1>3. /\ pc'[d] = "idle" /\ cur'[d] = 0 /\ target'[d] = 0 /\ basis'[d] = 0
        /\ \A x \in Device \ {d} : SessSame(x)
    BY <1>1, QuitSame DEF Leave
  <1>4. \A x \in Device \ {d} : Same(x)
    BY <1>3 DEF Same
  <1>5. Refs(d)'
    BY <1>3, Ids DEF Local, Refs
  <1>6. Holds(d)'
    <2>1. Holds(d)
      BY Ids DEF Local
    <2>2. HadAll(d, RootOf(chan[d]))' /\ HadAll(d, RootOf(current[d]))'
      BY <2>1 DEF Holds, HadAll, Had, RootOf
    <2>3. HadAll(d, RootOf(cur[d]))'
      BY <1>3 DEF HadAll, RootOf, EmptyRoot
    <2> QED BY <1>2, <2>2, <2>3, HoldsPointers
  <1>7. Local(d)'
    BY <1>2, <1>3, <1>5, <1>6, CalmSess DEF Local
  <1> QED BY <1>2, <1>4, <1>7, Quiet

\* A live folder is replaced by T.
LEMMA SetStep ==
    ASSUME Inv, TypeOK', NEW d \in Device, NEW T \in Root, SetTree(d, T), CopyNames(T),
           UNCHANGED <<mans, ledger, latest, parentId, chan, current, peer, cur,
                       target, basis>>,
           \A x \in Device \ {d} : SessSame(x),
           Extends => Refs(d)' /\ Knows(d)' /\ Quarantined(d)' /\ Writing(d)'
    PROVE  Inv'
  <1>1. TypeOK
    BY DEF Inv
  <1>2. /\ tree'[d] = T
        /\ \A x \in Device \ {d} : tree'[x] = tree[x]
        /\ \A x \in Device : \A n \in Name : seen[x][n] \subseteq seen'[x][n]
        /\ \A n \in Name : T[n] # NoEntry => T[n] \in seen'[d][n]
    BY <1>1, TreeSet
  <1>3. Extends
    BY <1>1, <1>2 DEF TypeOK, Extends
  <1>4. \A x \in Device \ {d} : Same(x)
    BY <1>2 DEF Same
  <1>5. Holds(d)'
    <2>1. Holds(d)
      BY Ids DEF Local
    <2>2. \A i \in {chan[d], current[d], cur[d]} : HadAll(d, RootOf(i))'
      BY <1>3, <2>1, Ids, HadStable DEF Holds
    <2>3. CopyNames(tree[d])'
      BY <1>2 DEF CopyNames
    <2> QED BY <1>2, <2>2, <2>3 DEF Holds
  <1>6. Local(d)'
    BY <1>3, <1>5 DEF Local
  <1> QED BY <1>3, <1>4, <1>6, Quiet

\* Ids stay in range when nothing moves.
LEMMA RefsStable ==
    ASSUME Inv, NEW d \in Device, mans' = mans, pc'[d] = pc[d],
           UNCHANGED <<ledger, latest, parentId, chan, current, cur, target, basis>>
    PROVE  Refs(d)'
  BY Ids DEF Local, Refs

\* A user's edit keeps the invariant, also in the middle of a session.
LEMMA EditKeeps ==
    ASSUME Inv, TypeOK', NEW d \in Device, NEW p \in Path, NEW e \in Writes, Edit(d, p, e)
    PROVE  Inv'
  <1> DEFINE T == [tree[d] EXCEPT ![p] = e]
  <1>1. TypeOK /\ tree[d] \in Root /\ CopyNames(tree[d])
    BY Ids DEF TypeOK, Local, Holds
  <1>2. T \in Root
    BY <1>1, UserAssumption DEF Root, Name
  <1>3. CopyNames(T)
    BY <1>1, UserAssumption DEF Root, Name, CopyNames
  <1>4. SessSame(d) /\ \A x \in Device \ {d} : SessSame(x)
    BY <1>1 DEF Edit, sess, SessSame
  <1>5. Refs(d)'
    BY RefsStable DEF Edit, sess, disk, scan
  <1>6. SetTree(d, T)
    BY DEF Edit
  <1>7. UNCHANGED <<mans, ledger, latest, parentId, chan, current, peer, cur,
                    target, basis>>
    BY DEF Edit, sess, disk, scan
  <1> HIDE DEF T
  <1> QED BY <1>2, <1>3, <1>4, <1>5, <1>6, <1>7, SessStable, SetStep

\* So does the deletion of a conflict copy.
LEMMA DiscardKeeps ==
    ASSUME Inv, TypeOK', NEW d \in Device, NEW n \in Path \X File, Discard(d, n)
    PROVE  Inv'
  <1> DEFINE T == [tree[d] EXCEPT ![n] = NoEntry]
  <1>1. TypeOK /\ tree[d] \in Root /\ CopyNames(tree[d])
    BY Ids DEF TypeOK, Local, Holds
  <1>2. T \in Root
    BY <1>1 DEF Root, Name
  <1>3. CopyNames(T)
    BY <1>1 DEF Root, Name, CopyNames
  <1>4. SessSame(d) /\ \A x \in Device \ {d} : SessSame(x)
    BY <1>1 DEF Discard, sess, SessSame
  <1>5. Refs(d)'
    BY RefsStable DEF Discard, sess, disk, scan
  <1>6. SetTree(d, T)
    BY DEF Discard
  <1>7. UNCHANGED <<mans, ledger, latest, parentId, chan, current, peer, cur,
                    target, basis>>
    BY DEF Discard, sess, disk, scan
  <1> HIDE DEF T
  <1> QED BY <1>2, <1>3, <1>4, <1>5, <1>6, <1>7, SessStable, SetStep

\* A session that ends early, or ends with nothing to publish.
LEMMA EndKeeps ==
    ASSUME Inv, TypeOK', NEW d \in Device,
           Diverged(d) \/ WriteFails(d) \/ ByeQuiet(d) \/ Disconnect(d) \/ Abandoned(d)
    PROVE  Inv'
  <1> USE DEF disk, scan
  <1>1. CASE Diverged(d)
    BY <1>1, LeaveStep DEF Diverged
  <1>2. CASE WriteFails(d)
    BY <1>2, LeaveStep DEF WriteFails
  <1>3. CASE ByeQuiet(d)
    BY <1>3, LeaveStep DEF ByeQuiet
  <1>4. CASE Disconnect(d)
    BY <1>4, LeaveStep DEF Disconnect, Waiting
  <1>5. CASE Abandoned(d)
    BY <1>5, LeaveStep DEF Abandoned, Waiting
  <1> QED BY <1>1, <1>2, <1>3, <1>4, <1>5

\* kill -9 at any point keeps the invariant.
LEMMA CrashKeeps ==
    ASSUME Inv, TypeOK', NEW d \in Device, Crash(d)
    PROVE  Inv'
  <1>1. TypeOK
    BY DEF Inv
  <1>2. Extends
    BY <1>1, NoNews DEF Crash
  <1>3. /\ pc'[d] = "off" /\ cur'[d] = 0 /\ target'[d] = 0 /\ basis'[d] = 0
        /\ \A x \in Device \ {d} : SessSame(x)
    BY <1>1, QuitSame DEF Crash
  <1>4. /\ chan'[d] = 0 /\ current'[d] = 0 /\ parentId'[d] = 0
        /\ \A x \in Device \ {d} : Same(x)
    BY <1>1, <1>3 DEF Crash, Same, TypeOK
  <1>5. Refs(d)'
    BY <1>3, <1>4, Ids DEF Refs, Crash
  <1>6. Holds(d)'
    BY <1>2, <1>3, <1>4, HoldsPointers DEF Crash, HadAll, RootOf, EmptyRoot
  <1>7. Local(d)'
    BY <1>2, <1>3, <1>5, <1>6, CalmSess DEF Local
  <1> QED BY <1>2, <1>4, <1>7, Quiet DEF Crash

\* handle_scan_update takes a manifest that this device published.
LEMMA HandleScanUpdateKeeps ==
    ASSUME Inv, TypeOK', NEW d \in Device, HandleScanUpdate(d)
    PROVE  Inv'
  <1>1. TypeOK /\ Holds(d) /\ Refs(d)
    BY Ids DEF Local
  <1>2. Extends
    BY <1>1, NoNews DEF HandleScanUpdate, hist
  <1>3. /\ chan'[d] = 0 /\ current'[d] \in {current[d], chan[d]} /\ current'[d] # 0
        /\ SessSame(d)
        /\ \A x \in Device \ {d} : Same(x)
    BY <1>1 DEF HandleScanUpdate, UpdateFromScan, TypeOK, Same, SessSame, sess, disk,
                hist, Refs
  <1>4. Refs(d)'
    BY <1>1, <1>3, Ids DEF Refs, HandleScanUpdate, disk, SessSame
  <1>5. Holds(d)'
    <2>1. HadAll(d, RootOf(chan[d]))'
      BY <1>3 DEF HadAll, RootOf, EmptyRoot
    <2>2. HadAll(d, RootOf(current[d]))' /\ HadAll(d, RootOf(cur[d]))'
      BY <1>1, <1>2, <1>3, Ids, HadStable DEF Holds, SessSame
    <2> QED BY <1>2, <2>1, <2>2, HoldsPointers DEF HandleScanUpdate
  <1>6. Local(d)'
    BY <1>2, <1>3, <1>4, <1>5, SessStable DEF Local
  <1> QED BY <1>2, <1>3, <1>6, Quiet DEF HandleScanUpdate, disk

\* run_session_v1 starts from the current manifest.
LEMMA BeginStaleKeeps ==
    ASSUME Inv, TypeOK', NEW d \in Device, BeginStale(d)
    PROVE  Inv'
  <1>1. TypeOK /\ Holds(d) /\ Refs(d)
    BY Ids DEF Local
  <1>2. Extends
    BY <1>1, NoNews DEF BeginStale, hist
  <1>3. /\ pc'[d] = "offer" /\ cur'[d] = current[d] /\ basis'[d] = basis[d]
        /\ peer'[d] = peer[d]
        /\ \A x \in Device \ {d} : Same(x)
    BY <1>1 DEF BeginStale, TypeOK, Same, SessSame, disk, scan, hist
  <1>4. Refs(d)'
    BY <1>1, <1>3, Ids DEF Refs, BeginStale, disk, scan
  <1>5. Holds(d)'
    <2>1. /\ HadAll(d, RootOf(chan[d]))' /\ HadAll(d, RootOf(current[d]))'
          /\ HadAll(d, RootOf(cur[d]))'
      BY <1>1, <1>2, <1>3, Ids, HadStable DEF Holds, BeginStale, scan
    <2> QED BY <1>2, <2>1, HoldsPointers DEF BeginStale
  <1>6. Local(d)'
    BY <1>2, <1>3, <1>4, <1>5, CalmSess DEF Local
  <1> QED BY <1>2, <1>3, <1>6, Quiet DEF BeginStale, disk

\* A step that only moves a session on.
LEMMA MoveKeeps ==
    ASSUME Inv, TypeOK', NEW d \in Device, PullEmptyPeer(d) \/ Disagree(d)
    PROVE  Inv'
  <1> USE DEF disk, scan, hist
  <1>1. TypeOK /\ Refs(d)
    BY Ids DEF Local
  <1>2. Extends
    BY <1>1, NoNews DEF PullEmptyPeer, Disagree
  <1>3. /\ pc'[d] \in {"closing", "bye"} /\ pc[d] \in {"pull", "agree"}
        /\ cur'[d] = cur[d] /\ basis'[d] = basis[d]
        /\ target'[d] = target[d] /\ peer'[d] = peer[d]
        /\ UNCHANGED <<mans, tree, ledger, latest, parentId, chan, current>>
    BY <1>1 DEF PullEmptyPeer, Disagree, TypeOK
  <1>4. \A x \in Device \ {d} : Same(x)
    BY <1>1 DEF PullEmptyPeer, Disagree, TypeOK, Same, SessSame
  <1>5. Refs(d)'
    BY <1>1, <1>3, Ids DEF Refs
  <1>6. Holds(d)'
    BY <1>2, <1>3, HoldsStable
  <1>7. Local(d)'
    BY <1>2, <1>3, <1>5, <1>6, CalmSess DEF Local
  <1> QED BY <1>2, <1>3, <1>4, <1>7, Quiet

\* dial_and_run starts a session between two devices that had none.
LEMMA ConnectKeeps ==
    ASSUME Inv, TypeOK', NEW d \in Device, NEW e \in Device, Connect(d, e)
    PROVE  Inv'
  <1>1. TypeOK
    BY DEF Inv
  <1>2. Extends
    BY <1>1, NoNews DEF Connect, hist
  <1>3. \A x \in {d, e} : pc'[x] = "begin" /\ basis'[x] = 0
    <2>1. pc \in [Device -> PC]
      BY <1>1 DEF TypeOK
    <2>2. pc'[d] = "begin" /\ pc'[e] = "begin"
      BY <2>1 DEF Connect
    <2>3. Idle
      BY <1>1 DEF TypeOK
    <2>4. basis[d] = 0 /\ basis[e] = 0
      BY <2>3 DEF Connect, Idle
    <2> QED BY <2>2, <2>4 DEF Connect
  <1>4. \A x \in Device \ {d, e} : Same(x)
    BY <1>1 DEF Connect, TypeOK, Same, SessSame, disk, scan, hist
  <1>5. ASSUME NEW x \in {d, e}
        PROVE  Local(x)'
    <2>1. Refs(x) /\ pc[x] = "idle"
      BY Ids DEF Local, Connect
    <2>2. Refs(x)'
      BY <1>3, <2>1, Ids DEF Connect, disk, scan, Refs
    <2>3. Holds(x)'
      BY <1>2, HoldsStable DEF Connect, scan
    <2> QED BY <1>2, <1>3, <2>2, <2>3, CalmSess DEF Local
  <1> QED BY <1>2, <1>4, <1>5, Quiet DEF Connect, disk

\* A step that the two ends of a session take together.
LEMMA RoundKeeps ==
    ASSUME Inv, TypeOK', NEW d \in Device,
           OfferRound(d) \/ CloseStage(d) \/ FinalRound(d)
    PROVE  Inv'
  <1> DEFINE e == peer[d]
  <1> USE DEF disk, scan, hist
  <1>1. TypeOK /\ e \in Device /\ peer[e] = d
    BY Ids DEF OfferRound, CloseStage, FinalRound, Paired
  <1>2. Extends
    BY <1>1, NoNews DEF OfferRound, CloseStage, FinalRound
  <1>3. UNCHANGED <<mans, tree, ledger, latest, parentId, chan, current, peer, cur, basis>>
    BY DEF OfferRound, CloseStage, FinalRound
  <1>4. /\ pc \in [Device -> PC] /\ target \in [Device -> Nat]
        /\ cur[d] # 0 /\ cur[e] # 0
        /\ CloseStage(d) => target[d] # 0 /\ target[e] # 0
    BY Ids, <1>1 DEF TypeOK, Local, Refs, OfferRound, CloseStage, FinalRound
  <1> DEFINE Moved(x) ==
        /\ pc'[x] \in {"pull", "serve", "final", "agree"}
        /\ target'[x] # 0 /\ target'[x] \in {cur[d], cur[e], target[x]}
        /\ pc'[x] = "agree" => target'[x] = cur[peer[x]]
  <1>5. /\ \A x \in {d, e} : Moved(x)
        /\ \A x \in Device \ {d, e} : pc'[x] = pc[x] /\ target'[x] = target[x]
    <2>1. CASE OfferRound(d)
      BY <1>1, <1>4, <2>1 DEF OfferRound
    <2>2. CASE CloseStage(d)
      BY <1>1, <1>4, <2>2 DEF CloseStage
    <2>3. CASE FinalRound(d)
      BY <1>1, <1>4, <2>3 DEF FinalRound
    <2> QED BY <2>1, <2>2, <2>3
  <1>6. \A x \in Device \ {d, e} : Same(x)
    BY <1>3, <1>5 DEF OfferRound, CloseStage, FinalRound, Same, SessSame
  <1>7. ASSUME NEW x \in Device, x \in {d, e}
        PROVE  Local(x)'
    <2>1. Moved(x)
      BY <1>5, <1>7
    <2>2. peer[x] \in {d, e}
      BY <1>1, <1>7
    <2>3. Refs(x)'
      <3>1. Refs(x) /\ cur[x] # 0 /\ current[x] # 0
        BY <1>4, <1>7, Ids DEF Local, Refs, OfferRound, CloseStage, FinalRound
      <3> QED BY <1>1, <1>3, <2>1, <3>1, Ids DEF Refs
    <2>4. Holds(x)'
      BY <1>2, <1>3, HoldsStable
    <2>5. /\ HadAll(peer[x], RootOf(basis[x]))'
          /\ pc'[x] = "agree" => HadAll(peer[x], RootOf(target[x]))'
      <3>1. /\ HadAll(peer[x], RootOf(basis[x]))
            /\ HadAll(peer[x], RootOf(cur[peer[x]]))
            /\ peer[x] \in Device
        BY <1>1, Ids DEF Local, Knows, Holds
      <3> QED BY <1>1, <1>2, <1>3, <2>1, <3>1, Ids, HadStable
    <2> QED BY <2>1, <2>3, <2>4, <2>5 DEF Local, Knows, Quarantined, Writing
  <1> QED BY <1>1, <1>2, <1>3, <1>7, <1>6, Quiet

\* Adopting a manifest with the same root adds nothing that was not had.
LEMMA PullEqualRootsKeeps ==
    ASSUME Inv, TypeOK', NEW d \in Device, PullEqualRoots(d)
    PROVE  Inv'
  <1> USE DEF disk, scan, hist
  <1>1. TypeOK /\ Refs(d) /\ Holds(d)
    BY Ids DEF Local
  <1>2. Extends
    BY <1>1, NoNews DEF PullEqualRoots
  <1>3. /\ UNCHANGED <<mans, tree, ledger, latest, chan, peer, target, basis, seen>>
        /\ pc'[d] = "closing"
        /\ parentId'[d] \in {parentId[d], target[d]}
        /\ current'[d] \in {current[d], target[d]}
        /\ cur'[d] \in {cur[d], target[d]}
        /\ target[d] # 0 /\ cur[d] # 0 /\ current[d] # 0
    BY <1>1 DEF PullEqualRoots, Adopt, TypeOK, Refs
  <1>4. \A x \in Device \ {d} : Same(x)
    <2>1. /\ pc \in [Device -> PC] /\ cur \in [Device -> Nat]
          /\ current \in [Device -> Nat] /\ parentId \in [Device -> Nat]
      BY <1>1 DEF TypeOK
    <2>2. \A x \in Device \ {d} : /\ pc'[x] = pc[x] /\ cur'[x] = cur[x]
                                  /\ current'[x] = current[x]
                                  /\ parentId'[x] = parentId[x]
      BY <2>1 DEF PullEqualRoots, Adopt
    <2> QED BY <2>2 DEF PullEqualRoots, Same, SessSame
  <1>5. Refs(d)'
    BY <1>1, <1>3, Ids DEF Refs
  <1>6. Holds(d)'
    <2>1. HadAll(d, RootOf(target[d]))
      BY <1>1 DEF Holds, PullEqualRoots
    <2>2. /\ HadAll(d, RootOf(chan[d]))' /\ HadAll(d, RootOf(current[d]))'
          /\ HadAll(d, RootOf(cur[d]))'
      BY <1>1, <1>2, <1>3, <2>1, Ids, HadStable DEF Holds
    <2> QED BY <1>2, <1>3, <2>2, HoldsPointers
  <1>7. Local(d)'
    BY <1>2, <1>3, <1>5, <1>6, CalmSess DEF Local
  <1> QED BY <1>2, <1>3, <1>4, <1>7, Quiet

\* resolve_safe_base returns the empty base or a recorded agreement.
LEMMA PullContentKeeps ==
    ASSUME Inv, TypeOK', NEW d \in Device, PullContent(d)
    PROVE  Inv'
  <1> USE DEF disk, scan, hist
  <1>1. TypeOK /\ Refs(d) /\ peer[d] \in Device
    BY Ids DEF Local
  <1>2. Extends
    BY <1>1, NoNews DEF PullContent
  <1>3. /\ UNCHANGED <<mans, tree, ledger, latest, parentId, chan, current, peer,
                       cur, target, seen>>
        /\ pc[d] = "pull" /\ pc'[d] = "quarantine"
        /\ basis'[d] = SafeBase(d)
    BY <1>1 DEF PullContent, TypeOK
  <1>4. \A x \in Device \ {d} : Same(x)
    BY <1>1 DEF PullContent, TypeOK, Same, SessSame
  <1>5. SafeBase(d) \in {0, ledger[d][peer[d]]}
    BY DEF SafeBase
  <1>6. Refs(d)'
    BY <1>1, <1>3, <1>5, Ids DEF Refs
  <1>7. Holds(d)'
    BY <1>2, <1>3, HoldsStable
  <1>8. HadAll(peer[d], RootOf(basis[d]))'
    <2>1. CASE SafeBase(d) = 0
      BY <1>3, <2>1 DEF RootOf, EmptyRoot, HadAll
    <2>2. CASE SafeBase(d) # 0
      <3>1. HadAll(peer[d], RootOf(ledger[d][peer[d]]))
        BY <1>1, <1>5, <2>2 DEF Inv, AgreedHad
      <3> QED BY <1>1, <1>2, <1>3, <1>5, <2>2, <3>1, Ids, HadStable
    <2> QED BY <2>1, <2>2
  <1>9. Local(d)'
    BY <1>3, <1>6, <1>7, <1>8 DEF Local, Knows, Quarantined, Writing
  <1> QED BY <1>2, <1>3, <1>4, <1>9, Quiet

-----------------------------------------------------------------------------
(* The merge.                                                               *)

\* What a decision says of the three entries.
LEMMA Decisions ==
    ASSUME NEW b, NEW l, NEW r, NEW x, NEW y
    PROVE  /\ Decide(b, l, r, x, y) = "nothing" => l = r
           /\ Decide(b, l, r, x, y) = "apply_remote" =>
                l = b \/ (r # NoEntry /\ SameContent(l, r))
           /\ Decide(b, l, r, x, y) = "conflict_remote" =>
                l # r /\ (l = NoEntry \/ r # NoEntry)
  BY DEF Decide

\* write_loser_copy: afterwards every local loser has had its copy.
LEMMA QuarantineKeeps ==
    ASSUME Inv, TypeOK', NEW d \in Device, Quarantine(d)
    PROVE  Inv'
  <1> DEFINE T == [n \in Name |->
                     IF \E p \in Path : LostVersion(d, p) # NoEntry
                                          /\ n = <<p, LostVersion(d, p)>>
                     THEN n[2] ELSE tree[d][n]]
  <1>1. TypeOK /\ CopyNames(tree[d]) /\ Refs(d) /\ Knows(d) /\ peer[d] \in Device
    BY Ids DEF Local, Holds
  <1>2. T \in Root
    BY QuarantineType
  <1>3. CopyNames(T)
    BY <1>1 DEF CopyNames, Name
  <1>4. SetTree(d, T)
    BY DEF Quarantine
  <1>5. /\ UNCHANGED <<mans, ledger, latest, parentId, chan, current, peer, cur,
                       target, basis>>
        /\ pc[d] = "quarantine" /\ pc'[d] = "guard"
    BY <1>1 DEF Quarantine, sess, disk, scan, TypeOK
  <1>6. \A x \in Device \ {d} : SessSame(x)
    BY <1>1 DEF Quarantine, TypeOK, SessSame
  <1>7. Refs(d)'
    BY <1>1, <1>5, Ids DEF Refs
  <1>8. ASSUME Extends
        PROVE  Knows(d)' /\ Writing(d)'
    BY <1>1, <1>5, <1>8, Ids, HadStable DEF Knows, Writing
  <1>9. ASSUME Extends
        PROVE  Quarantined(d)'
    <2> SUFFICES ASSUME NEW p \in Path, Dec(d, p)' = "conflict_remote", Loc(d, p)' # NoEntry
                 PROVE  seen'[d][<<p, Loc(d, p)'>>] # {}
      BY DEF Quarantined
    <2>1. p \in Name
      BY DEF Name
    <2>2. Dec(d, p)' = Dec(d, p) /\ Loc(d, p)' = Loc(d, p)
      BY <1>1, <1>5, <1>9, <2>1, DecStable
    <2>3. LostVersion(d, p) = Loc(d, p)
      BY <2>2 DEF LostVersion, Conflicts, Loser
    <2>4. Loc(d, p) \in File
      BY <2>1, <2>2, MergeType
    <2>5. <<p, Loc(d, p)>> \in Name
      BY <2>4 DEF Name
    <2>6. T[<<p, Loc(d, p)>>] = Loc(d, p)
      BY <2>2, <2>3, <2>5
    <2> HIDE DEF T
    <2>7. Loc(d, p) \in seen'[d][<<p, Loc(d, p)>>]
      BY <1>1, <1>2, <1>4, <2>2, <2>5, <2>6, TreeSet
    <2> QED BY <2>2, <2>7
  <1> HIDE DEF T
  <1> QED BY <1>2, <1>3, <1>4, <1>5, <1>6, <1>7, <1>8, <1>9, SetStep

\* The folder passes its guards: what the plan will do is known from here on.
LEMMA GuardWrites ==
    ASSUME Inv, NEW d \in Device, Guard(d)
    PROVE  /\ \A o \in Ops(d) :
                /\ o.n \in Name
                /\ Dec(d, o.n) \in TakesRemote
                /\ o.op = "remove" <=> Rem(d, o.n) = NoEntry
                /\ tree[d][o.n] # NoEntry
                     => Loc(d, o.n) # NoEntry /\ SameContent(tree[d][o.n], Loc(d, o.n))
           /\ \A n \in Name :
                /\ Dec(d, n) \in TakesRemote
                /\ Rem(d, n) # NoEntry
                /\ \A o \in Ops(d) : o.n = n => o.op = "touch"
                => Had(d, n, Rem(d, n))
  <1>1. ASSUME NEW o \in Ops(d)
        PROVE  /\ o.n \in Name
               /\ Dec(d, o.n) \in TakesRemote
               /\ o.op = "remove" <=> Rem(d, o.n) = NoEntry
    BY <1>1 DEF Ops
  <1>2. ASSUME NEW o \in Ops(d), tree[d][o.n] # NoEntry
        PROVE  Loc(d, o.n) # NoEntry /\ SameContent(tree[d][o.n], Loc(d, o.n))
    <2>1. LiveMatches(d, o.n, Loc(d, o.n))
      BY DEF Guard, Guarded
    <2> QED BY <1>2, <2>1 DEF LiveMatches
  <1>3. ASSUME NEW n \in Name, Dec(d, n) \in TakesRemote, Rem(d, n) # NoEntry,
               \A o \in Ops(d) : o.n = n => o.op = "touch"
        PROVE  Had(d, n, Rem(d, n))
    <2>1. tree[d][n] # NoEntry => tree[d][n] \in seen[d][n]
      BY Ids DEF Local, Holds
    <2>2. CASE tree[d][n] = Rem(d, n)
      BY <1>3, <2>1, <2>2 DEF Had, SameContent
    <2>3. CASE tree[d][n] # Rem(d, n)
      <3> DEFINE op == IF tree[d][n] # NoEntry /\ SameContent(tree[d][n], Rem(d, n))
                       THEN "touch" ELSE "write"
      <3>1. [n |-> n, op |-> op] \in Ops(d)
        BY <1>3, <2>3 DEF Ops
      <3>2. op = "touch"
        BY <1>3, <3>1
      <3>3. tree[d][n] # NoEntry /\ SameContent(tree[d][n], Rem(d, n))
        BY <3>2
      <3> QED BY <2>1, <3>3 DEF Had
    <2> QED BY <2>2, <2>3
  <1> QED BY <1>1, <1>2, <1>3

\* guard_removal and guard_upsert establish what apply relies on.
LEMMA GuardKeeps ==
    ASSUME Inv, TypeOK', NEW d \in Device, Guard(d)
    PROVE  Inv'
  <1> USE DEF disk, scan
  <1>1. TypeOK /\ Refs(d) /\ Knows(d) /\ Quarantined(d) /\ peer[d] \in Device
    BY Ids DEF Local
  <1>2. Extends
    BY <1>1, NoNews DEF Guard
  <1>3. /\ UNCHANGED <<mans, tree, ledger, latest, parentId, chan, current, peer,
                       cur, target, basis, seen>>
        /\ pc[d] = "guard" /\ pc'[d] = "write"
        /\ todo'[d] = Ops(d) /\ atGuard'[d] = tree[d]
    BY <1>1 DEF Guard, TypeOK
  <1>4. \A x \in Device \ {d} : Same(x)
    BY <1>1 DEF Guard, TypeOK, Same, SessSame
  <1>5. Refs(d)'
    BY <1>1, <1>3, Ids DEF Refs
  <1>6. Holds(d)'
    BY <1>2, <1>3, HoldsStable
  <1>7. ASSUME NEW n \in Name
        PROVE  /\ Dec(d, n)' = Dec(d, n)
               /\ Loc(d, n)' = Loc(d, n)
               /\ Rem(d, n)' = Rem(d, n)
    BY <1>1, <1>2, <1>3, DecStable
  <1>8. Knows(d)'
    BY <1>1, <1>2, <1>3, Ids, HadStable DEF Knows
  <1>9. Quarantined(d)'
    BY <1>1, <1>3, <1>7 DEF Quarantined, Name
  <1>10. Writing(d)'
    <2>1. ASSUME NEW n \in Name, Had(d, n, Rem(d, n))
          PROVE  Had(d, n, Rem(d, n))'
      BY <1>3, <1>7, <2>1 DEF Had
    <2> QED BY <1>3, <1>7, <2>1, GuardWrites DEF Writing
  <1>11. Local(d)'
    BY <1>5, <1>6, <1>8, <1>9, <1>10 DEF Local
  <1> QED BY <1>2, <1>3, <1>4, <1>11, Quiet

\* One operation of apply keeps it for the ones that are left.
LEMMA WriteOneKeeps ==
    ASSUME Inv, TypeOK', NEW d \in Device, NEW o \in todo[d], WriteOne(d, o)
    PROVE  Inv'
  <1> DEFINE T == [tree[d] EXCEPT ![o.n] =
                     IF o.op = "touch" THEN [@ EXCEPT !.t = Rem(d, o.n).t]
                                       ELSE Rem(d, o.n)]
  <1>1. /\ TypeOK /\ CopyNames(tree[d]) /\ Refs(d) /\ Knows(d) /\ Quarantined(d)
        /\ Writing(d) /\ peer[d] \in Device
    BY Ids DEF Local, Holds
  <1>2. o.n \in Name /\ T \in Root
    BY WriteType DEF WriteOne
  <1>3. /\ UNCHANGED <<mans, ledger, latest, parentId, chan, current, pc, peer, cur,
                       target, basis, atGuard>>
        /\ pc[d] = "write" /\ todo'[d] = todo[d] \ {o}
    BY <1>1 DEF WriteOne, disk, scan, TypeOK
  <1>4. /\ o.op = "remove" <=> Rem(d, o.n) = NoEntry
        /\ o.op = "touch" => tree[d][o.n] # NoEntry
        /\ tree[d] \in Root
        /\ SetTree(d, T)
    BY <1>1, <1>3 DEF Writing, WriteOne, TypeOK
  <1>5. CopyNames(T)
    <2> SUFFICES ASSUME o.n \in Path \X File
                 PROVE  T[o.n] \in {o.n[2], NoEntry}
      BY <1>1, <1>2, <1>4 DEF CopyNames, Root, Name
    <2>1. Rem(d, o.n) \in {o.n[2], NoEntry}
      <3>1. target[d] \in Id /\ RootOf(target[d]) = mans[target[d]].root
        BY <1>1, <1>3, Ids DEF Refs, Id, RootOf
      <3>2. CopyNames(mans[target[d]].root)
        BY <3>1 DEF Inv, ManifestsHad
      <3> QED BY <3>1, <3>2 DEF CopyNames, Rem
    <2>2. CASE o.op # "touch"
      BY <1>2, <1>4, <2>1, <2>2 DEF Root
    <2>3. CASE o.op = "touch"
      <3>1. Rem(d, o.n) = o.n[2] /\ tree[d][o.n] = o.n[2]
        BY <1>1, <1>4, <2>1, <2>3 DEF CopyNames
      <3>2. o.n[2] \in File
        OBVIOUS
      <3>3. [tree[d][o.n] EXCEPT !.t = Rem(d, o.n).t] = o.n[2]
        BY <3>1, <3>2 DEF File
      <3> QED BY <1>2, <1>4, <2>3, <3>3 DEF Root
    <2> QED BY <2>2, <2>3
  <1>6. \A x \in Device \ {d} : SessSame(x)
    BY <1>1, <1>3 DEF WriteOne, TypeOK, SessSame
  <1>7. Refs(d)'
    BY <1>1, <1>3, Ids DEF Refs
  <1>8. o.op # "touch" => T[o.n] = Rem(d, o.n)
    BY <1>2, <1>4 DEF Root
  <1> HIDE DEF T
  <1>9. ASSUME Extends
        PROVE  Knows(d)' /\ Quarantined(d)' /\ Writing(d)'
    <2>1. Knows(d)'
      BY <1>1, <1>3, <1>9, Ids, HadStable DEF Knows
    <2>2. ASSUME NEW n \in Name
          PROVE  /\ Dec(d, n)' = Dec(d, n)
                 /\ Loc(d, n)' = Loc(d, n)
                 /\ Rem(d, n)' = Rem(d, n)
      BY <1>1, <1>3, <1>9, DecStable
    <2>3. Quarantined(d)'
      <3> SUFFICES ASSUME NEW p \in Path, Dec(d, p)' = "conflict_remote",
                          Loc(d, p)' # NoEntry
                   PROVE  seen'[d][<<p, Loc(d, p)'>>] # {}
        BY DEF Quarantined
      <3>1. p \in Name
        BY DEF Name
      <3>2. Dec(d, p)' = Dec(d, p) /\ Loc(d, p)' = Loc(d, p)
        BY <2>2, <3>1
      <3>3. <<p, Loc(d, p)>> \in Name
        BY <3>1, <3>2, MergeType DEF Name
      <3> QED BY <1>1, <1>3, <1>9, <3>2, <3>3 DEF Quarantined, Extends
    <2>4. ASSUME NEW n \in Name, Dec(d, n) \in TakesRemote, Rem(d, n) # NoEntry,
                 \A x \in todo[d] \ {o} : x.n = n => x.op = "touch"
          PROVE  Had(d, n, Rem(d, n))'
      <3>1. CASE n # o.n \/ o.op = "touch"
        <4>1. Had(d, n, Rem(d, n))
          BY <1>1, <1>3, <2>4, <3>1 DEF Writing
        <4> QED BY <1>9, <2>2, <4>1 DEF Had, Extends
      <3>2. CASE n = o.n /\ o.op # "touch"
        <4>1. Rem(d, n) \in seen'[d][n]
          BY <1>1, <1>2, <1>4, <1>8, <2>4, <3>2, TreeSet
        <4> QED BY <2>2, <4>1 DEF Had, SameContent
      <3> QED BY <3>1, <3>2
    <2>5. \A x \in todo[d] : x.n \in Name
      BY <1>1 DEF TypeOK, Op
    <2>6. Writing(d)'
      BY <1>1, <1>3, <2>2, <2>4, <2>5 DEF Writing
    <2> QED BY <2>1, <2>3, <2>6
  <1> QED BY <1>2, <1>3, <1>4, <1>5, <1>6, <1>7, <1>9, SetStep

-----------------------------------------------------------------------------
(* Agreements.                                                              *)

\* AgreementLedger::record of a manifest that both have had is sound.
LEMMA RecordHad ==
    ASSUME Inv, Extends, NEW d \in Device, NEW e \in Device, NEW i \in Nat,
           i <= Len(mans), Record(d, e, i), HadAll(d, RootOf(i)), HadAll(e, RootOf(i))
    PROVE  /\ AgreedHad'
           /\ ledger'[d][e] = i /\ latest'[d] = i
           /\ \A x \in Device \ {e} : ledger'[d][x] = ledger[d][x]
           /\ \A x \in Device \ {d} : ledger'[x] = ledger[x] /\ latest'[x] = latest[x]
  <1>1. ledger \in [Device -> [Device -> Nat]] /\ latest \in [Device -> Nat]
    BY DEF Inv, TypeOK
  <1>2. /\ ledger'[d][e] = i /\ latest'[d] = i
        /\ \A x \in Device \ {e} : ledger'[d][x] = ledger[d][x]
        /\ \A x \in Device \ {d} : ledger'[x] = ledger[x] /\ latest'[x] = latest[x]
    BY <1>1 DEF Record
  <1>3. ASSUME NEW x \in Device, NEW y \in Device, ledger'[x][y] # 0
        PROVE  HadAll(x, RootOf(ledger[x][y]))' /\ HadAll(y, RootOf(ledger[x][y]))'
    <2>1. CASE x = d /\ y = e
      BY <1>2, <2>1, HadStable
    <2>2. CASE ~(x = d /\ y = e)
      <3>1. ledger'[x][y] = ledger[x][y]
        BY <1>2, <2>2
      <3>2. HadAll(x, RootOf(ledger[x][y])) /\ HadAll(y, RootOf(ledger[x][y]))
        BY <1>3, <3>1 DEF Inv, AgreedHad
      <3> QED BY <3>1, <3>2, Ids, HadStable
    <2> QED BY <2>1, <2>2
  <1> QED BY <1>2, <1>3 DEF AgreedHad

\* A clean merge that has been carried out leaves nothing of the peer's
\* manifest that this end has not had.
LEMMA CleanHad ==
    ASSUME Inv, NEW d \in Device, pc[d] = "write", todo[d] = {}, Clean(d)
    PROVE  HadAll(d, RootOf(target[d]))
  <1> SUFFICES ASSUME NEW n \in Name, Rem(d, n) # NoEntry
               PROVE  Had(d, n, Rem(d, n))
    BY DEF HadAll, Rem
  <1>1. Writing(d) /\ Holds(d)
    BY Ids DEF Local
  <1>2. CASE Dec(d, n) = "apply_remote"
    BY <1>1, <1>2 DEF Writing, TakesRemote
  <1>3. CASE Dec(d, n) = "nothing"
    <2>1. Loc(d, n) = Rem(d, n)
      BY <1>3, Decisions DEF Dec
    <2> QED BY <1>1, <2>1 DEF Holds, HadAll, Loc
  <1> QED BY <1>2, <1>3 DEF Clean

\* The agreement of converge is sound: it names the device that made the
\* manifest, which had it when it published it.
LEMMA PullDoneKeeps ==
    ASSUME Inv, TypeOK', NEW d \in Device, PullDone(d)
    PROVE  Inv'
  <1>1. TypeOK /\ Refs(d) /\ Holds(d)
    BY Ids DEF Local
  <1>2. Extends
    BY <1>1, NoNews DEF PullDone
  <1>3. /\ UNCHANGED <<mans, tree, chan, peer, target, seen, todo>>
        /\ pc[d] = "write" /\ pc'[d] = "closing" /\ basis'[d] = 0 /\ todo[d] = {}
        /\ cur[d] # 0 /\ target[d] # 0 /\ current[d] # 0
    BY <1>1 DEF PullDone, TypeOK, Refs
  <1>4. \A x \in Device \ {d} : /\ pc'[x] = pc[x] /\ basis'[x] = basis[x]
                                /\ atGuard'[x] = atGuard[x]
    BY <1>1 DEF PullDone, TypeOK
  <1>5. CASE ~Clean(d)
    <2>1. UNCHANGED <<ledger, latest, parentId, current, cur>>
      BY <1>5 DEF PullDone
    <2>2. \A x \in Device \ {d} : Same(x)
      BY <1>3, <1>4, <2>1 DEF Same, SessSame
    <2>3. Refs(d)'
      BY <1>1, <1>3, <2>1, Ids DEF Refs
    <2>4. Holds(d)'
      BY <1>2, <1>3, <2>1, HoldsStable
    <2>5. Local(d)'
      BY <1>2, <1>3, <2>3, <2>4, CalmSess DEF Local
    <2> QED BY <1>2, <1>3, <2>1, <2>2, <2>5, Quiet
  <1>6. CASE Clean(d)
    <2> DEFINE e == mans[target[d]].dev
    <2>1. /\ Record(d, e, target[d])
          /\ parentId'[d] = target[d] /\ current'[d] = target[d] /\ cur'[d] = target[d]
          /\ \A x \in Device \ {d} : /\ parentId'[x] = parentId[x]
                                     /\ current'[x] = current[x] /\ cur'[x] = cur[x]
      BY <1>1, <1>6 DEF PullDone, Adopt, TypeOK
    <2>2. HadAll(d, RootOf(target[d]))
      BY <1>3, <1>6, CleanHad
    <2>3. e \in Device /\ HadAll(e, RootOf(target[d]))
      <3>1. target[d] \in Id /\ RootOf(target[d]) = mans[target[d]].root
        BY <1>3, Ids DEF Id, RootOf
      <3>2. mans \in Seq(Manifest)
        BY <1>1 DEF TypeOK
      <3>3. mans[target[d]] \in Manifest
        BY <3>1, <3>2 DEF Id
      <3> QED BY <3>1, <3>3 DEF Manifest, Inv, ManifestsHad
    <2> HIDE DEF e
    <2>4. /\ AgreedHad'
          /\ ledger'[d][e] = target[d] /\ latest'[d] = target[d]
          /\ \A x \in Device \ {e} : ledger'[d][x] = ledger[d][x]
          /\ \A x \in Device \ {d} : ledger'[x] = ledger[x] /\ latest'[x] = latest[x]
      BY <1>2, <2>1, <2>2, <2>3, Ids, RecordHad
    <2>5. \A x \in Device \ {d} : Local(x)'
      BY <1>2, <1>3, <1>4, <2>1, <2>4, LocalStable DEF Same, SessSame
    <2>6. Refs(d)'
      <3>1. \A x \in Device : ledger'[d][x] <= Len(mans)
        BY <2>3, <2>4, Ids
      <3> QED BY <1>3, <2>1, <2>4, <3>1, Ids DEF Refs
    <2>7. Holds(d)'
      <3>1. /\ HadAll(d, RootOf(chan[d]))' /\ HadAll(d, RootOf(current[d]))'
            /\ HadAll(d, RootOf(cur[d]))'
        BY <1>1, <1>2, <1>3, <2>1, <2>2, Ids, HadStable DEF Holds
      <3> QED BY <1>2, <1>3, <3>1, HoldsPointers
    <2>8. Local(d)'
      BY <1>2, <1>3, <2>6, <2>7, CalmSess DEF Local
    <2> QED BY <1>2, <1>3, <2>4, <2>5, <2>8, ManifestsStable DEF Inv
  <1> QED BY <1>5, <1>6

\* The agreement of record_agreement is sound: the second offers matched.
LEMMA AgreeKeeps ==
    ASSUME Inv, TypeOK', NEW d \in Device, Agree(d)
    PROVE  Inv'
  <1> DEFINE e == peer[d]
  <1>1. TypeOK /\ Refs(d) /\ Holds(d) /\ Knows(d) /\ e \in Device
    BY Ids DEF Local
  <1>2. Extends
    BY <1>1, NoNews DEF Agree, hist
  <1>3. /\ UNCHANGED <<mans, tree, chan, current, peer, cur, target, basis, todo,
                       atGuard, seen>>
        /\ pc[d] = "agree" /\ pc'[d] = "bye" /\ target[d] = cur[d]
        /\ parentId'[d] = cur[d]
        /\ Record(d, e, cur[d])
        /\ \A x \in Device \ {d} : pc'[x] = pc[x] /\ parentId'[x] = parentId[x]
    BY <1>1 DEF Agree, hist, TypeOK
  <1>4. HadAll(d, RootOf(cur[d])) /\ HadAll(e, RootOf(cur[d]))
    BY <1>1, <1>3 DEF Holds, Knows
  <1> HIDE DEF e
  <1>5. /\ AgreedHad'
        /\ ledger'[d][e] = cur[d] /\ latest'[d] = cur[d]
        /\ \A x \in Device \ {e} : ledger'[d][x] = ledger[d][x]
        /\ \A x \in Device \ {d} : ledger'[x] = ledger[x] /\ latest'[x] = latest[x]
    BY <1>1, <1>2, <1>3, <1>4, Ids, RecordHad
  <1>6. \A x \in Device \ {d} : Local(x)'
    BY <1>2, <1>3, <1>5, LocalStable DEF Same, SessSame
  <1>7. Refs(d)'
    <2>1. \A x \in Device : ledger'[d][x] <= Len(mans)
      BY <1>1, <1>5, Ids
    <2> QED BY <1>1, <1>3, <1>5, <2>1, Ids DEF Refs
  <1>8. Holds(d)'
    BY <1>2, <1>3, HoldsStable
  <1>9. Local(d)'
    BY <1>2, <1>3, <1>7, <1>8, CalmSess DEF Local
  <1> QED BY <1>2, <1>3, <1>5, <1>6, <1>9, ManifestsStable DEF Inv

-----------------------------------------------------------------------------
(* Publishing.                                                              *)

\* The new manifest shows the live folder, which its device has had.
LEMMA Published ==
    ASSUME Inv, TypeOK', NEW d \in Device, NEW k \in Nat, seen' = seen,
           mans' = Append(mans, [dev |-> d, root |-> tree[d], parent |-> k])
    PROVE  /\ Extends /\ ManifestsHad' /\ Len(mans') = Len(mans) + 1
           /\ \A i \in Nat : i = Len(mans) + 1 => HadAll(d, RootOf(i))'
           /\ mans'[Len(mans) + 1].root = tree[d]
  <1> DEFINE m == [dev |-> d, root |-> tree[d], parent |-> k]
             N == Len(mans) + 1
  <1>1. mans \in Seq(Manifest) /\ Len(mans) \in Nat /\ Holds(d) /\ tree[d] \in Root
    BY Ids DEF TypeOK, Local
  <1>2. m \in Manifest
    BY <1>1 DEF Manifest
  <1>3. /\ Len(mans') = N /\ mans'[N] = m
        /\ \A i \in 1 .. Len(mans) : mans'[i] = mans[i] /\ mans[i] \in Manifest
    BY <1>1, <1>2
  <1>4. Extends
    BY <1>1, <1>3 DEF Extends
  <1>5. HadAll(d, tree[d])
    BY <1>1 DEF Holds, HadAll, Had, SameContent
  <1>6. ASSUME NEW i \in 1 .. N
        PROVE  HadAll(mans[i].dev, mans[i].root)' /\ CopyNames(mans[i].root)'
    <2>1. CASE i = N
      BY <1>1, <1>3, <1>5, <2>1 DEF HadAll, Had, Holds, CopyNames
    <2>2. CASE i \in 1 .. Len(mans)
      BY <1>1, <1>3, <2>2 DEF Inv, ManifestsHad, Id, HadAll, Had, CopyNames
    <2> QED BY <1>1, <2>1, <2>2
  <1>7. ManifestsHad'
    BY <1>3, <1>6 DEF ManifestsHad, Id
  <1>8. ASSUME NEW i \in Nat, i = N
        PROVE  HadAll(d, RootOf(i))'
    BY <1>1, <1>3, <1>5, <1>8 DEF RootOf, HadAll, Had
  <1> QED BY <1>3, <1>4, <1>7, <1>8

\* What every publishing step of d has in common.
LEMMA PublishStep ==
    ASSUME Inv, TypeOK', NEW d \in Device, NEW k \in Nat,
           mans' = Append(mans, [dev |-> d, root |-> tree[d], parent |-> k]),
           UNCHANGED <<tree, ledger, latest, seen>>,
           parentId'[d] \in Nat, parentId'[d] <= Len(mans) + 1,
           chan'[d] \in {0, chan[d], Len(mans) + 1},
           \/ current'[d] \in {current[d], Len(mans) + 1}
           \/ current'[d] = latest[d] /\ HadAll(d, RootOf(latest[d])),
           \A x \in Device \ {d} : Same(x),
           cur'[d] \in {0, cur[d], current'[d]},
           target'[d] \in {0, target[d]}, basis'[d] \in {0, basis[d]},
           pc'[d] # "off" => current'[d] # 0,
           pc'[d] \notin {"off", "idle", "begin"} => cur'[d] # 0,
           pc'[d] \notin {"off", "idle", "begin", "offer"} => target'[d] # 0,
           Extends => Knows(d)' /\ Quarantined(d)' /\ Writing(d)'
    PROVE  Inv'
  <1>1. /\ Extends /\ ManifestsHad' /\ Len(mans') = Len(mans) + 1
        /\ \A i \in Nat : i = Len(mans) + 1 => HadAll(d, RootOf(i))'
    BY Published
  <1>2. \A x \in Device \ {d} : Local(x)'
    BY <1>1, LocalStable
  <1>3. Refs(d)'
    BY <1>1, Ids DEF Refs
  <1>4. Len(mans) \in Nat /\ Holds(d)
    BY Ids DEF Local
  <1>5. HadAll(d, RootOf(chan[d]))'
    <2>1. CASE chan'[d] = 0
      BY <2>1 DEF HadAll, RootOf, EmptyRoot
    <2>2. CASE chan'[d] = chan[d]
      BY <1>1, <1>4, <2>2, Ids, HadStable DEF Holds
    <2>3. CASE chan'[d] = Len(mans) + 1
      BY <1>1, <1>4, <2>3
    <2> QED BY <2>1, <2>2, <2>3
  <1>6. HadAll(d, RootOf(current[d]))'
    <2>1. CASE current'[d] = latest[d] /\ HadAll(d, RootOf(latest[d]))
      BY <1>1, <2>1, Ids, HadStable
    <2>2. CASE current'[d] = current[d]
      BY <1>1, <1>4, <2>2, Ids, HadStable DEF Holds
    <2>3. CASE current'[d] = Len(mans) + 1
      BY <1>1, <1>4, <2>3
    <2> QED BY <2>1, <2>2, <2>3
  <1>7. HadAll(d, RootOf(cur[d]))'
    <2>1. CASE cur'[d] = 0
      BY <2>1 DEF HadAll, RootOf, EmptyRoot
    <2>2. CASE cur'[d] = cur[d]
      BY <1>1, <1>4, <2>2, Ids, HadStable DEF Holds
    <2>3. CASE cur'[d] = current'[d]
      BY <1>6, <2>3 DEF HadAll, Had, RootOf
    <2> QED BY <2>1, <2>2, <2>3
  <1>8. Holds(d)'
    BY <1>1, <1>5, <1>6, <1>7, HoldsPointers
  <1>9. Local(d)'
    BY <1>1, <1>3, <1>8 DEF Local
  <1> QED BY <1>1, <1>2, <1>9, AgreedStable DEF Inv

\* SyncEngine::start: a manifest named by the ledger and still readable.
LEMMA StartKeeps ==
    ASSUME Inv, TypeOK', NEW d \in Device, Start(d)
    PROVE  Inv'
  <1> DEFINE a == IF latest[d] \in store[d] THEN latest[d] ELSE 0
             k == Len(mans) + 1
  <1> USE DEF hist
  <1>1. TypeOK /\ Holds(d) /\ Len(mans) \in Nat /\ a \in Nat /\ a <= Len(mans)
    BY Ids DEF Local
  <1>2. /\ mans' = Append(mans, [dev |-> d, root |-> tree[d], parent |-> a])
        /\ UNCHANGED <<tree, ledger, latest, peer, cur, target, basis, todo, hist>>
        /\ pc[d] = "off"
    BY DEF Start, LatestAgreed
  <1>3. /\ parentId'[d] = (IF a # 0 THEN a ELSE k)
        /\ chan'[d] = 0 /\ pc'[d] = "idle"
        /\ current'[d] = (IF a # 0 /\ mans[a].root = tree[d] THEN a ELSE k)
    BY <1>1 DEF Start, LatestAgreed, TypeOK
  <1>4. \A x \in Device \ {d} : Same(x)
    <2>1. /\ pc \in [Device -> PC] /\ parentId \in [Device -> Nat]
          /\ chan \in [Device -> Nat] /\ current \in [Device -> Nat]
      BY <1>1 DEF TypeOK
    <2>2. \A x \in Device \ {d} : /\ pc'[x] = pc[x] /\ parentId'[x] = parentId[x]
                                  /\ chan'[x] = chan[x] /\ current'[x] = current[x]
      BY <2>1 DEF Start, LatestAgreed
    <2> QED BY <1>2, <2>2 DEF Same, SessSame
  <1>5. \/ current'[d] = k
        \/ current'[d] = latest[d] /\ current'[d] # 0 /\ HadAll(d, RootOf(latest[d]))
    <2>1. HadAll(d, tree[d])
      BY <1>1 DEF Holds, HadAll, Had, SameContent
    <2> QED BY <1>3, <2>1 DEF RootOf
  <1>6. parentId'[d] \in Nat /\ parentId'[d] <= k /\ k # 0
    BY <1>1, <1>3
  <1>7. Extends => Knows(d)' /\ Quarantined(d)' /\ Writing(d)'
    BY <1>2, <1>3, CalmSess
  <1> HIDE DEF a
  <1> QED BY <1>1, <1>2, <1>3, <1>4, <1>5, <1>6, <1>7, PublishStep

\* Publish moves only the scan engine's own registers.
LEMMA PublishLocal ==
    ASSUME TypeOK, NEW d \in Device, Publish(d)
    PROVE  /\ mans' = Append(mans, [dev |-> d, root |-> tree[d], parent |-> parentId[d]])
           /\ parentId[d] \in Nat /\ Len(mans) \in Nat
           /\ parentId'[d] = Len(mans) + 1
           /\ chan'[d] \in {chan[d], Len(mans) + 1}
           /\ \A x \in Device \ {d} : parentId'[x] = parentId[x] /\ chan'[x] = chan[x]
  <1>1. /\ parentId \in [Device -> Nat] /\ chan \in [Device -> Nat]
        /\ Len(mans) \in Nat
    BY DEF TypeOK
  <1> QED BY <1>1 DEF Publish

\* A pass of the scan worker, at any point of a session.
LEMMA ScanKeeps ==
    ASSUME Inv, TypeOK', NEW d \in Device, Scan(d)
    PROVE  Inv'
  <1>1. TypeOK /\ Refs(d) /\ Len(mans) \in Nat
    BY Ids DEF Local
  <1>2. /\ mans' = Append(mans, [dev |-> d, root |-> tree[d], parent |-> parentId[d]])
        /\ parentId[d] \in Nat
        /\ parentId'[d] = Len(mans) + 1
        /\ chan'[d] \in {chan[d], Len(mans) + 1}
        /\ \A x \in Device \ {d} : parentId'[x] = parentId[x] /\ chan'[x] = chan[x]
    BY <1>1, PublishLocal DEF Scan
  <1>3. UNCHANGED <<tree, ledger, latest, current, pc, peer, cur, target, basis, todo,
                    atGuard, seen>>
    BY DEF Scan, sess, hist
  <1>4. SessSame(d) /\ \A x \in Device \ {d} : Same(x)
    BY <1>2, <1>3 DEF Same, SessSame
  <1>5. Extends => Knows(d)' /\ Quarantined(d)' /\ Writing(d)'
    BY <1>4, SessStable
  <1>6. parentId'[d] \in Nat /\ parentId'[d] <= Len(mans) + 1
    BY <1>1, <1>2
  <1> QED BY <1>1, <1>2, <1>3, <1>4, <1>5, <1>6, PublishStep DEF Refs

\* The scan_once before a session.
LEMMA BeginScanKeeps ==
    ASSUME Inv, TypeOK', NEW d \in Device, BeginScan(d)
    PROVE  Inv'
  <1>1. TypeOK /\ Refs(d) /\ Len(mans) \in Nat
    BY Ids DEF Local
  <1>2. /\ mans' = Append(mans, [dev |-> d, root |-> tree[d], parent |-> parentId[d]])
        /\ parentId[d] \in Nat
        /\ parentId'[d] = Len(mans) + 1
        /\ chan'[d] \in {chan[d], Len(mans) + 1}
        /\ \A x \in Device \ {d} : parentId'[x] = parentId[x] /\ chan'[x] = chan[x]
    BY <1>1, PublishLocal DEF BeginScan
  <1>3. /\ UNCHANGED <<tree, ledger, latest, peer, target, basis, todo, atGuard, seen>>
        /\ pc'[d] = "offer"
    BY <1>1 DEF BeginScan, hist, TypeOK
  <1>4. /\ current'[d] \in {current[d], Len(mans) + 1} /\ current'[d] # 0
        /\ cur'[d] = current'[d]
    BY <1>1 DEF BeginScan, UpdateFromScan, TypeOK
  <1>5. \A x \in Device \ {d} : pc'[x] = pc[x] /\ current'[x] = current[x] /\ cur'[x] = cur[x]
    BY <1>1 DEF BeginScan, TypeOK
  <1>6. \A x \in Device \ {d} : Same(x)
    BY <1>2, <1>3, <1>5 DEF Same, SessSame
  <1>7. Extends => Knows(d)' /\ Quarantined(d)' /\ Writing(d)'
    BY <1>3, CalmSess
  <1>8. parentId'[d] \in Nat /\ parentId'[d] <= Len(mans) + 1
    BY <1>1, <1>2
  <1> QED BY <1>1, <1>2, <1>3, <1>4, <1>6, <1>7, <1>8, PublishStep

\* The scan_once after a session.
LEMMA ByeScanKeeps ==
    ASSUME Inv, TypeOK', NEW d \in Device, ByeScan(d)
    PROVE  Inv'
  <1>1. TypeOK /\ Refs(d) /\ Len(mans) \in Nat
    BY Ids DEF Local
  <1>2. /\ mans' = Append(mans, [dev |-> d, root |-> tree[d], parent |-> parentId[d]])
        /\ parentId[d] \in Nat
        /\ parentId'[d] = Len(mans) + 1
        /\ chan'[d] \in {chan[d], Len(mans) + 1}
        /\ \A x \in Device \ {d} : parentId'[x] = parentId[x] /\ chan'[x] = chan[x]
    BY <1>1, PublishLocal DEF ByeScan
  <1>3. /\ pc'[d] = "idle" /\ cur'[d] = 0 /\ target'[d] = 0 /\ basis'[d] = 0
        /\ \A x \in Device \ {d} : SessSame(x)
    BY <1>1, QuitSame DEF ByeScan, Leave
  <1>4. UNCHANGED <<tree, ledger, latest, current, seen>> /\ current[d] # 0
    BY <1>1 DEF ByeScan, Refs
  <1>5. \A x \in Device \ {d} : Same(x)
    BY <1>2, <1>3, <1>4 DEF Same
  <1>6. Extends => Knows(d)' /\ Quarantined(d)' /\ Writing(d)'
    BY <1>3, CalmSess
  <1>7. parentId'[d] \in Nat /\ parentId'[d] <= Len(mans) + 1
    BY <1>1, <1>2
  <1> QED BY <1>1, <1>2, <1>3, <1>4, <1>5, <1>6, <1>7, PublishStep

-----------------------------------------------------------------------------
(* The theorems.                                                            *)

\* Before the first start.
LEMMA InitInv == Init => Inv
  <1> SUFFICES ASSUME Init PROVE Inv
    OBVIOUS
  <1>1. EmptyRoot \in Root /\ tree \in [Device -> Root]
    BY UserAssumption DEF Init, EmptyRoot, Root
  <1>2. \A d \in Device : \A n \in Name : tree[d][n] \in File \cup {NoEntry}
    BY <1>1 DEF Root
  <1>3. seen \in [Device -> [Name -> SUBSET File]]
    BY <1>2 DEF Init
  <1>4. TypeOK
    BY <1>1, <1>3 DEF Init, TypeOK, Idle, PC
  <1>5. Len(mans) = 0
    BY DEF Init
  <1>6. ManifestsHad /\ AgreedHad
    BY <1>5 DEF Init, ManifestsHad, AgreedHad, Id
  <1>7. ASSUME NEW d \in Device
        PROVE  Local(d)
    <2>1. Refs(d)
      BY <1>5 DEF Init, Refs
    <2>2. CopyNames(tree[d])
      BY UserAssumption DEF Init, CopyNames
    <2>3. \A n \in Name : tree[d][n] # NoEntry => tree[d][n] \in seen[d][n]
      BY DEF Init
    <2>4. chan[d] = 0 /\ current[d] = 0 /\ cur[d] = 0 /\ basis[d] = 0 /\ pc[d] = "off"
      BY DEF Init
    <2>5. \A x : HadAll(x, RootOf(0))
      BY DEF HadAll, RootOf, EmptyRoot
    <2> QED BY <2>1, <2>2, <2>3, <2>4, <2>5 DEF Local, Holds, Knows, Quarantined, Writing
  <1> QED BY <1>4, <1>6, <1>7 DEF Inv

\* Every step of every device keeps the invariant.
LEMMA InvStep == Inv /\ [Next]_vars => Inv'
  <1>1. ASSUME Inv, Next
        PROVE  Inv'
    <2>1. TypeOK'
      BY <1>1, TypeStep
    <2>2. PICK d \in Device :
            \/ UserStep(d)
            \/ Start(d) \/ Scan(d) \/ HandleScanUpdate(d)
            \/ Dial(d) \/ SessionStep(d)
            \/ Crash(d) \/ Disconnect(d)
      BY <1>1 DEF Next
    <2>3. CASE UserStep(d)
      BY <1>1, <2>1, <2>3, EditKeeps, DiscardKeeps DEF UserStep
    <2>4. CASE Start(d) \/ Scan(d) \/ HandleScanUpdate(d)
      BY <1>1, <2>1, <2>4, StartKeeps, ScanKeeps, HandleScanUpdateKeeps
    <2>5. CASE Dial(d)
      BY <1>1, <2>1, <2>5, ConnectKeeps DEF Dial
    <2>6. CASE SessionStep(d)
      BY <1>1, <2>1, <2>6, BeginStaleKeeps, BeginScanKeeps, RoundKeeps,
         PullEqualRootsKeeps, MoveKeeps, PullContentKeeps, QuarantineKeeps,
         GuardKeeps, EndKeeps, WriteOneKeeps, PullDoneKeeps, AgreeKeeps, ByeScanKeeps
      DEF SessionStep
    <2>7. CASE Crash(d) \/ Disconnect(d)
      BY <1>1, <2>1, <2>7, CrashKeeps, EndKeeps
    <2> QED BY <2>2, <2>3, <2>4, <2>5, <2>6, <2>7
  <1>2. ASSUME Inv, UNCHANGED vars
        PROVE  Inv'
    <2>1. UNCHANGED <<mans, tree, store, staged, ledger, latest, scanRoot, parentId,
                      chan, current, pc, peer, dialer, cur, target, basis, todo,
                      seen, atGuard, edits, faults>>
      BY <1>2 DEF vars, disk, scan, sess, hist
    <2>2. TypeOK
      BY <1>2 DEF Inv
    <2>3. TypeOK'
      BY <2>1, <2>2 DEF TypeOK, Idle
    <2>4. Extends
      BY <2>1, <2>2, NoNews
    <2>5. \A d \in Device : Local(d)'
      BY <1>2, <2>1, <2>4, LocalStable DEF Same, SessSame
    <2> QED BY <1>2, <2>1, <2>3, <2>4, <2>5, ManifestsStable, AgreedStable DEF Inv
  <1> QED BY <1>1, <1>2

\* Inv is an invariant of the engine, with any number of devices, files and
\* versions, and whatever the bounds on edits, manifests and faults.
THEOREM Invariance == Spec => []Inv
  BY InitInv, InvStep, PTL DEF Spec

\* The variables keep their types, and a device that is not in a session
\* keeps no session state (Exchange is dropped on every path out of
\* run_v1_session).
THEOREM TypeCorrect == Spec => []TypeOK
  <1>1. Inv => TypeOK
    BY DEF Inv
  <1> QED BY <1>1, Invariance, PTL

\* Every version in a manifest that the ledger records as agreed has been on
\* both devices: the agreement of converge after a clean merge and that of
\* record_agreement are sound bases, whatever crashes and lost connections
\* come between them.
THEOREM AgreementsSound == Spec => []AgreedHad
  <1>1. Inv => AgreedHad
    BY DEF Inv
  <1> QED BY <1>1, Invariance, PTL

\* Only a user, Quarantine and WriteOne touch a live folder, and of these
\* only WriteOne works off a plan.
LEMMA OnlyWriteOne ==
    ASSUME TypeOK, [Next]_vars, NEW d \in Device, todo'[d] # todo[d], tree'[d] # tree[d]
    PROVE  \E o \in todo[d] : WriteOne(d, o)
  <1> USE DEF disk, scan, sess, hist
  <1>1. Next
    BY DEF vars
  <1>2. PICK x \in Device :
          \/ UserStep(x)
          \/ Start(x) \/ Scan(x) \/ HandleScanUpdate(x)
          \/ Dial(x) \/ SessionStep(x)
          \/ Crash(x) \/ Disconnect(x)
    BY <1>1 DEF Next
  <1>3. ~UserStep(x)
    BY DEF UserStep, Edit, Discard
  <1>4. ~(Start(x) \/ Scan(x) \/ HandleScanUpdate(x) \/ Dial(x) \/ Crash(x) \/ Disconnect(x))
    BY DEF Start, LatestAgreed, Scan, HandleScanUpdate, Dial, Connect, Crash, Disconnect
  <1>5. ~(BeginStale(x) \/ BeginScan(x) \/ OfferRound(x) \/ PullEqualRoots(x)
            \/ PullEmptyPeer(x) \/ PullContent(x) \/ Quarantine(x) \/ Guard(x))
    BY DEF BeginStale, BeginScan, OfferRound, PullEqualRoots, PullEmptyPeer,
           PullContent, Quarantine, Guard
  <1>6. ~(Diverged(x) \/ WriteFails(x) \/ PullDone(x) \/ CloseStage(x) \/ FinalRound(x)
            \/ Agree(x) \/ Disagree(x) \/ ByeQuiet(x) \/ ByeScan(x) \/ Abandoned(x))
    BY DEF Diverged, WriteFails, PullDone, CloseStage, FinalRound, Agree, Disagree,
           ByeQuiet, ByeScan, Abandoned
  <1>7. \E o \in todo[x] : WriteOne(x, o)
    BY <1>2, <1>3, <1>4, <1>5, <1>6 DEF SessionStep
  <1>8. x = d
    BY <1>7 DEF WriteOne, TypeOK
  <1> QED BY <1>7, <1>8

\* Conflict copies never conflict.
LEMMA CopiesNeverConflict ==
    ASSUME Inv, NEW d \in Device, pc[d] = "write", NEW n \in Name,
           Dec(d, n) = "conflict_remote", Loc(d, n) # NoEntry
    PROVE  n \in Path
  <1> SUFFICES ASSUME n \in Path \X File
               PROVE  FALSE
    BY DEF Name
  <1>1. cur[d] \in Id /\ target[d] \in Id
    BY Ids DEF Local, Refs, Id
  <1>2. /\ CopyNames(mans[cur[d]].root) /\ CopyNames(mans[target[d]].root)
        /\ RootOf(cur[d]) = mans[cur[d]].root /\ RootOf(target[d]) = mans[target[d]].root
    BY <1>1, Ids DEF Inv, ManifestsHad, RootOf, Id
  <1>3. Loc(d, n) \in {n[2], NoEntry} /\ Rem(d, n) \in {n[2], NoEntry}
    BY <1>2 DEF CopyNames, Loc, Rem
  <1>4. Loc(d, n) # Rem(d, n) /\ Rem(d, n) # NoEntry
    BY Decisions DEF Dec
  <1> QED BY <1>3, <1>4

\* The step behind GuardedNotLost.
LEMMA WriteKeepsGuarded ==
    ASSUME Inv, [Next]_vars, NEW d \in Device, NEW n \in Name, Replaced(d, n),
           atGuard[d][n] # NoEntry, SameContent(tree[d][n], atGuard[d][n])
    PROVE  Kept(d, n, tree[d][n])
  <1>1. /\ TypeOK /\ Knows(d) /\ Quarantined(d) /\ Writing(d) /\ peer[d] \in Device
        /\ tree[d] \in Root
    BY Ids DEF Local, TypeOK
  <1>2. /\ pc[d] = "write" /\ todo'[d] # todo[d] /\ tree[d][n] # NoEntry
        /\ tree'[d][n] # tree[d][n]
    BY DEF Replaced
  <1>3. PICK o \in todo[d] : WriteOne(d, o)
    BY <1>1, <1>2, OnlyWriteOne
  <1>4. n = o.n /\ tree'[d][n] = (IF o.op = "touch"
                                  THEN [tree[d][n] EXCEPT !.t = Rem(d, n).t]
                                  ELSE Rem(d, n))
    <2>1. o.n \in Name
      BY <1>1 DEF TypeOK, Op
    <2> QED BY <1>1, <1>2, <1>3, <2>1 DEF WriteOne, SetTree, TypeOK, Root
  <1>5. Loc(d, n) # NoEntry /\ SameContent(atGuard[d][n], Loc(d, n))
    BY <1>1, <1>2, <1>4 DEF Writing
  <1>6. SameContent(Loc(d, n), tree[d][n])
    BY <1>5 DEF SameContent
  <1>7. CASE o.op = "touch"
    <2>1. tree[d][n] \in File
      BY <1>1, <1>2 DEF Root
    <2>2. /\ tree'[d][n].kind = tree[d][n].kind /\ tree'[d][n].c = tree[d][n].c
      BY <1>4, <1>7, <2>1 DEF File
    <2>3. tree'[d][n] \in File
      BY <1>3, <1>4, <1>7, <2>1, WriteType, <1>2, MergeType, <1>1 DEF File, Writing
    <2>4. NoEntry \notin File
      BY NoEntryAssumption DEF Entry, File
    <2> QED BY <2>2, <2>3, <2>4 DEF Kept, SameContent
  <1>8. CASE o.op # "touch" /\ Dec(d, n) = "apply_remote"
    <2>1. CASE Rem(d, n) # NoEntry /\ SameContent(Loc(d, n), Rem(d, n))
      BY <1>4, <1>6, <1>8, <2>1 DEF Kept, SameContent
    <2>2. CASE Loc(d, n) = RootOf(basis[d])[n]
      <3>1. Had(peer[d], n, Loc(d, n))
        BY <1>1, <1>5, <2>2 DEF Knows, HadAll
      <3>2. Had(peer[d], n, tree[d][n])
        BY <1>6, <3>1 DEF Had, SameContent
      <3> QED BY <3>2 DEF Kept
    <2> QED BY <1>8, <2>1, <2>2, Decisions DEF Dec
  <1>9. CASE o.op # "touch" /\ Dec(d, n) = "conflict_remote"
    <2>1. n \in Path
      BY <1>2, <1>5, <1>9, CopiesNeverConflict
    <2>2. seen[d][<<n, Loc(d, n)>>] # {}
      BY <1>1, <1>2, <1>5, <1>9, <2>1 DEF Quarantined
    <2>3. Loc(d, n) \in File
      BY <1>5, MergeType
    <2> QED BY <1>6, <2>1, <2>2, <2>3 DEF Kept
  <1>10. Dec(d, n) \in TakesRemote
    BY <1>1, <1>2, <1>4 DEF Writing
  <1> QED BY <1>7, <1>8, <1>9, <1>10 DEF TakesRemote

\* A file that was in the folder when Applier::run checked it is replaced by
\* a session only when its content is kept: in the new version, in a conflict
\* copy, or on the peer.
THEOREM GuardedSafe == Spec => GuardedNotLost
  <1>1. Inv /\ [Next]_vars =>
          [\A d \in Device : \A n \in Name :
             /\ Replaced(d, n)
             /\ atGuard[d][n] # NoEntry /\ SameContent(tree[d][n], atGuard[d][n])
             => Kept(d, n, tree[d][n])]_vars
    BY WriteKeepsGuarded
  <1> QED BY <1>1, Invariance, PTL DEF Spec, GuardedNotLost
=============================================================================

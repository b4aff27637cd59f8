-------------------------- MODULE PackStoreProofs --------------------------
(***************************************************************************)
(* Theorems about PackStore, for a store that one process opens at a time: *)
(* any blobs, threads, delivered packs, compaction threshold and bounds.   *)
(***************************************************************************)
EXTENDS PackStore, TLAPS

\* One process at a time; its threads, its ends and its restarts are free.
OneProc == \A i, j \in Proc : i = j

-----------------------------------------------------------------------------
(* The inductive invariant. *)

\* What a thread carries at each step of a call.
Calls ==
  \A t \in Thread :
    /\ pc[t] # "idle" => up[ProcOf[t]]
    /\ pc[t] = "idle" => todo[t] = {}
    /\ pc[t] = "offer" => \E b \in Blob : todo[t] = {b}
    /\ pc[t] = "seal" => todo[t] # {}
    /\ pc[t] \in Locked => num[t] \in IndexNo

\* A process that is down remembers nothing.
Down ==
  \A i \in Proc : ~up[i] =>
    staging[i] = {} /\ located[i] = {} /\ nextIndex[i] = 0

\* A pack that is named anywhere is on disk.
Exist ==
  /\ \A n \in DOMAIN index : \A p \in index[n] : packs[p] # {}
  /\ \A i \in Proc : \A p \in located[i] : packs[p] # {}
  /\ \A t \in Thread : pc[t] \in Recording \cup {"rewrite"} =>
       \A p \in batch[t] : packs[p] # {}
  /\ \A p \in PeerPack : packs[p] \in {{}, PeerBlobs[p]}

\* The location table is ahead of the index files.
Known ==
  /\ \A t \in Thread : pc[t] \in {"append", "write", "rewrite"} =>
       batch[t] \subseteq located[ProcOf[t]]
  /\ \A i \in Proc : up[i] => \A n \in DOMAIN index : index[n] \subseteq located[i]

Named(p) == \E n \in DOMAIN index : p \in index[n]

\* And not further ahead than the calls in progress explain.
Covered ==
  \A i \in Proc : \A p \in located[i] :
    \/ Named(p)
    \/ p \in unindexed[i]
    \/ \E t \in Thread : ProcOf[t] = i /\ pc[t] \in {"append", "write"} /\ p \in batch[t]

\* The numbers handed out are above those in use.
Numbers ==
  /\ \A i \in Proc : nextIndex[i] # 0 => \A m \in DOMAIN index : m < nextIndex[i]
  /\ \A t \in Thread : pc[t] \in {"write", "rewrite"} =>
       /\ num[t] < nextIndex[ProcOf[t]]
       /\ \A m \in DOMAIN index : m < num[t]

\* The file of a compaction holds all that the files it replaces hold.
Compacting ==
  \A t \in Thread :
    /\ pc[t] = "rewrite" => \A n \in DOMAIN index : index[n] \subseteq batch[t]
    /\ pc[t] = "delete" =>
         /\ num[t] \in DOMAIN index
         /\ \A n \in DOMAIN index : index[n] \subseteq index[num[t]]

InDurable(b) == \E n \in DOMAIN index : \E p \in index[n] : b \in packs[p]

InCall(t, b) == b \in Sealing(t) \/ \E p \in Pending(t) : b \in packs[p]

\* What a flush was asked to seal, it or another call is still sealing, or it
\* is durable, or an index file could not be written.
Asked ==
  \A t \in Thread : \A b \in asked[t] :
    \/ InDurable(b)
    \/ \E u \in Thread : ProcOf[u] = ProcOf[t] /\ InCall(u, b)
    \/ \E p \in unindexed[ProcOf[t]] : b \in packs[p]

Inv ==
  /\ TypeOK
  /\ Calls /\ Down /\ Exist /\ Known /\ Covered /\ Numbers /\ Compacting /\ Asked

-----------------------------------------------------------------------------
(* Initially. *)

\* A store just created, opened by nobody, satisfies the invariant.
LEMMA InitInv == Init => Inv
<1> SUFFICES ASSUME Init PROVE Inv
  OBVIOUS
<1> USE DEF Init
<1>1. TypeOK
  BY BoundAssumption, ProcAssumption DEF TypeOK, PC, Locked, Recording, IndexNo
<1>2. Calls /\ Down
  BY ProcAssumption DEF Calls, Down, Locked
<1>3. Exist /\ Known
  BY DEF Exist, Known, Recording, PackId
<1>4. Covered /\ Asked
  BY DEF Covered, Asked
<1>5. Numbers /\ Compacting
  BY DEF Numbers, Compacting
<1> QED
  BY <1>1, <1>2, <1>3, <1>4, <1>5 DEF Inv

-----------------------------------------------------------------------------
(* Index files are written by one thread at a time. *)

\* index_seq: no two threads of the process are in its critical section.
LEMMA Exclusive ==
  ASSUME TypeOK, OneProc, NEW t \in Thread, NEW u \in Thread,
         pc[t] \in Locked, pc[u] \in Locked
  PROVE  t = u
BY ProcAssumption DEF TypeOK, OneProc

\* The file a thread writes is a new one: nothing that was there changes.
LEMMA WriteFacts ==
  ASSUME Inv, NEW t \in Thread, pc[t] \in {"write", "rewrite"}, WriteIndex(t)
  PROVE  /\ num[t] \in IndexNo /\ \A m \in DOMAIN index : m < num[t]
         /\ DOMAIN index' = DOMAIN index \cup {num[t]} /\ index'[num[t]] = batch[t]
         /\ \A m \in DOMAIN index : index'[m] = index[m]
<1>1. num[t] \in IndexNo /\ \A m \in DOMAIN index : m < num[t] /\ m \in IndexNo
  BY DEF Inv, TypeOK, Calls, Numbers, Locked
<1>2. num[t] \notin DOMAIN index
  BY <1>1, BoundAssumption DEF IndexNo
<1> QED
  BY <1>1, <1>2 DEF WriteIndex

\* A pack whose index file could not be written is remembered as such.
LEMMA Unrecorded ==
  ASSUME Inv, NEW t \in Thread, NEW p \in batch[t], pc[t] \in {"append", "write"}, Fail(t)
  PROVE  Named(p) \/ p \in unindexed'[ProcOf[t]]
<1>1. p \in Indexed <=> Named(p)
  BY DEF Indexed, Named
<1>2. unindexed'[ProcOf[t]] = unindexed[ProcOf[t]] \cup (batch[t] \ Indexed)
  BY ProcAssumption DEF Fail, Inv, TypeOK
<1> QED
  BY <1>1, <1>2

-----------------------------------------------------------------------------
(* Each step of a thread keeps the invariant. *)

\* put_blob, up to the first unlock.
LEMMA PutCheckKeeps ==
  ASSUME Inv, OneProc, NEW t \in Thread, NEW b \in Blob, PutCheck(t, b)
  PROVE  Inv'
<1>1. TypeOK'
  BY ProcAssumption, BoundAssumption DEF PutCheck, Ready, Inv, TypeOK, disk, mem, call, history, faults, Recording, Locked, Pending, Sealing, PC, PackId, OwnPack, IndexNo, Blob, Calls
<1>2. Calls'
  BY ProcAssumption, BoundAssumption DEF PutCheck, Ready, Inv, TypeOK, Calls, disk, mem, call, history, faults, Recording, Locked, Pending, Sealing, IndexNo
<1>3. Down'
  BY ProcAssumption DEF PutCheck, Ready, Inv, TypeOK, Down, disk, mem, call, history, faults, Recording, Locked, Pending, Sealing, Calls
<1>4. Exist'
  BY ProcAssumption DEF PutCheck, Ready, Inv, TypeOK, Exist, disk, mem, call, history, faults, Recording, Locked, Pending, Sealing, PackId
<1>5. Known'
  BY ProcAssumption DEF PutCheck, Ready, Inv, TypeOK, Known, disk, mem, call, history, faults, Recording, Locked, Pending, Sealing, Calls
<1>6. Covered'
  BY ProcAssumption DEF PutCheck, Ready, Inv, TypeOK, Covered, disk, mem, call, history, faults, Recording, Locked, Pending, Sealing, Named
<1>7. Numbers'
  BY ProcAssumption, BoundAssumption DEF PutCheck, Ready, Inv, TypeOK, Numbers, disk, mem, call, history, faults, Recording, Locked, Pending, Sealing, IndexNo
<1>8. Compacting'
  BY ProcAssumption DEF PutCheck, Ready, Inv, TypeOK, Compacting, disk, mem, call, history, faults, Recording, Locked, Pending, Sealing, OneProc
<1>9. Asked'
  BY ProcAssumption DEF PutCheck, Ready, Inv, TypeOK, Calls, Asked, InDurable, InCall,
     Pending, Sealing, Recording, disk, mem, history
<1> QED
  BY <1>1, <1>2, <1>3, <1>4, <1>5, <1>6, <1>7, <1>8, <1>9 DEF Inv

\* put_blob, from the second lock on.
LEMMA PutOfferKeeps ==
  ASSUME Inv, OneProc, NEW t \in Thread, PutOffer(t)
  PROVE  Inv'
<1>1. TypeOK'
  <2>1. staging' \in [Proc -> SUBSET Blob] /\ todo' \in [Thread -> SUBSET Blob]
    <3>1. CASE Room(t)
      BY <3>1, ProcAssumption DEF Room, Inv, TypeOK
    <3>2. CASE Overflow(t)
      <4>1. PICK b \in todo[t] :
              /\ staging' = [staging EXCEPT ![ProcOf[t]] = (@ \ OpenPack(t, b)) \cup {b}]
              /\ todo' = [todo EXCEPT ![t] = OpenPack(t, b)]
        BY <3>2 DEF Overflow
      <4>2. b \in Blob /\ OpenPack(t, b) \subseteq Blob
        BY ProcAssumption DEF OpenPack, Inv, TypeOK
      <4> QED
        BY <4>1, <4>2, ProcAssumption DEF Inv, TypeOK
    <3> QED
      BY <3>1, <3>2 DEF PutOffer
  <2>2. pc' \in [Thread -> PC]
    BY DEF PutOffer, Room, Overflow, Inv, TypeOK, PC
  <2>3. \A u \in Thread : pc'[u] \in Locked <=> pc[u] \in Locked
    BY DEF PutOffer, Room, Overflow, Inv, TypeOK, Locked
  <2> QED
    BY <2>1, <2>2, <2>3 DEF PutOffer, Inv, TypeOK, disk, history, faults
<1>2. Calls'
  BY ProcAssumption, BoundAssumption DEF PutOffer, Room, Overflow, OpenPack, Inv, TypeOK, Calls, disk, mem, call, history, faults, Recording, Locked, Pending, Sealing, IndexNo
<1>3. Down'
  BY ProcAssumption DEF PutOffer, Room, Overflow, OpenPack, Inv, TypeOK, Down, disk, mem, call, history, faults, Recording, Locked, Pending, Sealing, Calls
<1>4. Exist'
  BY ProcAssumption DEF PutOffer, Room, Overflow, OpenPack, Inv, TypeOK, Exist, disk, mem, call, history, faults, Recording, Locked, Pending, Sealing, PackId
<1>5. Known'
  BY ProcAssumption DEF PutOffer, Room, Overflow, OpenPack, Inv, TypeOK, Known, disk, mem, call, history, faults, Recording, Locked, Pending, Sealing, Calls
<1>6. Covered'
  BY ProcAssumption DEF PutOffer, Room, Overflow, OpenPack, Inv, TypeOK, Covered, disk, mem, call, history, faults, Recording, Locked, Pending, Sealing, Named
<1>7. Numbers'
  BY ProcAssumption, BoundAssumption DEF PutOffer, Room, Overflow, OpenPack, Inv, TypeOK, Numbers, disk, mem, call, history, faults, Recording, Locked, Pending, Sealing, IndexNo
<1>8. Compacting'
  BY ProcAssumption DEF PutOffer, Room, Overflow, OpenPack, Inv, TypeOK, Compacting, disk, mem, call, history, faults, Recording, Locked, Pending, Sealing, OneProc
<1>9. Asked'
  <2>1. packs' = packs /\ index' = index /\ asked' = asked /\ unindexed' = unindexed
    BY DEF PutOffer, disk, history
  <2>2. ASSUME NEW u \in Thread
        PROVE  Sealing(u) \subseteq Sealing(u)' /\ Pending(u)' = Pending(u)
    <3>1. pc[t] = "offer" /\ batch' = batch
      BY DEF PutOffer, Room, Overflow
    <3>2. CASE u = t
      BY <3>1, <3>2 DEF PutOffer, Room, Overflow, Inv, TypeOK, Sealing, Pending, Recording
    <3>3. CASE u # t
      <4>1. pc'[u] = pc[u] /\ todo'[u] = todo[u]
        BY <3>3 DEF PutOffer, Room, Overflow, Inv, TypeOK
      <4> QED
        BY <3>1, <4>1 DEF Sealing, Pending
    <3> QED
      BY <3>2, <3>3
  <2>3. \A u \in Thread : \A b : InCall(u, b) => InCall(u, b)'
    BY <2>1, <2>2 DEF InCall
  <2>4. \A b : InDurable(b) => InDurable(b)'
    BY <2>1 DEF InDurable
  <2> QED
    BY <2>1, <2>3, <2>4 DEF Inv, Asked
<1> QED
  BY <1>1, <1>2, <1>3, <1>4, <1>5, <1>6, <1>7, <1>8, <1>9 DEF Inv

\* flush: what was staged is now carried by the calling thread.
LEMMA FlushDrainKeeps ==
  ASSUME Inv, OneProc, NEW t \in Thread, FlushDrain(t)
  PROVE  Inv'
<1>1. TypeOK'
  <2>1. Held(ProcOf[t]) \subseteq Blob
    BY ProcAssumption DEF Inv, TypeOK, Held, InFlight, Own, BlobsIn, Sealing, Pending
  <2>2. pc' \in [Thread -> PC] /\ \A u \in Thread : pc'[u] \in Locked <=> pc[u] \in Locked
    BY DEF FlushDrain, Ready, Inv, TypeOK, PC, Locked
  <2>3. /\ staging' \in [Proc -> SUBSET Blob] /\ todo' \in [Thread -> SUBSET Blob]
        /\ asked' \in [Thread -> SUBSET Blob]
    BY <2>1, ProcAssumption DEF FlushDrain, Drained, Inv, TypeOK
  <2> QED
    BY <2>2, <2>3 DEF FlushDrain, Inv, TypeOK, disk, faults
<1>2. Calls'
  <2>1. up' = up /\ num' = num /\ up[ProcOf[t]]
    BY DEF FlushDrain, Ready
  <2>2. /\ pc'[t] \in {"idle", "seal"} /\ todo'[t] = staging[ProcOf[t]]
        /\ pc'[t] = "idle" <=> staging[ProcOf[t]] = {}
    BY DEF FlushDrain, Drained, Inv, TypeOK
  <2>3. \A u \in Thread \ {t} : pc'[u] = pc[u] /\ todo'[u] = todo[u]
    BY DEF FlushDrain, Inv, TypeOK
  <2> QED
    BY <2>1, <2>2, <2>3 DEF Inv, Calls, Locked
<1>3. Down'
  BY ProcAssumption DEF FlushDrain, Ready, Drained, Held, InFlight, Own, BlobsIn, Inv, TypeOK, Down, disk, mem, call, history, faults, Recording, Locked, Pending, Sealing, Calls
<1>4. Exist'
  BY ProcAssumption DEF FlushDrain, Ready, Drained, Held, InFlight, Own, BlobsIn, Inv, TypeOK, Exist, disk, mem, call, history, faults, Recording, Locked, Pending, Sealing, PackId
<1>5. Known'
  BY ProcAssumption DEF FlushDrain, Ready, Drained, Held, InFlight, Own, BlobsIn, Inv, TypeOK, Known, disk, mem, call, history, faults, Recording, Locked, Pending, Sealing, Calls
<1>6. Covered'
  BY ProcAssumption DEF FlushDrain, Ready, Drained, Held, InFlight, Own, BlobsIn, Inv, TypeOK, Covered, disk, mem, call, history, faults, Recording, Locked, Pending, Sealing, Named
<1>7. Numbers'
  BY ProcAssumption, BoundAssumption DEF FlushDrain, Ready, Drained, Held, InFlight, Own, BlobsIn, Inv, TypeOK, Numbers, disk, mem, call, history, faults, Recording, Locked, Pending, Sealing, IndexNo
<1>8. Compacting'
  BY ProcAssumption DEF FlushDrain, Ready, Drained, Held, InFlight, Own, BlobsIn, Inv, TypeOK, Compacting, disk, mem, call, history, faults, Recording, Locked, Pending, Sealing, OneProc
<1>9. Asked'
  <2> SUFFICES ASSUME NEW u \in Thread, NEW b \in asked'[u]
               PROVE  \/ InDurable(b)'
                      \/ \E v \in Thread : ProcOf[v] = ProcOf[u] /\ InCall(v, b)'
                      \/ \E p \in unindexed'[ProcOf[u]] : b \in packs'[p]
    BY DEF Asked
  <2>1. InDurable(b) => InDurable(b)'
    BY DEF FlushDrain, disk, InDurable
  <2>2. ASSUME NEW v \in Thread, InCall(v, b) PROVE InCall(v, b)'
    BY <2>2 DEF FlushDrain, Ready, Drained, Inv, TypeOK, Calls, InCall, Sealing, Pending,
       Recording, disk
  <2>3. CASE b \in asked[u]
    BY <2>1, <2>2, <2>3 DEF FlushDrain, Inv, Asked, disk
  <2>4. CASE u = t /\ b \in Held(ProcOf[t])
    <3>1. CASE b \in staging[ProcOf[t]]
      BY <3>1, <2>4 DEF FlushDrain, Ready, Drained, Inv, TypeOK, InCall, Sealing
    <3>2. CASE b \in InFlight(ProcOf[t])
      BY <3>2, <2>4, <2>2 DEF InFlight, Own, BlobsIn, InCall
    <3>3. CASE b \in BlobsIn(located[ProcOf[t]])
      <4> PICK p \in located[ProcOf[t]] : b \in packs[p]
        BY <3>3 DEF BlobsIn
      <4>1. CASE Named(p)
        BY <4>1, <2>1 DEF Named, InDurable
      <4>2. CASE p \in unindexed[ProcOf[t]]
        BY <4>2, <2>4 DEF FlushDrain, disk
      <4>3. CASE \E v \in Thread : /\ ProcOf[v] = ProcOf[t] /\ p \in batch[v]
                                   /\ pc[v] \in {"append", "write"}
        BY <4>3, <2>2, <2>4 DEF InCall, Pending, Recording
      <4> QED
        BY <4>1, <4>2, <4>3, ProcAssumption DEF Inv, Covered
    <3> QED
      BY <2>4, <3>1, <3>2, <3>3 DEF Held
  <2> QED
    BY <2>3, <2>4 DEF FlushDrain, Inv, TypeOK
<1> QED
  BY <1>1, <1>2, <1>3, <1>4, <1>5, <1>6, <1>7, <1>8, <1>9 DEF Inv

\* seal_to_disk: the blobs of a drained pack move to a new pack file.
LEMMA SealWriteKeeps ==
  ASSUME Inv, OneProc, NEW t \in Thread, SealWrite(t)
  PROVE  Inv'
<1>1. TypeOK'
  BY ProcAssumption, BoundAssumption DEF SealWrite, FreshPack, NextPack, OwnPack, Blob, Inv, TypeOK, disk, mem, call, history, faults, Recording, Locked, Pending, Sealing, PC, PackId, OwnPack, IndexNo, Blob, Calls
<1>2. Calls'
  BY ProcAssumption, BoundAssumption DEF SealWrite, FreshPack, NextPack, OwnPack, Blob, Inv, TypeOK, Calls, disk, mem, call, history, faults, Recording, Locked, Pending, Sealing, IndexNo
<1>3. Down'
  BY ProcAssumption DEF SealWrite, FreshPack, NextPack, OwnPack, Blob, Inv, TypeOK, Down, disk, mem, call, history, faults, Recording, Locked, Pending, Sealing, Calls
<1>4. Exist'
  <2>1. NextPack(t) # {} /\ NextPack(t) \subseteq Blob
    BY DEF SealWrite, Inv, TypeOK, Calls, NextPack, Blob
  <2>2. PICK p \in OwnPack : /\ packs' = [packs EXCEPT ![p] = NextPack(t)]
                             /\ batch' = [batch EXCEPT ![t] = {p}]
    BY DEF SealWrite
  <2>3. \A q \in PackId : packs[q] # {} => packs'[q] # {}
    BY <2>1, <2>2 DEF Inv, TypeOK, PackId
  <2>4. \A q \in PeerPack : packs'[q] = packs[q]
    BY <2>2, PackAssumption DEF Inv, TypeOK, PackId
  <2>5. packs'[p] # {}
    BY <2>1, <2>2 DEF Inv, TypeOK, PackId
  <2>6. /\ \A n \in DOMAIN index' : \A q \in index'[n] : packs'[q] # {}
        /\ \A i \in Proc : \A q \in located'[i] : packs'[q] # {}
    BY <2>3 DEF SealWrite, Inv, TypeOK, Exist, mem
  <2>7. ASSUME NEW u \in Thread, pc'[u] \in Recording \cup {"rewrite"}, NEW q \in batch'[u]
        PROVE  packs'[q] # {}
    <3>1. CASE u = t
      BY <3>1, <2>7, <2>2, <2>5 DEF SealWrite, Inv, TypeOK
    <3>2. CASE u # t
      BY <3>2, <2>7, <2>2, <2>3 DEF SealWrite, Inv, TypeOK, Exist
    <3> QED
      BY <3>1, <3>2
  <2> QED
    BY <2>4, <2>6, <2>7 DEF Inv, Exist
<1>5. Known'
  BY ProcAssumption DEF SealWrite, FreshPack, NextPack, OwnPack, Blob, Inv, TypeOK, Known, disk, mem, call, history, faults, Recording, Locked, Pending, Sealing, Calls
<1>6. Covered'
  BY ProcAssumption DEF SealWrite, FreshPack, NextPack, OwnPack, Blob, Inv, TypeOK, Covered, disk, mem, call, history, faults, Recording, Locked, Pending, Sealing, Named
<1>7. Numbers'
  BY ProcAssumption, BoundAssumption DEF SealWrite, FreshPack, NextPack, OwnPack, Blob, Inv, TypeOK, Numbers, disk, mem, call, history, faults, Recording, Locked, Pending, Sealing, IndexNo
<1>8. Compacting'
  BY ProcAssumption DEF SealWrite, FreshPack, NextPack, OwnPack, Blob, Inv, TypeOK, Compacting, disk, mem, call, history, faults, Recording, Locked, Pending, Sealing, OneProc
<1>9. Asked'
  <2>1. PICK p \in OwnPack : /\ packs[p] = {}
                             /\ packs' = [packs EXCEPT ![p] = NextPack(t)]
                             /\ batch' = [batch EXCEPT ![t] = {p}]
    BY DEF SealWrite, FreshPack
  <2>2. \A q \in PackId : packs[q] \subseteq packs'[q]
    BY <2>1 DEF Inv, TypeOK, PackId
  <2>3. packs'[p] = NextPack(t) /\ p \in PackId
    BY <2>1 DEF Inv, TypeOK, PackId
  <2>4. ASSUME NEW u \in Thread, NEW b, InCall(u, b) PROVE InCall(u, b)'
    <3>1. CASE u = t
      BY <3>1, <2>1, <2>3, <2>4 DEF SealWrite, Inv, TypeOK, InCall, Sealing, Pending, Recording
    <3>2. CASE u # t
      BY <3>2, <2>1, <2>2, <2>4 DEF SealWrite, Inv, TypeOK, InCall, Sealing, Pending
    <3> QED
      BY <3>1, <3>2
  <2>5. \A b : InDurable(b) => InDurable(b)'
    BY <2>2 DEF SealWrite, Inv, TypeOK, InDurable
  <2> QED
    BY <2>2, <2>4, <2>5, ProcAssumption DEF SealWrite, Inv, TypeOK, Asked, history
<1> QED
  BY <1>1, <1>2, <1>3, <1>4, <1>5, <1>6, <1>7, <1>8, <1>9 DEF Inv

\* adopt_pack: a delivered pack is written, or is there with the same blobs.
LEMMA AdoptPackKeeps ==
  ASSUME Inv, OneProc, NEW t \in Thread, NEW p \in PeerPack, AdoptPack(t, p)
  PROVE  Inv'
<1>1. TypeOK'
  <2>1. packs' \in [PackId -> SUBSET Blob] /\ batch' \in [Thread -> SUBSET PackId]
    BY PeerAssumption DEF AdoptPack, Inv, TypeOK, PackId
  <2>2. pc' \in [Thread -> PC] /\ \A u \in Thread : pc'[u] \in Locked <=> pc[u] \in Locked
    BY DEF AdoptPack, Ready, Inv, TypeOK, PC, Recording, Locked
  <2> QED
    BY <2>1, <2>2 DEF AdoptPack, Inv, TypeOK, mem, history, faults
<1>2. Calls'
  BY ProcAssumption, BoundAssumption DEF AdoptPack, Ready, Inv, TypeOK, Calls, disk, mem, call, history, faults, Recording, Locked, Pending, Sealing, IndexNo
<1>3. Down'
  BY ProcAssumption DEF AdoptPack, Ready, Inv, TypeOK, Down, disk, mem, call, history, faults, Recording, Locked, Pending, Sealing, Calls
<1>4. Exist'
  <2>1. PeerBlobs[p] # {}
    BY PeerAssumption
  <2>2. \A q \in PackId : packs[q] # {} => packs'[q] # {}
    BY <2>1 DEF AdoptPack, Inv, TypeOK, PackId
  <2>3. packs'[p] = PeerBlobs[p] /\ \A q \in PeerPack : q # p => packs'[q] = packs[q]
    BY DEF AdoptPack, Inv, TypeOK, PackId
  <2> QED
    BY <2>1, <2>2, <2>3 DEF AdoptPack, Inv, TypeOK, Exist, Recording, mem
<1>5. Known'
  BY ProcAssumption DEF AdoptPack, Ready, Inv, TypeOK, Known, disk, mem, call, history, faults, Recording, Locked, Pending, Sealing, Calls
<1>6. Covered'
  BY ProcAssumption DEF AdoptPack, Ready, Inv, TypeOK, Covered, disk, mem, call, history, faults, Recording, Locked, Pending, Sealing, Named
<1>7. Numbers'
  BY ProcAssumption, BoundAssumption DEF AdoptPack, Ready, Inv, TypeOK, Numbers, disk, mem, call, history, faults, Recording, Locked, Pending, Sealing, IndexNo
<1>8. Compacting'
  BY ProcAssumption DEF AdoptPack, Ready, Inv, TypeOK, Compacting, disk, mem, call, history, faults, Recording, Locked, Pending, Sealing, OneProc
<1>9. Asked'
  <2>1. \A q \in PackId : packs[q] \subseteq packs'[q]
    BY DEF AdoptPack, Inv, TypeOK, Exist, PackId
  <2>2. ASSUME NEW u \in Thread, NEW b, InCall(u, b) PROVE InCall(u, b)'
    BY <2>1, <2>2 DEF AdoptPack, Ready, Inv, TypeOK, Calls, InCall, Sealing, Pending, Recording
  <2>3. \A b : InDurable(b) => InDurable(b)'
    BY <2>1 DEF AdoptPack, Inv, TypeOK, InDurable
  <2> QED
    BY <2>1, <2>2, <2>3, ProcAssumption DEF AdoptPack, Inv, TypeOK, Asked, history
<1> QED
  BY <1>1, <1>2, <1>3, <1>4, <1>5, <1>6, <1>7, <1>8, <1>9 DEF Inv

\* The location table learns of a pack before any index file names it.
LEMMA MergeKeeps ==
  ASSUME Inv, OneProc, NEW t \in Thread, Merge(t)
  PROVE  Inv'
<1>1. TypeOK'
  BY ProcAssumption, BoundAssumption DEF Merge, Inv, TypeOK, disk, mem, call, history, faults, Recording, Locked, Pending, Sealing, PC, PackId, OwnPack, IndexNo, Blob, Calls
<1>2. Calls'
  BY ProcAssumption, BoundAssumption DEF Merge, Inv, TypeOK, Calls, disk, mem, call, history, faults, Recording, Locked, Pending, Sealing, IndexNo
<1>3. Down'
  BY ProcAssumption DEF Merge, Inv, TypeOK, Down, disk, mem, call, history, faults, Recording, Locked, Pending, Sealing, Calls
<1>4. Exist'
  BY ProcAssumption DEF Merge, Inv, TypeOK, Exist, disk, mem, call, history, faults, Recording, Locked, Pending, Sealing, PackId
<1>5. Known'
  BY ProcAssumption DEF Merge, Inv, TypeOK, Known, disk
<1>6. Covered'
  BY ProcAssumption DEF Merge, Inv, TypeOK, Covered, disk, mem, call, history, faults, Recording, Locked, Pending, Sealing, Named
<1>7. Numbers'
  BY ProcAssumption, BoundAssumption DEF Merge, Inv, TypeOK, Numbers, disk, mem, call, history, faults, Recording, Locked, Pending, Sealing, IndexNo
<1>8. Compacting'
  BY ProcAssumption DEF Merge, Inv, TypeOK, Compacting, disk, mem, call, history, faults, Recording, Locked, Pending, Sealing, OneProc
<1>9. Asked'
  BY ProcAssumption DEF Merge, Inv, TypeOK, Asked, disk, mem, call, history, faults, Recording, Locked, Pending, Sealing, InDurable, InCall
<1> QED
  BY <1>1, <1>2, <1>3, <1>4, <1>5, <1>6, <1>7, <1>8, <1>9 DEF Inv

\* write_index_snapshot: only what the table knows is written.
LEMMA SnapshotKeeps ==
  ASSUME Inv, OneProc, NEW t \in Thread, Snapshot(t)
  PROVE  Inv'
<1>1. TypeOK'
  BY ProcAssumption, BoundAssumption DEF Snapshot, Ready, Inv, TypeOK, disk, mem, call, history, faults, Recording, Locked, Pending, Sealing, PC, PackId, OwnPack, IndexNo, Blob, Calls
<1>2. Calls'
  BY ProcAssumption, BoundAssumption DEF Snapshot, Ready, Inv, TypeOK, Calls, disk, mem, call, history, faults, Recording, Locked, Pending, Sealing, IndexNo
<1>3. Down'
  BY ProcAssumption DEF Snapshot, Ready, Inv, TypeOK, Down, disk, mem, call, history, faults, Recording, Locked, Pending, Sealing, Calls
<1>4. Exist'
  <2>1. \A p \in batch'[t] : packs[p] # {}
    BY ProcAssumption DEF Snapshot, Inv, TypeOK, Exist
  <2> QED
    BY <2>1 DEF Snapshot, Inv, TypeOK, Exist, disk, mem
<1>5. Known'
  BY ProcAssumption DEF Snapshot, Ready, Inv, TypeOK, Known, disk, mem, call, history, faults, Recording, Locked, Pending, Sealing, Calls
<1>6. Covered'
  BY ProcAssumption DEF Snapshot, Ready, Inv, TypeOK, Covered, disk, mem, call, history, faults, Recording, Locked, Pending, Sealing, Named
<1>7. Numbers'
  BY ProcAssumption, BoundAssumption DEF Snapshot, Ready, Inv, TypeOK, Numbers, disk, mem, call, history, faults, Recording, Locked, Pending, Sealing, IndexNo
<1>8. Compacting'
  BY ProcAssumption DEF Snapshot, Ready, Inv, TypeOK, Compacting, disk, mem, call, history, faults, Recording, Locked, Pending, Sealing, OneProc
<1>9. Asked'
  BY ProcAssumption DEF Snapshot, Ready, Inv, TypeOK, Asked, disk, mem, call, history, faults, Recording, Locked, Pending, Sealing, InDurable, InCall
<1> QED
  BY <1>1, <1>2, <1>3, <1>4, <1>5, <1>6, <1>7, <1>8, <1>9 DEF Inv

\* append_index_file: the number taken is above every number in use.
LEMMA AppendKeeps ==
  ASSUME Inv, OneProc, NEW t \in Thread, Append(t)
  PROVE  Inv'
<1>1. TypeOK'
  <2>1. PICK n \in IndexNo : AllocIndexNumber(t, n)
    BY DEF Append
  <2>2. n \in 1 .. MaxIndex /\ n + 1 \in 0 .. MaxIndex + 1
    BY BoundAssumption DEF IndexNo
  <2>3. nextIndex' \in [Proc -> 0 .. MaxIndex + 1] /\ num' \in [Thread -> 0 .. MaxIndex]
    <3>1. n \in 0 .. MaxIndex
      BY <2>2, BoundAssumption
    <3> QED
      BY <3>1, <2>1, <2>2 DEF AllocIndexNumber, Inv, TypeOK
  <2>4. pc' \in [Thread -> PC] /\ seq' \in [Proc -> Thread \cup {None}]
    BY DEF Append, Inv, TypeOK, PC, Locked
  <2>5. ASSUME NEW u \in Thread PROVE pc'[u] \in Locked <=> seq'[ProcOf[u]] = u
    <3>1. CASE u = t
      BY <3>1, ProcAssumption DEF Append, Inv, TypeOK, Locked
    <3>2. CASE u # t
      BY <3>2, ProcAssumption DEF Append, Inv, TypeOK, Locked
    <3> QED
      BY <3>1, <3>2
  <2> QED
    BY <2>3, <2>4, <2>5 DEF Append, Inv, TypeOK, disk, history, faults
<1>2. Calls'
  BY ProcAssumption, BoundAssumption DEF Append, AllocIndexNumber, Inv, TypeOK, Calls, disk, mem, call, history, faults, Recording, Locked, Pending, Sealing, IndexNo
<1>3. Down'
  BY ProcAssumption DEF Append, AllocIndexNumber, Inv, TypeOK, Down, disk, mem, call, history, faults, Recording, Locked, Pending, Sealing, Calls
<1>4. Exist'
  BY ProcAssumption DEF Append, AllocIndexNumber, Inv, TypeOK, Exist, disk, mem, call, history, faults, Recording, Locked, Pending, Sealing, PackId
<1>5. Known'
  BY ProcAssumption DEF Append, AllocIndexNumber, Inv, TypeOK, Known, disk, mem, call, history, faults, Recording, Locked, Pending, Sealing, Calls
<1>6. Covered'
  BY ProcAssumption DEF Append, AllocIndexNumber, Inv, TypeOK, Covered, disk, mem, call, history, faults, Recording, Locked, Pending, Sealing, Named
<1>7. Numbers'
  <2>1. PICK n \in IndexNo : AllocIndexNumber(t, n)
    BY DEF Append
  <2>2. n \in 1 .. MaxIndex /\ n + 1 \in 0 .. MaxIndex + 1
    BY BoundAssumption DEF IndexNo
  <2>3. /\ nextIndex'[ProcOf[t]] = n + 1 /\ num'[t] = n
        /\ \A i \in Proc : i = ProcOf[t]
        /\ \A u \in Thread : ProcOf[u] = ProcOf[t]
    BY <2>1, ProcAssumption DEF AllocIndexNumber, Inv, TypeOK, OneProc
  <2>4. \A m \in DOMAIN index : m < n /\ m \in Nat
    <3>1. \A m \in DOMAIN index : m \in Nat
      BY BoundAssumption DEF Inv, TypeOK, IndexNo
    <3>2. \A m \in DOMAIN index : m < n
      BY <2>1, ProcAssumption DEF AllocIndexNumber, NextIndexNumber, Inv, Numbers
    <3> QED
      BY <3>1, <3>2
  <2>5. \A u \in Thread : u # t => pc'[u] \notin {"write", "rewrite"}
    BY <2>3, ProcAssumption DEF Append, Inv, TypeOK, Locked
  <2> QED
    BY <2>2, <2>3, <2>4, <2>5, ProcAssumption DEF Append, Numbers, disk
<1>8. Compacting'
  BY ProcAssumption DEF Append, AllocIndexNumber, Inv, TypeOK, Compacting, disk, mem, call, history, faults, Recording, Locked, Pending, Sealing, OneProc
<1>9. Asked'
  BY ProcAssumption DEF Append, AllocIndexNumber, Inv, TypeOK, Asked, disk, mem, call, history, faults, Recording, Locked, Pending, Sealing, InDurable, InCall
<1> QED
  BY <1>1, <1>2, <1>3, <1>4, <1>5, <1>6, <1>7, <1>8, <1>9 DEF Inv

\* append_index_file: the rename replaces no file.
LEMMA AppendWriteKeeps ==
  ASSUME Inv, OneProc, NEW t \in Thread, AppendWrite(t)
  PROVE  Inv'
<1>1. TypeOK'
  BY ProcAssumption, BoundAssumption DEF AppendWrite, WriteIndex, Inv, TypeOK, disk, mem, call, history, faults, Recording, Locked, Pending, Sealing, PC, PackId, OwnPack, IndexNo, Blob, Calls
<1>2. Calls'
  BY ProcAssumption, BoundAssumption DEF AppendWrite, WriteIndex, Inv, TypeOK, Calls, disk, mem, call, history, faults, Recording, Locked, Pending, Sealing, IndexNo
<1>3. Down'
  BY ProcAssumption DEF AppendWrite, WriteIndex, Inv, TypeOK, Down, disk, mem, call, history, faults, Recording, Locked, Pending, Sealing, Calls
<1>4. Exist'
  BY ProcAssumption DEF AppendWrite, WriteIndex, Inv, TypeOK, Exist, disk, mem, call, history, faults, Recording, Locked, Pending, Sealing, PackId
<1>5. Known'
  <2> DEFINE n == num[t]
  <2>1. /\ n \in IndexNo /\ \A m \in DOMAIN index : m < n
        /\ DOMAIN index' = DOMAIN index \cup {n} /\ index'[n] = batch[t]
        /\ \A m \in DOMAIN index : index'[m] = index[m]
    BY WriteFacts DEF AppendWrite
  <2>2. batch[t] \subseteq located[ProcOf[t]] /\ \A i \in Proc : i = ProcOf[t]
    BY ProcAssumption DEF AppendWrite, Inv, Known, OneProc
  <2> QED
    BY <2>1, <2>2 DEF AppendWrite, Inv, TypeOK, Known, mem
<1>6. Covered'
  <2> DEFINE n == num[t]
  <2>1. /\ n \in IndexNo /\ \A m \in DOMAIN index : m < n
        /\ DOMAIN index' = DOMAIN index \cup {n} /\ index'[n] = batch[t]
        /\ \A m \in DOMAIN index : index'[m] = index[m]
    BY WriteFacts DEF AppendWrite
  <2>2. \A p : Named(p) => Named(p)'
    BY <2>1 DEF Named
  <2>3. ASSUME NEW u \in Thread, pc[u] \in {"append", "write"}, NEW p \in batch[u]
        PROVE  Named(p)' \/ (pc'[u] \in {"append", "write"} /\ batch'[u] = batch[u])
    BY <2>1, <2>3 DEF AppendWrite, Inv, TypeOK, Named
  <2> QED
    BY <2>2, <2>3 DEF AppendWrite, Inv, Covered, mem, history
<1>7. Numbers'
  <2> DEFINE n == num[t]
  <2>1. /\ n \in IndexNo /\ \A m \in DOMAIN index : m < n
        /\ DOMAIN index' = DOMAIN index \cup {n} /\ index'[n] = batch[t]
        /\ \A m \in DOMAIN index : index'[m] = index[m]
    BY WriteFacts DEF AppendWrite
  <2>2. \A i \in Proc : n < nextIndex[i]
    BY ProcAssumption DEF AppendWrite, Inv, Numbers, OneProc
  <2>3. \A u \in Thread : pc'[u] \notin {"write", "rewrite"}
    BY Exclusive DEF AppendWrite, Inv, TypeOK, Locked
  <2> QED
    BY <2>1, <2>2, <2>3 DEF AppendWrite, Inv, Numbers, mem
<1>8. Compacting'
  <2> DEFINE n == num[t]
  <2>1. /\ n \in IndexNo /\ \A m \in DOMAIN index : m < n
        /\ DOMAIN index' = DOMAIN index \cup {n} /\ index'[n] = batch[t]
        /\ \A m \in DOMAIN index : index'[m] = index[m]
    BY WriteFacts DEF AppendWrite
  <2>2. \A u \in Thread : u # t => pc'[u] \notin Locked
    BY Exclusive DEF AppendWrite, Inv, TypeOK, Locked
  <2> QED
    BY <2>1, <2>2 DEF AppendWrite, Inv, TypeOK, Compacting, Locked
<1>9. Asked'
  <2> DEFINE n == num[t]
  <2>1. /\ n \in IndexNo /\ \A m \in DOMAIN index : m < n
        /\ DOMAIN index' = DOMAIN index \cup {n} /\ index'[n] = batch[t]
        /\ \A m \in DOMAIN index : index'[m] = index[m]
    BY WriteFacts DEF AppendWrite
  <2>2. \A b : InDurable(b) => InDurable(b)'
    BY <2>1 DEF AppendWrite, InDurable
  <2>3. ASSUME NEW u \in Thread, NEW b, InCall(u, b) PROVE InDurable(b)' \/ InCall(u, b)'
    BY <2>1, <2>3 DEF AppendWrite, Inv, TypeOK, InCall, InDurable, Sealing, Pending, Recording
  <2> QED
    BY <2>2, <2>3 DEF AppendWrite, Inv, Asked, history
<1> QED
  BY <1>1, <1>2, <1>3, <1>4, <1>5, <1>6, <1>7, <1>8, <1>9 DEF Inv

\* append_index_file: too few files to compact.
LEMMA NoCompactionKeeps ==
  ASSUME Inv, OneProc, NEW t \in Thread, NoCompaction(t)
  PROVE  Inv'
<1>1. TypeOK'
  <2>1. /\ batch' \in [Thread -> SUBSET PackId] /\ num' \in [Thread -> 0 .. MaxIndex]
        /\ old' \in [Thread -> SUBSET IndexNo]
    BY BoundAssumption DEF NoCompaction, Finish, Inv, TypeOK
  <2>2. pc' \in [Thread -> PC] /\ seq' \in [Proc -> Thread \cup {None}]
    BY DEF NoCompaction, Finish, Inv, TypeOK, PC
  <2>3. ASSUME NEW u \in Thread PROVE pc'[u] \in Locked <=> seq'[ProcOf[u]] = u
    BY ProcAssumption DEF NoCompaction, Finish, Inv, TypeOK, Locked
  <2> QED
    BY <2>1, <2>2, <2>3 DEF NoCompaction, Inv, TypeOK, disk, mem, history, faults
<1>2. Calls'
  BY ProcAssumption, BoundAssumption DEF NoCompaction, Finish, Inv, TypeOK, Calls, disk, mem, call, history, faults, Recording, Locked, Pending, Sealing, IndexNo
<1>3. Down'
  BY ProcAssumption DEF NoCompaction, Finish, Inv, TypeOK, Down, disk, mem, call, history, faults, Recording, Locked, Pending, Sealing, Calls
<1>4. Exist'
  BY ProcAssumption DEF NoCompaction, Finish, Inv, TypeOK, Exist, disk, mem, call, history, faults, Recording, Locked, Pending, Sealing, PackId
<1>5. Known'
  BY ProcAssumption DEF NoCompaction, Finish, Inv, TypeOK, Known, disk, mem, call, history, faults, Recording, Locked, Pending, Sealing, Calls
<1>6. Covered'
  <2>1. \A u \in Thread : pc[u] \in {"append", "write"} => pc'[u] = pc[u] /\ batch'[u] = batch[u]
    BY DEF NoCompaction, Finish, Inv, TypeOK
  <2> QED
    BY <2>1 DEF NoCompaction, Inv, Covered, Named, disk, mem, history
<1>7. Numbers'
  BY ProcAssumption, BoundAssumption DEF NoCompaction, Finish, Inv, TypeOK, Numbers, disk, mem, call, history, faults, Recording, Locked, Pending, Sealing, IndexNo
<1>8. Compacting'
  BY ProcAssumption DEF NoCompaction, Finish, Inv, TypeOK, Compacting, disk, mem, call, history, faults, Recording, Locked, Pending, Sealing, OneProc
<1>9. Asked'
  BY ProcAssumption DEF NoCompaction, Finish, Inv, TypeOK, Asked, disk, mem, call, history, faults, Recording, Locked, Pending, Sealing, InDurable, InCall
<1> QED
  BY <1>1, <1>2, <1>3, <1>4, <1>5, <1>6, <1>7, <1>8, <1>9 DEF Inv

\* Compaction: the list of old files.
LEMMA CompactListKeeps ==
  ASSUME Inv, OneProc, NEW t \in Thread, CompactList(t)
  PROVE  Inv'
<1>1. TypeOK'
  BY ProcAssumption, BoundAssumption DEF CompactList, Inv, TypeOK, disk, mem, call, history, faults, Recording, Locked, Pending, Sealing, PC, PackId, OwnPack, IndexNo, Blob, Calls
<1>2. Calls'
  BY ProcAssumption, BoundAssumption DEF CompactList, Inv, TypeOK, Calls, disk, mem, call, history, faults, Recording, Locked, Pending, Sealing, IndexNo
<1>3. Down'
  BY ProcAssumption DEF CompactList, Inv, TypeOK, Down, disk, mem, call, history, faults, Recording, Locked, Pending, Sealing, Calls
<1>4. Exist'
  BY ProcAssumption DEF CompactList, Inv, TypeOK, Exist, disk, mem, call, history, faults, Recording, Locked, Pending, Sealing, PackId
<1>5. Known'
  BY ProcAssumption DEF CompactList, Inv, TypeOK, Known, disk, mem, call, history, faults, Recording, Locked, Pending, Sealing, Calls
<1>6. Covered'
  BY ProcAssumption DEF CompactList, Inv, TypeOK, Covered, disk, mem, call, history, faults, Recording, Locked, Pending, Sealing, Named
<1>7. Numbers'
  BY ProcAssumption, BoundAssumption DEF CompactList, Inv, TypeOK, Numbers, disk, mem, call, history, faults, Recording, Locked, Pending, Sealing, IndexNo
<1>8. Compacting'
  BY ProcAssumption DEF CompactList, Inv, TypeOK, Compacting, disk, mem, call, history, faults, Recording, Locked, Pending, Sealing, OneProc
<1>9. Asked'
  BY ProcAssumption DEF CompactList, Inv, TypeOK, Asked, disk, mem, call, history, faults, Recording, Locked, Pending, Sealing, InDurable, InCall
<1> QED
  BY <1>1, <1>2, <1>3, <1>4, <1>5, <1>6, <1>7, <1>8, <1>9 DEF Inv

\* Compaction: the table holds all that the files name.
LEMMA CompactSnapshotKeeps ==
  ASSUME Inv, OneProc, NEW t \in Thread, CompactSnapshot(t)
  PROVE  Inv'
<1>1. TypeOK'
  <2>1. PICK n \in IndexNo : AllocIndexNumber(t, n)
    BY DEF CompactSnapshot
  <2>2. n \in 1 .. MaxIndex /\ n + 1 \in 0 .. MaxIndex + 1
    BY BoundAssumption DEF IndexNo
  <2>3. nextIndex' \in [Proc -> 0 .. MaxIndex + 1] /\ num' \in [Thread -> 0 .. MaxIndex]
    <3>1. n \in 0 .. MaxIndex
      BY <2>2, BoundAssumption
    <3> QED
      BY <3>1, <2>1, <2>2 DEF AllocIndexNumber, Inv, TypeOK
  <2>4. batch' \in [Thread -> SUBSET PackId]
    BY ProcAssumption DEF CompactSnapshot, Inv, TypeOK
  <2>5. pc' \in [Thread -> PC] /\ \A u \in Thread : pc'[u] \in Locked <=> pc[u] \in Locked
    BY DEF CompactSnapshot, Inv, TypeOK, PC, Locked
  <2> QED
    BY <2>3, <2>4, <2>5 DEF CompactSnapshot, Inv, TypeOK, disk, history, faults
<1>2. Calls'
  BY ProcAssumption, BoundAssumption DEF CompactSnapshot, AllocIndexNumber, Inv, TypeOK, Calls, disk, mem, call, history, faults, Recording, Locked, Pending, Sealing, IndexNo
<1>3. Down'
  BY ProcAssumption DEF CompactSnapshot, AllocIndexNumber, Inv, TypeOK, Down, disk, mem, call, history, faults, Recording, Locked, Pending, Sealing, Calls
<1>4. Exist'
  BY ProcAssumption DEF CompactSnapshot, Inv, TypeOK, Exist, Recording, disk
<1>5. Known'
  BY ProcAssumption DEF CompactSnapshot, AllocIndexNumber, Inv, TypeOK, Known, disk, mem, call, history, faults, Recording, Locked, Pending, Sealing, Calls
<1>6. Covered'
  <2>1. \A u \in Thread : pc[u] \in {"append", "write"} => pc'[u] = pc[u] /\ batch'[u] = batch[u]
    BY DEF CompactSnapshot, AllocIndexNumber, Inv, TypeOK
  <2> QED
    BY <2>1 DEF CompactSnapshot, Inv, Covered, Named, disk, mem, history
<1>7. Numbers'
  <2>1. PICK n \in IndexNo : AllocIndexNumber(t, n)
    BY DEF CompactSnapshot
  <2>2. n \in 1 .. MaxIndex /\ n + 1 \in 0 .. MaxIndex + 1
    BY BoundAssumption DEF IndexNo
  <2>3. /\ nextIndex'[ProcOf[t]] = n + 1 /\ num'[t] = n
        /\ \A i \in Proc : i = ProcOf[t]
        /\ \A u \in Thread : ProcOf[u] = ProcOf[t]
    BY <2>1, ProcAssumption DEF AllocIndexNumber, Inv, TypeOK, OneProc
  <2>4. \A m \in DOMAIN index : m < n /\ m \in Nat
    <3>1. \A m \in DOMAIN index : m \in Nat
      BY BoundAssumption DEF Inv, TypeOK, IndexNo
    <3>2. \A m \in DOMAIN index : m < n
      BY <2>1, ProcAssumption DEF AllocIndexNumber, NextIndexNumber, Inv, Numbers
    <3> QED
      BY <3>1, <3>2
  <2>5. \A u \in Thread : u # t => pc'[u] \notin {"write", "rewrite"}
    BY <2>3, ProcAssumption DEF CompactSnapshot, Inv, TypeOK, Locked
  <2> QED
    BY <2>2, <2>3, <2>4, <2>5, ProcAssumption DEF CompactSnapshot, Numbers, disk
<1>8. Compacting'
  <2>1. \A n \in DOMAIN index : index[n] \subseteq located[ProcOf[t]]
    BY ProcAssumption DEF CompactSnapshot, Inv, Calls, Known
  <2>2. \A u \in Thread : u # t => num'[u] = num[u]
    BY DEF CompactSnapshot, AllocIndexNumber, Inv, TypeOK
  <2> QED
    BY <2>1, <2>2 DEF CompactSnapshot, Inv, TypeOK, Compacting, disk
<1>9. Asked'
  BY ProcAssumption DEF CompactSnapshot, AllocIndexNumber, Inv, TypeOK, Asked, disk, mem, call, history, faults, Recording, Locked, Pending, Sealing, InDurable, InCall
<1> QED
  BY <1>1, <1>2, <1>3, <1>4, <1>5, <1>6, <1>7, <1>8, <1>9 DEF Inv

\* Compaction: the new file.
LEMMA CompactWriteKeeps ==
  ASSUME Inv, OneProc, NEW t \in Thread, CompactWrite(t)
  PROVE  Inv'
<1>1. TypeOK'
  BY ProcAssumption, BoundAssumption DEF CompactWrite, WriteIndex, Inv, TypeOK, disk, mem, call, history, faults, Recording, Locked, Pending, Sealing, PC, PackId, OwnPack, IndexNo, Blob, Calls
<1>2. Calls'
  BY ProcAssumption, BoundAssumption DEF CompactWrite, WriteIndex, Inv, TypeOK, Calls, disk, mem, call, history, faults, Recording, Locked, Pending, Sealing, IndexNo
<1>3. Down'
  BY ProcAssumption DEF CompactWrite, WriteIndex, Inv, TypeOK, Down, disk, mem, call, history, faults, Recording, Locked, Pending, Sealing, Calls
<1>4. Exist'
  BY ProcAssumption DEF CompactWrite, WriteIndex, Inv, TypeOK, Exist, disk, mem, call, history, faults, Recording, Locked, Pending, Sealing, PackId
<1>5. Known'
  <2> DEFINE n == num[t]
  <2>1. /\ n \in IndexNo /\ \A m \in DOMAIN index : m < n
        /\ DOMAIN index' = DOMAIN index \cup {n} /\ index'[n] = batch[t]
        /\ \A m \in DOMAIN index : index'[m] = index[m]
    BY WriteFacts DEF CompactWrite
  <2>2. batch[t] \subseteq located[ProcOf[t]] /\ \A i \in Proc : i = ProcOf[t]
    BY ProcAssumption DEF CompactWrite, Inv, Known, OneProc
  <2> QED
    BY <2>1, <2>2 DEF CompactWrite, Inv, TypeOK, Known, mem
<1>6. Covered'
  <2> DEFINE n == num[t]
  <2>1. /\ n \in IndexNo /\ \A m \in DOMAIN index : m < n
        /\ DOMAIN index' = DOMAIN index \cup {n} /\ index'[n] = batch[t]
        /\ \A m \in DOMAIN index : index'[m] = index[m]
    BY WriteFacts DEF CompactWrite
  <2>2. \A p : Named(p) => Named(p)'
    BY <2>1 DEF Named
  <2>3. ASSUME NEW u \in Thread, pc[u] \in {"append", "write"}, NEW p \in batch[u]
        PROVE  Named(p)' \/ (pc'[u] \in {"append", "write"} /\ batch'[u] = batch[u])
    BY <2>1, <2>3 DEF CompactWrite, Inv, TypeOK, Named
  <2> QED
    BY <2>2, <2>3 DEF CompactWrite, Inv, Covered, mem, history
<1>7. Numbers'
  <2> DEFINE n == num[t]
  <2>1. /\ n \in IndexNo /\ \A m \in DOMAIN index : m < n
        /\ DOMAIN index' = DOMAIN index \cup {n} /\ index'[n] = batch[t]
        /\ \A m \in DOMAIN index : index'[m] = index[m]
    BY WriteFacts DEF CompactWrite
  <2>2. \A i \in Proc : n < nextIndex[i]
    BY ProcAssumption DEF CompactWrite, Inv, Numbers, OneProc
  <2>3. \A u \in Thread : pc'[u] \notin {"write", "rewrite"}
    BY Exclusive DEF CompactWrite, Inv, TypeOK, Locked
  <2> QED
    BY <2>1, <2>2, <2>3 DEF CompactWrite, Inv, Numbers, mem
<1>8. Compacting'
  <2> DEFINE n == num[t]
  <2>1. /\ n \in IndexNo /\ \A m \in DOMAIN index : m < n
        /\ DOMAIN index' = DOMAIN index \cup {n} /\ index'[n] = batch[t]
        /\ \A m \in DOMAIN index : index'[m] = index[m]
    BY WriteFacts DEF CompactWrite
  <2>2. \A u \in Thread : u # t => pc'[u] \notin Locked
    BY Exclusive DEF CompactWrite, Inv, TypeOK, Locked
  <2> QED
    BY <2>1, <2>2 DEF CompactWrite, Inv, TypeOK, Compacting, Locked
<1>9. Asked'
  <2> DEFINE n == num[t]
  <2>1. /\ n \in IndexNo /\ \A m \in DOMAIN index : m < n
        /\ DOMAIN index' = DOMAIN index \cup {n} /\ index'[n] = batch[t]
        /\ \A m \in DOMAIN index : index'[m] = index[m]
    BY WriteFacts DEF CompactWrite
  <2>2. \A b : InDurable(b) => InDurable(b)'
    BY <2>1 DEF CompactWrite, InDurable
  <2>3. ASSUME NEW u \in Thread, NEW b, InCall(u, b) PROVE InDurable(b)' \/ InCall(u, b)'
    BY <2>1, <2>3 DEF CompactWrite, Inv, TypeOK, InCall, InDurable, Sealing, Pending, Recording
  <2> QED
    BY <2>2, <2>3 DEF CompactWrite, Inv, Asked, history
<1> QED
  BY <1>1, <1>2, <1>3, <1>4, <1>5, <1>6, <1>7, <1>8, <1>9 DEF Inv

\* Compaction: the new file holds all that the deleted ones held.
LEMMA CompactDeleteKeeps ==
  ASSUME Inv, OneProc, NEW t \in Thread, CompactDelete(t)
  PROVE  Inv'
<1>1. TypeOK'
  <2>0. DOMAIN index' \subseteq IndexNo /\ index' \in [DOMAIN index' -> SUBSET PackId]
    BY DEF CompactDelete, Inv, TypeOK
  <2>1. /\ batch' \in [Thread -> SUBSET PackId] /\ num' \in [Thread -> 0 .. MaxIndex]
        /\ old' \in [Thread -> SUBSET IndexNo]
    BY BoundAssumption DEF CompactDelete, Finish, Inv, TypeOK
  <2>2. pc' \in [Thread -> PC] /\ seq' \in [Proc -> Thread \cup {None}]
    BY DEF CompactDelete, Finish, Inv, TypeOK, PC
  <2>3. ASSUME NEW u \in Thread PROVE pc'[u] \in Locked <=> seq'[ProcOf[u]] = u
    BY ProcAssumption DEF CompactDelete, Finish, Inv, TypeOK, Locked
  <2> QED
    BY <2>0, <2>1, <2>2, <2>3 DEF CompactDelete, Inv, TypeOK, mem, history, faults
<1>2. Calls'
  BY ProcAssumption, BoundAssumption DEF CompactDelete, Finish, Inv, TypeOK, Calls, disk, mem, call, history, faults, Recording, Locked, Pending, Sealing, IndexNo
<1>3. Down'
  BY ProcAssumption DEF CompactDelete, Finish, Inv, TypeOK, Down, disk, mem, call, history, faults, Recording, Locked, Pending, Sealing, Calls
<1>4. Exist'
  BY ProcAssumption DEF CompactDelete, Finish, Inv, TypeOK, Exist, disk, mem, call, history, faults, Recording, Locked, Pending, Sealing, PackId
<1>5. Known'
  BY ProcAssumption DEF CompactDelete, Finish, Inv, TypeOK, Known, disk, mem, call, history, faults, Recording, Locked, Pending, Sealing, Calls
<1>6. Covered'
  <2> PICK gone \in SUBSET (old[t] \ {num[t]}) :
                index' = [m \in DOMAIN index \ gone |-> index[m]]
    BY DEF CompactDelete
  <2>1. /\ num[t] \in DOMAIN index' /\ index'[num[t]] = index[num[t]]
        /\ \A n \in DOMAIN index : index[n] \subseteq index[num[t]]
        /\ \A n \in DOMAIN index' : n \in DOMAIN index /\ index'[n] = index[n]
    BY DEF CompactDelete, Inv, Compacting
  <2>2. \A p : Named(p) => Named(p)'
    BY <2>1 DEF Named
  <2>3. \A u \in Thread : pc[u] \in {"append", "write"} => pc'[u] = pc[u] /\ batch'[u] = batch[u]
    BY DEF CompactDelete, Finish, Inv, TypeOK
  <2> QED
    BY <2>2, <2>3 DEF CompactDelete, Inv, Covered, mem, history
<1>7. Numbers'
  BY ProcAssumption, BoundAssumption DEF CompactDelete, Finish, Inv, TypeOK, Numbers, disk, mem, call, history, faults, Recording, Locked, Pending, Sealing, IndexNo
<1>8. Compacting'
  <2>1. \A u \in Thread : pc'[u] \notin Locked
    BY Exclusive DEF CompactDelete, Finish, Inv, TypeOK, Locked
  <2> QED
    BY <2>1 DEF Compacting, Locked
<1>9. Asked'
  <2> PICK gone \in SUBSET (old[t] \ {num[t]}) :
                index' = [m \in DOMAIN index \ gone |-> index[m]]
    BY DEF CompactDelete
  <2>1. /\ num[t] \in DOMAIN index' /\ index'[num[t]] = index[num[t]]
        /\ \A n \in DOMAIN index : index[n] \subseteq index[num[t]]
        /\ \A n \in DOMAIN index' : n \in DOMAIN index /\ index'[n] = index[n]
    BY DEF CompactDelete, Inv, Compacting
  <2>2. \A b : InDurable(b) => InDurable(b)'
    BY <2>1 DEF CompactDelete, InDurable
  <2>3. \A u \in Thread, b \in Blob : InCall(u, b) => InCall(u, b)'
    BY DEF CompactDelete, Finish, Inv, TypeOK, InCall, Sealing, Pending, Recording
  <2> QED
    BY <2>2, <2>3 DEF CompactDelete, Inv, TypeOK, Asked, history
<1> QED
  BY <1>1, <1>2, <1>3, <1>4, <1>5, <1>6, <1>7, <1>8, <1>9 DEF Inv

\* An error drops what the call carried, and nothing that was recorded.
LEMMA FailKeeps ==
  ASSUME Inv, OneProc, NEW t \in Thread, Fail(t)
  PROVE  Inv'
<1>1. TypeOK'
  <2>1. /\ batch' \in [Thread -> SUBSET PackId] /\ num' \in [Thread -> 0 .. MaxIndex]
        /\ old' \in [Thread -> SUBSET IndexNo] /\ todo' \in [Thread -> SUBSET Blob]
    BY BoundAssumption DEF Fail, Inv, TypeOK
  <2>2. asked' \in [Thread -> SUBSET Blob] /\ unindexed' \in [Proc -> SUBSET PackId]
    BY ProcAssumption DEF Fail, Inv, TypeOK
  <2>3. pc' \in [Thread -> PC] /\ seq' \in [Proc -> Thread \cup {None}] /\ fails' \in 0 .. MaxFails
    <3>1. fails' \in 0 .. MaxFails
      BY BoundAssumption DEF Fail, Inv, TypeOK
    <3>2. pc' \in [Thread -> PC]
      BY DEF Fail, Inv, TypeOK, PC
    <3>3. seq' \in [Proc -> Thread \cup {None}]
      BY DEF Fail, Inv, TypeOK
    <3> QED
      BY <3>1, <3>2, <3>3
  <2>4. ASSUME NEW u \in Thread PROVE pc'[u] \in Locked <=> seq'[ProcOf[u]] = u
    BY ProcAssumption DEF Fail, Inv, TypeOK, Locked
  <2> QED
    BY <2>1, <2>2, <2>3, <2>4 DEF Fail, Inv, TypeOK, disk, mem
<1>2. Calls'
  BY ProcAssumption, BoundAssumption DEF Fail, IoSteps, Dropped, BlobsIn, Indexed, Inv, TypeOK, Calls, disk, mem, call, history, faults, Recording, Locked, Pending, Sealing, IndexNo
<1>3. Down'
  BY ProcAssumption DEF Fail, IoSteps, Dropped, BlobsIn, Indexed, Inv, TypeOK, Down, disk, mem, call, history, faults, Recording, Locked, Pending, Sealing, Calls
<1>4. Exist'
  BY ProcAssumption DEF Fail, IoSteps, Dropped, BlobsIn, Indexed, Inv, TypeOK, Exist, disk, mem, call, history, faults, Recording, Locked, Pending, Sealing, PackId
<1>5. Known'
  BY ProcAssumption DEF Fail, IoSteps, Dropped, BlobsIn, Indexed, Inv, TypeOK, Known, disk, mem, call, history, faults, Recording, Locked, Pending, Sealing, Calls
<1>6. Covered'
  <2>1. ASSUME NEW p, Named(p) PROVE Named(p)'
    BY <2>1 DEF Fail, Named, disk
  <2>2. \A i \in Proc : unindexed[i] \subseteq unindexed'[i]
    BY ProcAssumption DEF Fail, Inv, TypeOK
  <2>3. ASSUME NEW p \in batch[t], pc[t] \in {"append", "write"}
        PROVE  Named(p) \/ p \in unindexed'[ProcOf[t]]
    BY <2>3, Unrecorded DEF Fail
  <2>4. \A u \in Thread : u # t => pc'[u] = pc[u] /\ batch'[u] = batch[u]
    BY DEF Fail, Inv, TypeOK
  <2> QED
    BY <2>1, <2>2, <2>3, <2>4 DEF Fail, Inv, Covered, mem
<1>7. Numbers'
  BY ProcAssumption, BoundAssumption DEF Fail, IoSteps, Dropped, BlobsIn, Indexed, Inv, TypeOK, Numbers, disk, mem, call, history, faults, Recording, Locked, Pending, Sealing, IndexNo
<1>8. Compacting'
  BY ProcAssumption DEF Fail, IoSteps, Dropped, BlobsIn, Indexed, Inv, TypeOK, Compacting, disk, mem, call, history, faults, Recording, Locked, Pending, Sealing, OneProc
<1>9. Asked'
  <2> SUFFICES ASSUME NEW u \in Thread, NEW b \in asked'[u]
               PROVE  \/ InDurable(b)'
                      \/ \E v \in Thread : ProcOf[v] = ProcOf[u] /\ InCall(v, b)'
                      \/ \E p \in unindexed'[ProcOf[u]] : b \in packs'[p]
    BY DEF Asked
  <2>1. b \in asked[u] /\ b \notin Dropped(t)
    BY DEF Fail, Inv, TypeOK
  <2>2. InDurable(b) => InDurable(b)'
    BY DEF Fail, InDurable, disk
  <2>3. ASSUME NEW v \in Thread, v # t, InCall(v, b) PROVE InCall(v, b)'
    BY <2>3 DEF Fail, Inv, TypeOK, InCall, Sealing, Pending, disk
  <2>4. CASE ProcOf[t] = ProcOf[u] /\ InCall(t, b)
    <3>1. PICK p \in batch[t] : pc[t] \in {"append", "write"} /\ b \in packs[p]
      BY <2>1, <2>4 DEF InCall, Dropped, BlobsIn, Sealing, Pending, Recording
    <3>2. Named(p) \/ p \in unindexed'[ProcOf[t]]
      BY <3>1, Unrecorded
    <3> QED
      BY <2>2, <2>4, <3>1, <3>2 DEF Fail, Named, InDurable, disk
  <2>5. unindexed[ProcOf[u]] \subseteq unindexed'[ProcOf[u]] /\ packs' = packs
    BY ProcAssumption DEF Fail, Inv, TypeOK, disk
  <2> QED
    BY <2>1, <2>2, <2>3, <2>4, <2>5 DEF Inv, Asked
<1> QED
  BY <1>1, <1>2, <1>3, <1>4, <1>5, <1>6, <1>7, <1>8, <1>9 DEF Inv

-----------------------------------------------------------------------------
(* The steps of the process. *)

\* Store::open reads back what the index files name, and no more.
LEMMA OpenKeeps ==
  ASSUME Inv, OneProc, NEW i \in Proc, Open(i)
  PROVE  Inv'
<1>1. Indexed \subseteq PackId /\ \A p : p \in Indexed <=> Named(p)
  BY DEF Inv, TypeOK, Indexed, Named
<1>2. TypeOK'
  BY <1>1 DEF Open, Inv, TypeOK, disk, call, history, faults
<1>3. Calls' /\ Down'
  BY ProcAssumption DEF Open, Inv, TypeOK, Calls, Down, call
<1>4. Exist'
  BY <1>1 DEF Open, Inv, TypeOK, Exist, Named, disk, call
<1>5. Known'
  <2>1. \A t \in Thread : pc'[t] = "idle"
    BY ProcAssumption DEF Open, Inv, Calls, call, OneProc
  <2>2. \A j \in Proc : \A n \in DOMAIN index' : index'[n] \subseteq located'[j]
    BY <1>1 DEF Open, Inv, TypeOK, OneProc, Named, disk
  <2> QED
    BY <2>1, <2>2 DEF Known
<1>6. Covered'
  BY <1>1 DEF Open, Inv, TypeOK, Covered, Named, OneProc, disk
<1>7. Numbers' /\ Compacting'
  BY DEF Open, Inv, Numbers, Compacting, disk, call
<1>8. Asked'
  BY DEF Open, Inv, Asked, InDurable, InCall, Sealing, Pending, disk, call, history
<1> QED
  BY <1>2, <1>3, <1>4, <1>5, <1>6, <1>7, <1>8 DEF Inv

\* The end of the process leaves the disk as it is.
LEMMA CrashKeeps ==
  ASSUME Inv, OneProc, NEW i \in Proc, Crash(i)
  PROVE  Inv'
<1>1. /\ \A t \in Thread : ProcOf[t] = i
      /\ \A j \in Proc : j = i
  BY ProcAssumption DEF OneProc
<1>2. \A t \in Thread : pc'[t] = "idle" /\ todo'[t] = {} /\ batch'[t] = {} /\ asked'[t] = {}
  BY <1>1 DEF Crash
<1>3. TypeOK'
  <2>1. /\ up' \in [Proc -> BOOLEAN] /\ staging' \in [Proc -> SUBSET Blob]
        /\ located' \in [Proc -> SUBSET PackId] /\ unindexed' \in [Proc -> SUBSET PackId]
        /\ seq' \in [Proc -> Thread \cup {None}]
    BY DEF Crash, Inv, TypeOK
  <2>2. nextIndex' \in [Proc -> 0 .. MaxIndex + 1] /\ crashes' \in 0 .. MaxCrashes
    BY BoundAssumption DEF Crash, Inv, TypeOK
  <2>3. /\ pc' \in [Thread -> PC] /\ todo' \in [Thread -> SUBSET Blob]
        /\ batch' \in [Thread -> SUBSET PackId] /\ asked' \in [Thread -> SUBSET Blob]
        /\ old' \in [Thread -> SUBSET IndexNo]
    BY DEF Crash, Inv, TypeOK, PC
  <2>4. num' \in [Thread -> 0 .. MaxIndex]
    BY BoundAssumption DEF Crash, Inv, TypeOK
  <2>5. \A t \in Thread : pc'[t] \in Locked <=> seq'[ProcOf[t]] = t
    BY <1>1, <1>2, ProcAssumption DEF Crash, Inv, TypeOK, Locked
  <2> QED
    BY <2>1, <2>2, <2>3, <2>4, <2>5 DEF Crash, Inv, TypeOK, disk
<1>4. Calls' /\ Compacting'
  BY <1>2 DEF Calls, Compacting, Locked
<1>5. \A j \in Proc : staging'[j] = {} /\ located'[j] = {} /\ nextIndex'[j] = 0 /\ ~up'[j]
  BY <1>1 DEF Crash, Inv, TypeOK
<1>6. Down' /\ Known' /\ Covered' /\ Numbers' /\ Asked'
  BY <1>2, <1>5 DEF Down, Known, Covered, Numbers, Asked
<1>7. Exist'
  BY <1>2, <1>5 DEF Crash, Inv, Exist, Recording, disk
<1> QED
  BY <1>3, <1>4, <1>6, <1>7 DEF Inv

\* A step that changes nothing.
LEMMA StutterKeeps ==
  ASSUME Inv, UNCHANGED vars
  PROVE  Inv'
<1> USE DEF vars, disk, mem, call, history, faults
<1>1. TypeOK' /\ Calls' /\ Down'
  BY DEF Inv, TypeOK, Calls, Down
<1>2. Exist' /\ Known' /\ Numbers' /\ Compacting'
  BY DEF Inv, Exist, Known, Numbers, Compacting
<1>3. Covered' /\ Asked'
  BY DEF Inv, Covered, Named, Asked, InDurable, InCall, Sealing, Pending
<1> QED
  BY <1>1, <1>2, <1>3 DEF Inv

\* Every step keeps the invariant.
LEMMA NextInv ==
  ASSUME Inv, OneProc, [Next]_vars
  PROVE  Inv'
<1>1. ASSUME NEW t \in Thread, Step(t) PROVE Inv'
  BY <1>1, PutCheckKeeps, PutOfferKeeps, FlushDrainKeeps, SealWriteKeeps, AdoptPackKeeps,
     MergeKeeps, SnapshotKeeps, AppendKeeps, AppendWriteKeeps, NoCompactionKeeps,
     CompactListKeeps, CompactSnapshotKeeps, CompactWriteKeeps, CompactDeleteKeeps,
     FailKeeps DEF Step
<1>2. ASSUME NEW i \in Proc, Open(i) \/ Crash(i) PROVE Inv'
  BY <1>2, OpenKeeps, CrashKeeps
<1> QED
  BY <1>1, <1>2, StutterKeeps DEF Next

\* The invariant holds in every behaviour of a store that one process opens
\* at a time.
THEOREM StoreInvariance == OneProc => (Spec => []Inv)
<1> SUFFICES ASSUME OneProc PROVE Spec => []Inv
  OBVIOUS
<1>1. Init => Inv
  BY InitInv
<1>2. Inv /\ [Next]_vars => Inv'
  BY NextInv
<1> QED
  BY <1>1, <1>2, PTL DEF Spec

-----------------------------------------------------------------------------
(* What follows from it. *)

\* The index files and the location table agree at every moment, through
\* concurrent puts and flushes, compaction, errors and restarts.
THEOREM IndexSound == OneProc => (Spec => []IndexCovers)
<1> SUFFICES ASSUME OneProc PROVE Spec => []IndexCovers
  OBVIOUS
<1>1. Inv => IndexCovers
  <2> SUFFICES ASSUME Inv PROVE IndexCovers
    OBVIOUS
  <2>1. \A p : p \in Indexed <=> Named(p)
    BY DEF Indexed, Named
  <2>2. \A p \in Indexed : packs[p] # {}
    BY <2>1 DEF Inv, Exist, Named
  <2>3. ASSUME NEW i \in Proc, up[i] PROVE Indexed \subseteq located[i]
    BY <2>1, <2>3 DEF Inv, Known, Named
  <2>4. ASSUME NEW i \in Proc, NEW p \in located[i]
        PROVE  p \in Indexed \cup unindexed[i] \cup UNION {Pending(t) : t \in Own(i)}
    BY <2>1 DEF Inv, Covered, Pending, Recording, Own
  <2> QED
    BY <2>2, <2>3, <2>4 DEF IndexCovers
<1> QED
  BY <1>1, StoreInvariance, PTL

\* A flush that has returned has sealed what the store held when it was
\* called, up to what another call still carries or an error left unindexed.
THEOREM FlushSound == OneProc => (Spec => []FlushSeals)
<1> SUFFICES ASSUME OneProc PROVE Spec => []FlushSeals
  OBVIOUS
<1>1. Inv => FlushSeals
  <2> SUFFICES ASSUME Inv, NEW t \in Thread, NEW b \in asked[t]
               PROVE  b \in Durable \cup InFlight(ProcOf[t])
                              \cup BlobsIn(unindexed[ProcOf[t]])
    BY DEF FlushSeals
  <2>1. InDurable(b) => b \in Durable
    BY DEF InDurable, Durable, BlobsIn, Indexed
  <2>2. ASSUME NEW u \in Thread, ProcOf[u] = ProcOf[t], InCall(u, b)
        PROVE  b \in InFlight(ProcOf[t])
    BY <2>2 DEF InCall, InFlight, Own, BlobsIn
  <2>3. ASSUME NEW p \in unindexed[ProcOf[t]], b \in packs[p]
        PROVE  b \in BlobsIn(unindexed[ProcOf[t]])
    BY <2>3 DEF BlobsIn
  <2> QED
    BY <2>1, <2>2, <2>3 DEF Inv, Asked
<1> QED
  BY <1>1, StoreInvariance, PTL

-----------------------------------------------------------------------------
(* The store implements BlobStore. *)

InHeld(b) ==
  \/ InDurable(b)
  \/ \E i \in Proc : b \in staging[i] \/ \E p \in located[i] : b \in packs[p]
  \/ \E t \in Thread : InCall(t, b)

HeldAll == Durable \cup UNION {Held(i) : i \in Proc}

\* The sets of the refinement mapping, blob by blob.
LEMMA Members ==
  ASSUME Inv
  PROVE  /\ \A b : b \in Durable <=> InDurable(b)
         /\ \A b : b \in HeldAll <=> InHeld(b)
         /\ HeldAll \subseteq Blob
<1>1. \A b : b \in Durable <=> InDurable(b)
  BY DEF Durable, BlobsIn, Indexed, InDurable
<1>2. ASSUME NEW i \in Proc, NEW b
      PROVE  b \in Held(i) <=>
               \/ b \in staging[i]
               \/ \E p \in located[i] : b \in packs[p]
               \/ \E t \in Thread : ProcOf[t] = i /\ InCall(t, b)
  BY DEF Held, InFlight, Own, BlobsIn, InCall
<1>3. \A b : b \in HeldAll <=> InHeld(b)
  BY <1>1, <1>2, ProcAssumption DEF HeldAll, InHeld
<1>4. ASSUME NEW b, InHeld(b) PROVE b \in Blob
  BY <1>4 DEF InHeld, InDurable, InCall, Sealing, Pending, Inv, TypeOK
<1> QED
  BY <1>1, <1>3, <1>4

\* The same of the next state.
LEMMA MembersNext ==
  ASSUME Inv'
  PROVE  /\ \A b : b \in Durable' <=> InDurable(b)'
         /\ \A b : b \in HeldAll' <=> InHeld(b)'
         /\ HeldAll' \subseteq Blob
<1>1. \A b : b \in Durable' <=> InDurable(b)'
  BY DEF Durable, BlobsIn, Indexed, InDurable
<1>2. ASSUME NEW i \in Proc, NEW b
      PROVE  b \in Held(i)' <=>
               \/ b \in staging'[i]
               \/ \E p \in located'[i] : b \in packs'[p]
               \/ \E t \in Thread : ProcOf[t] = i /\ InCall(t, b)'
  BY DEF Held, InFlight, Own, BlobsIn, InCall
<1>3. \A b : b \in HeldAll' <=> InHeld(b)'
  BY <1>1, <1>2, ProcAssumption DEF HeldAll, InHeld
<1>4. ASSUME NEW b, InHeld(b)' PROVE b \in Blob
  BY <1>4 DEF InHeld, InDurable, InCall, Sealing, Pending, Inv, TypeOK
<1> QED
  BY <1>1, <1>3, <1>4

\* Three ways to be a step of BlobStore: the blobs held grow, ...
LEMMA Accepts ==
  ASSUME Inv, Inv', \A b : InDurable(b)' <=> InDurable(b), \A b : InHeld(b) => InHeld(b)'
  PROVE  Promise!Next
<1>1. Durable' = Durable /\ HeldAll \subseteq HeldAll' /\ HeldAll' \subseteq Blob
  BY Members, MembersNext
<1>2. HeldAll' = HeldAll \cup HeldAll'
  BY <1>1
<1> QED
  BY <1>1, <1>2 DEF Promise!Next, Promise!Accept, HeldAll

\* ... or shrink, ...
LEMMA Loses ==
  ASSUME Inv, Inv', \A b : InDurable(b)' <=> InDurable(b), \A b : InHeld(b)' => InHeld(b)
  PROVE  Promise!Next
<1> DEFINE S == HeldAll \ HeldAll'
<1>1. Durable' = Durable /\ HeldAll' \subseteq HeldAll /\ HeldAll \subseteq Blob
  BY Members, MembersNext
<1>2. Durable \subseteq HeldAll'
  BY <1>1 DEF HeldAll
<1>3. S \in SUBSET Blob /\ S \cap Durable = {} /\ HeldAll' = HeldAll \ S
  BY <1>1, <1>2
<1> QED
  BY <1>1, <1>3 DEF Promise!Next, Promise!Lose, HeldAll

\* ... or some of them become durable.
LEMMA Persists ==
  ASSUME Inv, Inv', \A b : InDurable(b) => InDurable(b)', \A b : InHeld(b) <=> InHeld(b)'
  PROVE  Promise!Next
<1>1. Durable \subseteq Durable' /\ HeldAll' = HeldAll /\ HeldAll \subseteq Blob
  BY Members, MembersNext
<1>2. Durable' \subseteq HeldAll /\ Durable' = Durable \cup Durable'
  BY <1>1 DEF HeldAll
<1>3. Durable' \in SUBSET Blob
  BY <1>1, <1>2
<1> QED
  BY <1>1, <1>2, <1>3 DEF Promise!Next, Promise!Persist, HeldAll

\* Packs that appear are named by no index file, so the durable blobs stay.
LEMMA NewPack ==
  ASSUME Inv, NEW p \in PackId, NEW B \in SUBSET Blob, packs[p] \in {{}, B},
         packs' = [packs EXCEPT ![p] = B], index' = index
  PROVE  /\ \A q \in PackId : packs[q] \subseteq packs'[q]
         /\ \A b : InDurable(b)' <=> InDurable(b)
<1>1. \A q \in PackId : packs[q] # {} => packs'[q] = packs[q]
  BY DEF Inv, TypeOK
<1>2. \A n \in DOMAIN index : \A q \in index[n] : q \in PackId /\ packs[q] # {}
  BY DEF Inv, TypeOK, Exist
<1> QED
  BY <1>1, <1>2 DEF InDurable

\* Every step of a thread is a step of BlobStore.
LEMMA ThreadRefines ==
  ASSUME Inv, Inv', OneProc, NEW t \in Thread, Step(t)
  PROVE  Promise!Next
<1>1. ASSUME NEW b \in Blob, PutCheck(t, b) PROVE Promise!Next
  <2>1. \A c : InDurable(c)' <=> InDurable(c)
    BY <1>1 DEF PutCheck, InDurable, disk
  <2>2. \A u \in Thread : \A c : InCall(u, c) => InCall(u, c)'
    BY <1>1 DEF PutCheck, Ready, Inv, TypeOK, Calls, InCall, Sealing, Pending, Recording, disk
  <2>3. \A c : InHeld(c) => InHeld(c)'
    BY <1>1, <2>1, <2>2 DEF PutCheck, InHeld, disk, mem
  <2> QED
    BY <2>1, <2>3, Accepts
<1>2. CASE PutOffer(t)
  <2>1. \A c : InDurable(c)' <=> InDurable(c)
    BY <1>2 DEF PutOffer, InDurable, disk
  <2>2. \A u \in Thread : \A c : InCall(u, c) => InCall(u, c)'
    <3>1. \A u \in Thread : u # t => pc'[u] = pc[u] /\ todo'[u] = todo[u]
      BY <1>2 DEF PutOffer, Room, Overflow, Inv, TypeOK
    <3>2. \A c : ~InCall(t, c)
      BY <1>2 DEF PutOffer, Room, Overflow, InCall, Sealing, Pending, Recording
    <3> QED
      BY <1>2, <3>1, <3>2 DEF PutOffer, InCall, Sealing, Pending, disk
  <2>3. ASSUME NEW c \in staging[ProcOf[t]] PROVE c \in staging'[ProcOf[t]] \/ InCall(t, c)'
    <3>1. CASE Room(t)
      BY <3>1, ProcAssumption DEF Room, Inv, TypeOK
    <3>2. CASE Overflow(t)
      BY <3>2, ProcAssumption DEF Overflow, Inv, TypeOK, InCall, Sealing
    <3> QED
      BY <1>2, <3>1, <3>2 DEF PutOffer
  <2>4. \A c : InHeld(c) => InHeld(c)'
    BY <1>2, <2>1, <2>2, <2>3, ProcAssumption DEF PutOffer, InHeld, OneProc, disk
  <2> QED
    BY <2>1, <2>4, Accepts
<1>3. CASE FlushDrain(t)
  <2>1. \A c : InDurable(c)' <=> InDurable(c)
    BY <1>3 DEF FlushDrain, InDurable, disk
  <2>2. \A u \in Thread : \A c : InCall(u, c) => InCall(u, c)'
    BY <1>3 DEF FlushDrain, Ready, Drained, Inv, TypeOK, Calls, InCall, Sealing, Pending,
       Recording, disk
  <2>3. \A c \in staging[ProcOf[t]] : InCall(t, c)'
    BY <1>3 DEF FlushDrain, Drained, Inv, TypeOK, InCall, Sealing
  <2>4. \A c : InHeld(c) => InHeld(c)'
    BY <1>3, <2>1, <2>2, <2>3, ProcAssumption DEF FlushDrain, InHeld, OneProc, disk
  <2> QED
    BY <2>1, <2>4, Accepts
<1>4. CASE SealWrite(t)
  <2>1. PICK p \in OwnPack : /\ packs[p] = {}
                             /\ packs' = [packs EXCEPT ![p] = NextPack(t)]
                             /\ batch' = [batch EXCEPT ![t] = {p}]
    BY <1>4 DEF SealWrite, FreshPack
  <2>2. p \in PackId /\ NextPack(t) \in SUBSET Blob /\ packs'[p] = NextPack(t)
    BY <2>1 DEF NextPack, Inv, TypeOK, PackId, Blob
  <2>3. /\ \A q \in PackId : packs[q] \subseteq packs'[q]
        /\ \A c : InDurable(c)' <=> InDurable(c)
    BY <1>4, <2>1, <2>2, NewPack DEF SealWrite
  <2>4. ASSUME NEW u \in Thread, NEW c, InCall(u, c) PROVE InCall(u, c)'
    <3>1. CASE u = t
      BY <1>4, <3>1, <2>1, <2>2, <2>4 DEF SealWrite, Inv, TypeOK, InCall, Sealing, Pending,
         Recording
    <3>2. CASE u # t
      BY <1>4, <3>2, <2>1, <2>3, <2>4 DEF SealWrite, Inv, TypeOK, InCall, Sealing, Pending
    <3> QED
      BY <3>1, <3>2
  <2>5. \A c : InHeld(c) => InHeld(c)'
    BY <1>4, <2>3, <2>4 DEF SealWrite, Inv, TypeOK, InHeld, mem
  <2> QED
    BY <2>3, <2>5, Accepts
<1>5. ASSUME NEW p \in PeerPack, AdoptPack(t, p) PROVE Promise!Next
  <2>1. p \in PackId /\ PeerBlobs[p] \in SUBSET Blob /\ packs[p] \in {{}, PeerBlobs[p]}
    BY PeerAssumption DEF Inv, Exist, PackId
  <2>2. /\ \A q \in PackId : packs[q] \subseteq packs'[q]
        /\ \A c : InDurable(c)' <=> InDurable(c)
    BY <1>5, <2>1, NewPack DEF AdoptPack
  <2>3. ASSUME NEW u \in Thread, NEW c, InCall(u, c) PROVE InCall(u, c)'
    BY <1>5, <2>2, <2>3 DEF AdoptPack, Ready, Inv, TypeOK, Calls, InCall, Sealing, Pending,
       Recording
  <2>4. \A c : InHeld(c) => InHeld(c)'
    BY <1>5, <2>2, <2>3 DEF AdoptPack, Inv, TypeOK, InHeld, mem
  <2> QED
    BY <2>2, <2>4, Accepts
<1>6. CASE Merge(t) \/ Snapshot(t) \/ Append(t)
  <2>1. index' = index /\ packs' = packs /\ staging' = staging /\ todo' = todo
    BY <1>6 DEF Merge, Snapshot, Append, disk, mem
  <2>2. \A c : InDurable(c)' <=> InDurable(c)
    BY <2>1 DEF InDurable
  <2>3. \A i \in Proc : located[i] \subseteq located'[i]
    BY <1>6 DEF Merge, Snapshot, Append, Inv, TypeOK, mem
  <2>4. \A u \in Thread : Pending(u) \subseteq Pending(u)' /\ Sealing(u) \subseteq Sealing(u)'
    BY <1>6, <2>1 DEF Merge, Snapshot, Append, Ready, Inv, TypeOK, Calls, Pending, Sealing, Recording
  <2>5. \A c : InHeld(c) => InHeld(c)'
    BY <2>1, <2>2, <2>3, <2>4 DEF InHeld, InCall
  <2> QED
    BY <2>2, <2>5, Accepts
<1>7. CASE NoCompaction(t) \/ CompactList(t) \/ CompactSnapshot(t)
  <2>1. index' = index /\ packs' = packs /\ staging' = staging /\ located' = located
    BY <1>7 DEF NoCompaction, CompactList, CompactSnapshot, disk, mem
  <2>2. \A c : InDurable(c)' <=> InDurable(c)
    BY <2>1 DEF InDurable
  <2>3. \A u \in Thread : Pending(u) = Pending(u)' /\ Sealing(u) = Sealing(u)'
    BY <1>7 DEF NoCompaction, CompactList, CompactSnapshot, Finish, Inv, TypeOK, Pending,
       Sealing, Recording
  <2>4. \A c : InHeld(c) => InHeld(c)'
    BY <2>1, <2>2, <2>3 DEF InHeld, InCall
  <2> QED
    BY <2>2, <2>4, Accepts
<1>8. CASE AppendWrite(t) \/ CompactWrite(t)
  <2>1. /\ DOMAIN index' = DOMAIN index \cup {num[t]} /\ index'[num[t]] = batch[t]
        /\ \A m \in DOMAIN index : index'[m] = index[m]
    BY <1>8, WriteFacts DEF AppendWrite, CompactWrite
  <2>2. packs' = packs /\ staging' = staging /\ located' = located /\ todo' = todo /\ batch' = batch
    BY <1>8 DEF AppendWrite, CompactWrite, mem
  <2>3. batch[t] \subseteq located[ProcOf[t]]
    BY <1>8 DEF AppendWrite, CompactWrite, Inv, Known
  <2>4. \A c : InDurable(c) => InDurable(c)'
    BY <2>1, <2>2 DEF InDurable
  <2>5. ASSUME NEW c, InDurable(c)' PROVE InHeld(c)
    BY <2>1, <2>2, <2>3, <2>5, ProcAssumption DEF InDurable, InHeld
  <2>6. /\ \A u \in Thread : u # t => pc'[u] = pc[u]
        /\ pc[t] # "offer" /\ pc'[t] # "offer" /\ pc'[t] \notin Recording
    BY <1>8 DEF AppendWrite, CompactWrite, Inv, TypeOK, Recording
  <2>7. \A u \in Thread : \A c : InCall(u, c)' => InCall(u, c)
    BY <2>2, <2>6 DEF InCall, Sealing, Pending
  <2>8. ASSUME NEW u \in Thread, NEW c, InCall(u, c) PROVE InHeld(c)'
    <3>1. CASE InCall(u, c)'
      BY <3>1 DEF InHeld
    <3>2. CASE u = t /\ c \in BlobsIn(batch[t])
      BY <3>2, <2>2, <2>3, ProcAssumption DEF InHeld, BlobsIn
    <3> QED
      BY <2>2, <2>6, <2>8, <3>1, <3>2 DEF InCall, Sealing, Pending, BlobsIn
  <2>9. \A c : InHeld(c) <=> InHeld(c)'
    BY <2>2, <2>4, <2>5, <2>7, <2>8 DEF InHeld
  <2> QED
    BY <2>4, <2>9, Persists
<1>9. CASE CompactDelete(t)
  <2> PICK gone \in SUBSET (old[t] \ {num[t]}) :
                index' = [m \in DOMAIN index \ gone |-> index[m]]
    BY <1>9 DEF CompactDelete
  <2>1. /\ num[t] \in DOMAIN index' /\ index'[num[t]] = index[num[t]]
        /\ \A n \in DOMAIN index : index[n] \subseteq index[num[t]]
        /\ \A n \in DOMAIN index' : n \in DOMAIN index /\ index'[n] = index[n]
    BY <1>9 DEF CompactDelete, Inv, Compacting
  <2>2. packs' = packs /\ staging' = staging /\ located' = located
    BY <1>9 DEF CompactDelete, mem
  <2>3. \A c : InDurable(c)' <=> InDurable(c)
    BY <2>1, <2>2 DEF InDurable
  <2>4. \A u \in Thread : Pending(u) = Pending(u)' /\ Sealing(u) = Sealing(u)'
    BY <1>9 DEF CompactDelete, Finish, Inv, TypeOK, Pending, Sealing, Recording
  <2>5. \A c : InHeld(c) => InHeld(c)'
    BY <2>2, <2>3, <2>4 DEF InHeld, InCall
  <2> QED
    BY <2>3, <2>5, Accepts
<1>10. CASE Fail(t)
  <2>1. index' = index /\ packs' = packs /\ staging' = staging /\ located' = located
    BY <1>10 DEF Fail, disk, mem
  <2>2. \A c : InDurable(c)' <=> InDurable(c)
    BY <2>1 DEF InDurable
  <2>3. \A u \in Thread : Pending(u)' \subseteq Pending(u) /\ Sealing(u)' \subseteq Sealing(u)
    BY <1>10 DEF Fail, Inv, TypeOK, Pending, Sealing, Recording
  <2>4. \A c : InHeld(c)' => InHeld(c)
    BY <2>1, <2>2, <2>3 DEF InHeld, InCall
  <2> QED
    BY <2>2, <2>4, Loses
<1> QED
  BY <1>1, <1>2, <1>3, <1>4, <1>5, <1>6, <1>7, <1>8, <1>9, <1>10 DEF Step

\* Opening the store shows what is durable; the end of the process loses the
\* rest.
LEMMA ProcRefines ==
  ASSUME Inv, Inv', OneProc, NEW i \in Proc, Open(i) \/ Crash(i)
  PROVE  Promise!Next
<1>1. index' = index /\ packs' = packs
  BY DEF Open, Crash, disk
<1>2. \A c : InDurable(c)' <=> InDurable(c)
  BY <1>1 DEF InDurable
<1>3. CASE Open(i)
  <2>1. \A j \in Proc : located[j] = {}
    BY <1>3 DEF Open, Inv, Down, OneProc
  <2>2. \A c : InHeld(c) => InHeld(c)'
    BY <1>1, <1>2, <1>3, <2>1 DEF Open, InHeld, InCall, Sealing, Pending, call
  <2> QED
    BY <1>2, <2>2, Accepts
<1>4. CASE Crash(i)
  <2>1. \A j \in Proc : staging'[j] = {} /\ located'[j] = {}
    BY <1>4 DEF Crash, Inv, TypeOK, OneProc
  <2>2. \A t \in Thread : Pending(t)' = {} /\ Sealing(t)' = {}
    BY <1>4, ProcAssumption DEF Crash, OneProc, Pending, Sealing
  <2>3. \A c : InHeld(c)' => InHeld(c)
    BY <1>2, <2>1, <2>2 DEF InHeld, InCall
  <2> QED
    BY <1>2, <2>3, Loses
<1> QED
  BY <1>3, <1>4

\* The store implements BlobStore: with packs, index files, compaction,
\* concurrent threads, errors and restarts, it keeps a set of blobs that
\* never loses what opening it would find.
THEOREM StoreRefines == OneProc => (Spec => Implements)
<1> SUFFICES ASSUME OneProc PROVE Spec => Implements
  OBVIOUS
<1>1. Init => Promise!Init
  <2> SUFFICES ASSUME Init PROVE Durable = {} /\ HeldAll = {}
    BY DEF Promise!Init, HeldAll
  <2>1. \A b : ~InDurable(b)
    BY DEF Init, InDurable
  <2>2. \A b : ~InHeld(b)
    BY <2>1 DEF Init, InHeld, InCall, Sealing, Pending
  <2> QED
    BY <2>1, <2>2, InitInv, Members
<1>2. Inv /\ Inv' /\ [Next]_vars => [Promise!Next]_(Promise!vars)
  <2>1. ASSUME Inv, Inv', Next PROVE Promise!Next
    BY <2>1, ThreadRefines, ProcRefines DEF Next
  <2>2. ASSUME UNCHANGED vars PROVE UNCHANGED Promise!vars
    <3>1. Durable' = Durable
      BY <2>2 DEF vars, disk, Durable, BlobsIn, Indexed
    <3>2. HeldAll' = HeldAll
      BY <2>2, <3>1 DEF vars, disk, mem, call, HeldAll, Held, InFlight, Own, BlobsIn, Sealing, Pending
    <3> QED
      BY <3>1, <3>2 DEF Promise!vars, HeldAll
  <2> QED
    BY <2>1, <2>2
<1> QED
  BY <1>1, <1>2, StoreInvariance, PTL DEF Spec, Implements, Promise!Spec

=============================================================================

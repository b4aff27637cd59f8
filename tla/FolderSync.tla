----------------------------- MODULE FolderSync -----------------------------
(***************************************************************************)
(* The devices that share one folder, each running the sync engine of       *)
(* crates/ferry-sync: a user edits the live tree, the scan engine publishes *)
(* manifests of it, and sessions between two devices exchange manifests,    *)
(* merge them (module Reconcile) into the live tree, and record which       *)
(* manifest both hold.  Steps of a session interleave with the user, with   *)
(* the scanner, with lost connections and with killed processes.            *)
(*                                                                          *)
(* The folder is flat and holds plain files; module ReconcilePair checks    *)
(* the merge of nested trees.  A manifest id is the manifest's position in  *)
(* mans: the code's ids are hashes of the manifest, so a manifest never     *)
(* changes under its id, and the positions stand for creation times.        *)
(***************************************************************************)
EXTENDS Reconcile, FiniteSets

CONSTANTS
    Device,         \* the device ids
    InitialTrees,   \* what the users' folders can hold before the first start
    Writes,         \* what a user writes at a path; NoEntry is a deletion
    LineageDepth,   \* how many parents is_ancestor follows (256)
    MaxEdits,       \* bound: edits by all users together
    MaxManifests,   \* bound: manifests published by all devices together
    MaxFaults       \* bound: connections lost and processes killed

ASSUME DeviceAssumption == Device \subseteq Int /\ 0 \notin Device
ASSUME BoundAssumption ==
    {LineageDepth, MaxEdits, MaxManifests, MaxFaults} \subseteq Nat

File == [kind : {"file"}, c : Content, t : Time]

\* A path, or the conflict copy of a version of it: the code names a copy for
\* the path, the losing device and the losing version's time.
Name == Path \cup (Path \X File)

Root == [Name -> File \cup {NoEntry}]
EmptyRoot == [n \in Name |-> NoEntry]

ASSUME UserAssumption ==
    /\ InitialTrees \subseteq [Device -> Root]
    /\ \A T \in InitialTrees : \A d \in Device : \A n \in Path \X File : T[d][n] = NoEntry
    /\ Writes \subseteq File \cup {NoEntry}
    /\ Path \cap (Path \X File) = {}

\* RootManifest.
Manifest == [dev : Device, root : Root, parent : Nat]

VARIABLES
    mans,       \* every manifest ever published, by id
    tree,       \* tree[d]: the live folder on disk
    store,      \* store[d]: the manifests the store of d can read
    staged,     \* staged[d]: those of them not yet flushed to disk
    ledger,     \* ledger[d][e]: AgreementLedger, the manifest agreed with e
    latest,     \* latest[d]: the most recent record of that ledger
    scanRoot,   \* scanRoot[d]: Core.prev_root_tree_id of the scan engine
    parentId,   \* parentId[d]: Core.prev_manifest_id
    chan,       \* chan[d]: the slot of the scan subscriber's channel
    current,    \* current[d]: FolderPointers.current
    pc,         \* pc[d]: where d's session is; "off" when d is not running
    peer,       \* peer[d]: the other device of the session
    dialer,     \* dialer[d]: d initiated the session
    cur,        \* cur[d]: Exchange.cur
    target,     \* target[d]: Exchange.peer_offer
    basis,      \* basis[d]: the proven base of the merge, 0 for the empty one
    todo,       \* todo[d]: the file operations apply has still to carry out
    seen,       \* seen[d]: history, the versions d has had at each name
    atGuard,    \* atGuard[d]: history, the folder when apply checked it
    edits,      \* the edits made so far
    faults      \* the faults suffered so far

disk == <<store, staged, ledger, latest>>
scan == <<scanRoot, parentId, chan, current>>
sess == <<pc, peer, dialer, cur, target, basis, todo>>
hist == <<seen, atGuard>>
vars == <<mans, tree, disk, scan, sess, hist, edits, faults>>

Id == 1 .. Len(mans)

PC == {"off", "idle", "begin", "offer", "pull", "quarantine", "guard", "write",
       "closing", "serve", "final", "agree", "bye"}

Op == [n : Name, op : {"remove", "write", "touch"}]

\* A device that is not in a session has no session state.
Idle ==
    \A d \in Device : pc[d] \in {"off", "idle"} =>
      peer[d] = d /\ cur[d] = 0 /\ target[d] = 0 /\ basis[d] = 0 /\ todo[d] = {}

TypeOK ==
    /\ mans \in Seq(Manifest)
    /\ tree \in [Device -> Root]
    /\ store \in [Device -> SUBSET Nat]
    /\ staged \in [Device -> SUBSET Nat]
    /\ ledger \in [Device -> [Device -> Nat]]
    /\ latest \in [Device -> Nat]
    /\ scanRoot \in [Device -> Root]
    /\ parentId \in [Device -> Nat]
    /\ chan \in [Device -> Nat]
    /\ current \in [Device -> Nat]
    /\ pc \in [Device -> PC]
    /\ peer \in [Device -> Device]
    /\ dialer \in [Device -> BOOLEAN]
    /\ cur \in [Device -> Nat]
    /\ target \in [Device -> Nat]
    /\ basis \in [Device -> Nat]
    /\ todo \in [Device -> SUBSET Op]
    /\ seen \in [Device -> [Name -> SUBSET File]]
    /\ atGuard \in [Device -> Root]
    /\ edits \in Nat
    /\ faults \in Nat
    /\ Idle

\* Nothing is running yet; each user's folder holds what it holds.
Init ==
    /\ mans = <<>>
    /\ tree \in InitialTrees
    /\ store = [d \in Device |-> {}]
    /\ staged = [d \in Device |-> {}]
    /\ ledger = [d \in Device |-> [e \in Device |-> 0]]
    /\ latest = [d \in Device |-> 0]
    /\ scanRoot = [d \in Device |-> EmptyRoot]
    /\ parentId = [d \in Device |-> 0]
    /\ chan = [d \in Device |-> 0]
    /\ current = [d \in Device |-> 0]
    /\ pc = [d \in Device |-> "off"]
    /\ peer = [d \in Device |-> d]
    /\ dialer = [d \in Device |-> FALSE]
    /\ cur = [d \in Device |-> 0]
    /\ target = [d \in Device |-> 0]
    /\ basis = [d \in Device |-> 0]
    /\ todo = [d \in Device |-> {}]
    /\ seen = [d \in Device |-> [n \in Name |-> {tree[d][n]} \ {NoEntry}]]
    /\ atGuard = [d \in Device |-> EmptyRoot]
    /\ edits = 0
    /\ faults = 0

-----------------------------------------------------------------------------
(* The user.                                                               *)

\* d's history once its live folder is T.
Witness(d, T) ==
    [seen EXCEPT ![d] = [n \in Name |-> @[n] \cup ({T[n]} \ {NoEntry})]]

\* Only sessions and users write the live folder.
SetTree(d, T) ==
    /\ tree' = [tree EXCEPT ![d] = T]
    /\ seen' = Witness(d, T)

\* The user of d writes, rewrites or deletes a file.
Edit(d, p, e) ==
    /\ edits < MaxEdits
    /\ e # tree[d][p]
    /\ SetTree(d, [tree[d] EXCEPT ![p] = e])
    /\ edits' = edits + 1
    /\ UNCHANGED <<atGuard, mans, disk, scan, sess, faults>>

\* The user of d has dealt with a conflict copy and deletes it.
Discard(d, n) ==
    /\ edits < MaxEdits
    /\ tree[d][n] # NoEntry
    /\ SetTree(d, [tree[d] EXCEPT ![n] = NoEntry])
    /\ edits' = edits + 1
    /\ UNCHANGED <<atGuard, mans, disk, scan, sess, faults>>

-----------------------------------------------------------------------------
(* The scan engine and the folder's pointers.                              *)

\* Parts::run_full / run_incremental: the tree differs from the one last
\* published, so a manifest of it is stored, flushed and offered to the
\* subscriber, whose channel has room for one event; an event that finds it
\* full is not sent again.
Publish(d) ==
    /\ Len(mans) < MaxManifests
    /\ mans' = Append(mans, [dev |-> d, root |-> tree[d], parent |-> parentId[d]])
    /\ store' = [store EXCEPT ![d] = @ \cup {Len(mans) + 1}]
    /\ staged' = [staged EXCEPT ![d] = {}]
    /\ scanRoot' = [scanRoot EXCEPT ![d] = tree[d]]
    /\ parentId' = [parentId EXCEPT ![d] = Len(mans) + 1]
    /\ chan' = [chan EXCEPT ![d] = IF @ = 0 THEN Len(mans) + 1 ELSE @]

\* FolderState::update_from_scan: a manifest with the root that is held
\* already does not replace the one held.
UpdateFromScan(d, id) ==
    IF current[d] # 0 /\ mans'[current[d]].root = mans'[id].root
    THEN current[d] ELSE id

\* A pass of the scan worker.
Scan(d) ==
    /\ pc[d] # "off"
    /\ tree[d] # scanRoot[d]
    /\ Publish(d)
    /\ UNCHANGED <<tree, ledger, latest, current, sess, hist, edits, faults>>

\* sync_loop receives a scan event; that thread is busy while it is dialing.
HandleScanUpdate(d) ==
    /\ pc[d] # "off"
    /\ chan[d] # 0
    /\ pc[d] # "idle" => ~dialer[d]
    /\ chan' = [chan EXCEPT ![d] = 0]
    /\ UNCHANGED mans
    /\ current' = [current EXCEPT ![d] = UpdateFromScan(d, chan[d])]
    /\ UNCHANGED <<tree, disk, scanRoot, parentId, sess, hist, edits, faults>>

-----------------------------------------------------------------------------
(* The process.                                                            *)

\* Mutant: the plan outlives its session.
QuitKeepsPlan(d, where) ==
    /\ pc' = [pc EXCEPT ![d] = where]
    /\ peer' = [peer EXCEPT ![d] = d]
    /\ dialer' = [dialer EXCEPT ![d] = FALSE]
    /\ cur' = [cur EXCEPT ![d] = 0]
    /\ target' = [target EXCEPT ![d] = 0]
    /\ basis' = [basis EXCEPT ![d] = 0]
    /\ atGuard' = [atGuard EXCEPT ![d] = EmptyRoot]
    /\ UNCHANGED todo

\* A session's state lives and dies with it.
Quit(d, where) ==
    /\ pc' = [pc EXCEPT ![d] = where]
    /\ peer' = [peer EXCEPT ![d] = d]
    /\ dialer' = [dialer EXCEPT ![d] = FALSE]
    /\ cur' = [cur EXCEPT ![d] = 0]
    /\ target' = [target EXCEPT ![d] = 0]
    /\ basis' = [basis EXCEPT ![d] = 0]
    /\ todo' = [todo EXCEPT ![d] = {}]
    /\ atGuard' = [atGuard EXCEPT ![d] = EmptyRoot]

Leave(d) == Quit(d, "idle")

\* kill -9: memory is gone, and so is whatever the store had not written out.
Crash(d) ==
    /\ pc[d] # "off"
    /\ faults < MaxFaults
    /\ \E gone \in SUBSET staged[d] : store' = [store EXCEPT ![d] = @ \ gone]
    /\ staged' = [staged EXCEPT ![d] = {}]
    /\ Quit(d, "off")
    /\ scanRoot' = [scanRoot EXCEPT ![d] = EmptyRoot]
    /\ parentId' = [parentId EXCEPT ![d] = 0]
    /\ chan' = [chan EXCEPT ![d] = 0]
    /\ current' = [current EXCEPT ![d] = 0]
    /\ faults' = faults + 1
    /\ UNCHANGED <<mans, tree, ledger, latest, seen, edits>>

\* AgreementLedger::list_folder: the latest agreement, if the store can still
\* read its manifest.
LatestAgreed(d) == IF latest[d] \in store[d] THEN latest[d] ELSE 0

\* SyncEngine::start: the latest agreement becomes the current manifest and
\* the parent of the next scan; the initial scan always publishes.
Start(d) ==
    LET a == LatestAgreed(d)
        k == Len(mans) + 1
    IN  /\ pc[d] = "off"
        /\ Len(mans) < MaxManifests
        /\ mans' = Append(mans, [dev |-> d, root |-> tree[d], parent |-> a])
        /\ store' = [store EXCEPT ![d] = @ \cup {k}]
        /\ scanRoot' = [scanRoot EXCEPT ![d] = tree[d]]
        /\ parentId' = [parentId EXCEPT ![d] = IF a # 0 THEN a ELSE k]
        /\ chan' = [chan EXCEPT ![d] = 0]
        /\ current' = [current EXCEPT ![d] =
                         IF a # 0 /\ mans[a].root = tree[d] THEN a ELSE k]
        /\ pc' = [pc EXCEPT ![d] = "idle"]
        /\ UNCHANGED <<tree, staged, ledger, latest, peer, dialer, cur, target,
                       basis, todo, hist, edits, faults>>

-----------------------------------------------------------------------------
(* Lineage.                                                                *)

RootOf(id) == IF id = 0 THEN EmptyRoot ELSE mans[id].root

\* The parents is_ancestor visits from m, reading only manifests in S; 0 once
\* the chain ends or leaves S.
Walk(S, m) ==
    LET w[i \in 0 .. LineageDepth] ==
          IF i = 0 THEN mans[m].parent
          ELSE IF w[i - 1] \in S THEN mans[w[i - 1]].parent ELSE 0
    IN  w

IsAncestor(S, a, m) ==
    a = m \/ \E i \in 0 .. LineageDepth - 1 : Walk(S, m)[i] = a

\* The base pull_content and resolve_safe_base arrive at: the manifest agreed
\* with this peer if the store has it and it is an ancestor of both sides.
SafeBase(d) ==
    LET a == ledger[d][peer[d]]
        S == store[d] \cup {target[d]}
    IN  IF a # 0 /\ a \in S /\ IsAncestor(S, a, cur[d]) /\ IsAncestor(S, a, target[d])
        THEN a ELSE 0

\* lineage_newer: creation time decides.
LineageNewer(m, n) == m > n

-----------------------------------------------------------------------------
(* A session.                                                              *)

\* Both ends are still on the connection.
Paired(d) == pc[d] \notin {"off", "idle"} /\ pc[peer[d]] \notin {"off", "idle"}
               /\ peer[peer[d]] = d

\* sync_loop of d, having read its channel, dials e; each holds its session
\* lock from here on.
Connect(d, e) ==
    /\ d # e
    /\ chan[d] = 0
    /\ pc[d] = "idle" /\ pc[e] = "idle"
    /\ pc' = [pc EXCEPT ![d] = "begin", ![e] = "begin"]
    /\ peer' = [peer EXCEPT ![d] = e, ![e] = d]
    /\ dialer' = [dialer EXCEPT ![d] = TRUE, ![e] = FALSE]
    /\ UNCHANGED <<mans, tree, disk, scan, cur, target, basis, todo, hist, edits, faults>>

\* run_session_v1 takes the current manifest without a scan having published
\* (there was nothing new, or the pass missed it).
BeginStale(d) ==
    /\ pc[d] = "begin"
    /\ cur' = [cur EXCEPT ![d] = current[d]]
    /\ pc' = [pc EXCEPT ![d] = "offer"]
    /\ UNCHANGED <<mans, tree, disk, scan, peer, dialer, target, basis, todo,
                   hist, edits, faults>>

\* The scan_once at the start of a session publishes: the result goes to the
\* pointers at once, and to the subscriber as well.
BeginScan(d) ==
    /\ pc[d] = "begin"
    /\ tree[d] # scanRoot[d]
    /\ Publish(d)
    /\ current' = [current EXCEPT ![d] = UpdateFromScan(d, Len(mans) + 1)]
    /\ cur' = [cur EXCEPT ![d] = current'[d]]
    /\ pc' = [pc EXCEPT ![d] = "offer"]
    /\ UNCHANGED <<tree, ledger, latest, peer, dialer, target, basis, todo,
                   hist, edits, faults>>

\* The first offer_round.  When the manifests differ each end pulls once: the
\* initiator first, while the responder serves.
OfferRound(d) ==
    LET e == peer[d] IN
    /\ dialer[d] /\ Paired(d)
    /\ pc[d] = "offer" /\ pc[e] = "offer"
    /\ target' = [target EXCEPT ![d] = cur[e], ![e] = cur[d]]
    /\ pc' = IF cur[d] = cur[e]
             THEN [pc EXCEPT ![d] = "final", ![e] = "final"]
             ELSE [pc EXCEPT ![d] = "pull", ![e] = "serve"]
    /\ UNCHANGED <<mans, tree, disk, scan, peer, dialer, cur, basis, todo,
                   hist, edits, faults>>

\* fetch_blobs of the peer's manifest: in the store, not flushed.
FetchManifest(d) ==
    /\ store' = [store EXCEPT ![d] = @ \cup {target[d]}]
    /\ staged' = [staged EXCEPT ![d] = @ \cup ({target[d]} \ store[d])]

\* EngineHost::adopt: the peer's manifest becomes the current one and the
\* parent of the next scan.
Adopt(d) ==
    /\ parentId' = [parentId EXCEPT ![d] = target[d]]
    /\ current' = [current EXCEPT ![d] = target[d]]
    /\ cur' = [cur EXCEPT ![d] = target[d]]

\* my_pull_stage, equal roots: both ends settle on the newer manifest.
PullEqualRoots(d) ==
    /\ pc[d] = "pull" /\ Paired(d)
    /\ RootOf(target[d]) = RootOf(cur[d])
    /\ FetchManifest(d)
    /\ IF LineageNewer(target[d], cur[d])
       THEN Adopt(d) ELSE UNCHANGED <<parentId, current, cur>>
    /\ pc' = [pc EXCEPT ![d] = "closing"]
    /\ UNCHANGED <<mans, tree, ledger, latest, scanRoot, chan, peer, dialer,
                   target, basis, todo, hist, edits, faults>>

\* my_pull_stage, bootstrap guard: an empty folder is not pulled over files.
PullEmptyPeer(d) ==
    /\ pc[d] = "pull" /\ Paired(d)
    /\ RootOf(target[d]) = EmptyRoot /\ RootOf(cur[d]) # EmptyRoot
    /\ FetchManifest(d)
    /\ pc' = [pc EXCEPT ![d] = "closing"]
    /\ UNCHANGED <<mans, tree, ledger, latest, scan, peer, dialer, cur, target,
                   basis, todo, hist, edits, faults>>

\* pull_content: fetch, find the base, and plan the merge.
PullContent(d) ==
    /\ pc[d] = "pull" /\ Paired(d)
    /\ RootOf(target[d]) # RootOf(cur[d])
    /\ RootOf(target[d]) = EmptyRoot => RootOf(cur[d]) = EmptyRoot
    /\ FetchManifest(d)
    /\ basis' = [basis EXCEPT ![d] = SafeBase(d)]
    /\ pc' = [pc EXCEPT ![d] = "quarantine"]
    /\ UNCHANGED <<mans, tree, ledger, latest, scan, peer, dialer, cur, target,
                   todo, hist, edits, faults>>

-----------------------------------------------------------------------------
(* ConvergenceEngine::converge.                                            *)

Loc(d, n) == RootOf(cur[d])[n]
Rem(d, n) == RootOf(target[d])[n]

Dec(d, n) == Decide(RootOf(basis[d])[n], Loc(d, n), Rem(d, n),
                    mans[cur[d]].dev, mans[target[d]].dev)

\* The version that loses at p, when there is one to keep.
LostVersion(d, p) ==
    IF Dec(d, p) \in Conflicts
    THEN Loser(Dec(d, p), Loc(d, p), Rem(d, p)) ELSE NoEntry

\* The live file still has the content of entry x.
LiveMatches(d, n, x) ==
    IF x = NoEntry \/ tree[d][n] = NoEntry THEN tree[d][n] = x
    ELSE SameContent(tree[d][n], x)

\* read_live_verified of every local loser, before anything is written.
LosersVerified(d) ==
    \A p \in Path : Dec(d, p) = "conflict_remote" /\ Loc(d, p) # NoEntry
                      => LiveMatches(d, p, Loc(d, p))

\* write_loser_copy for every conflict that has a losing version.
Quarantine(d) ==
    /\ pc[d] = "quarantine"
    /\ LosersVerified(d)
    /\ SetTree(d, [n \in Name |->
                     IF \E p \in Path : LostVersion(d, p) # NoEntry
                                          /\ n = <<p, LostVersion(d, p)>>
                     THEN n[2] ELSE tree[d][n]])
    /\ pc' = [pc EXCEPT ![d] = "guard"]
    /\ UNCHANGED <<atGuard, mans, disk, scan, peer, dialer, cur, target, basis, todo,
                   edits, faults>>

\* Applier::run, planning: what has to be done to the live file at n.
Ops(d) ==
    LET changed == {n \in Name : Dec(d, n) \in TakesRemote /\ tree[d][n] # Rem(d, n)}
    IN  {[n |-> n, op |-> IF Rem(d, n) = NoEntry THEN "remove"
                          ELSE IF tree[d][n] # NoEntry /\ SameContent(tree[d][n], Rem(d, n))
                               THEN "touch" ELSE "write"] : n \in changed}

\* Mutant: only removals are guarded.
GuardedRemovals(d) ==
    \A o \in Ops(d) : o.op = "remove" => LiveMatches(d, o.n, Loc(d, o.n))

\* guard_removal and guard_upsert, for everything the plan will touch: the
\* live file is what the local manifest says.  A removal also insists that
\* there is a file to remove.
Guarded(d) ==
    /\ \A o \in Ops(d) : LiveMatches(d, o.n, Loc(d, o.n))
    /\ \A n \in Name : Dec(d, n) \in TakesRemote /\ Rem(d, n) = NoEntry
                         => tree[d][n] # NoEntry

Guard(d) ==
    /\ pc[d] = "guard"
    /\ Guarded(d)
    /\ todo' = [todo EXCEPT ![d] = Ops(d)]
    /\ atGuard' = [atGuard EXCEPT ![d] = tree[d]]
    /\ pc' = [pc EXCEPT ![d] = "write"]
    /\ UNCHANGED <<mans, tree, disk, scan, peer, dialer, cur, target, basis,
                   seen, edits, faults>>

\* MaterializeError::Diverged: the user has been at one of the files; the
\* session fails.
Diverged(d) ==
    /\ \/ pc[d] = "quarantine" /\ ~LosersVerified(d)
       \/ pc[d] = "guard" /\ ~Guarded(d)
    /\ Leave(d)
    /\ UNCHANGED <<mans, tree, disk, scan, seen, edits, faults>>

\* One file operation, removals first.  Nothing is checked again: what is
\* live now is replaced.  A time is restored on whatever is live, and fails
\* when nothing is.
WriteOne(d, o) ==
    /\ pc[d] = "write"
    /\ o \in todo[d]
    /\ o.op # "remove" => \A x \in todo[d] : x.op # "remove"
    /\ o.op = "touch" => tree[d][o.n] # NoEntry
    /\ SetTree(d, [tree[d] EXCEPT ![o.n] =
                     IF o.op = "touch" THEN [@ EXCEPT !.t = Rem(d, o.n).t]
                                       ELSE Rem(d, o.n)])
    /\ todo' = [todo EXCEPT ![d] = @ \ {o}]
    /\ UNCHANGED <<atGuard, mans, disk, scan, pc, peer, dialer, cur, target, basis,
                   edits, faults>>

WriteFails(d) ==
    /\ pc[d] = "write"
    /\ \E o \in todo[d] : o.op = "touch" /\ tree[d][o.n] = NoEntry
    /\ Leave(d)
    /\ UNCHANGED <<mans, tree, disk, scan, seen, edits, faults>>

\* Mutant: a conflict that the local version won counts as clean.
CleanDespiteConflicts(d) == \A n \in Name : Dec(d, n) # "keep_local"

\* The merge kept nothing of this end: the peer's manifest is taken over.
Clean(d) == \A n \in Name : Dec(d, n) \in {"nothing", "apply_remote"}

\* AgreementLedger::record.
Record(d, e, id) ==
    /\ ledger' = [ledger EXCEPT ![d][e] = id]
    /\ latest' = [latest EXCEPT ![d] = id]

\* The end of converge and of my_pull_stage.  A clean merge is recorded as an
\* agreement with the device that made the manifest, on this end alone, and
\* the manifest is adopted.
PullDone(d) ==
    /\ pc[d] = "write" /\ todo[d] = {}
    /\ IF Clean(d)
       THEN Record(d, mans[target[d]].dev, target[d]) /\ Adopt(d)
       ELSE UNCHANGED <<ledger, latest, parentId, current, cur>>
    /\ pc' = [pc EXCEPT ![d] = "closing"]
    /\ basis' = [basis EXCEPT ![d] = 0]
    /\ atGuard' = [atGuard EXCEPT ![d] = EmptyRoot]
    /\ UNCHANGED <<mans, tree, store, staged, scanRoot, chan, peer, dialer,
                   target, todo, seen, edits, faults>>

-----------------------------------------------------------------------------
(* The end of a session.                                                   *)

\* close_stage: the puller's empty request ends the server's stage.
CloseStage(d) ==
    LET e == peer[d] IN
    /\ Paired(d)
    /\ pc[d] = "closing" /\ pc[e] = "serve"
    /\ pc' = IF dialer[d] THEN [pc EXCEPT ![d] = "serve", ![e] = "pull"]
                          ELSE [pc EXCEPT ![d] = "final", ![e] = "final"]
    /\ UNCHANGED <<mans, tree, disk, scan, peer, dialer, cur, target, basis,
                   todo, hist, edits, faults>>

\* The second offer_round: each end learns what the other holds now.
FinalRound(d) ==
    LET e == peer[d] IN
    /\ dialer[d] /\ Paired(d)
    /\ pc[d] = "final" /\ pc[e] = "final"
    /\ target' = [target EXCEPT ![d] = cur[e], ![e] = cur[d]]
    /\ pc' = [pc EXCEPT ![d] = "agree", ![e] = "agree"]
    /\ UNCHANGED <<mans, tree, disk, scan, peer, dialer, cur, basis, todo,
                   hist, edits, faults>>

\* Both ends hold the same manifest: record_agreement, each end for itself.
Agree(d) ==
    /\ pc[d] = "agree" /\ target[d] = cur[d]
    /\ parentId' = [parentId EXCEPT ![d] = cur[d]]
    /\ Record(d, peer[d], cur[d])
    /\ store' = [store EXCEPT ![d] = @ \cup {cur[d]}]
    /\ staged' = [staged EXCEPT ![d] = {}]
    /\ pc' = [pc EXCEPT ![d] = "bye"]
    /\ UNCHANGED <<mans, tree, scanRoot, chan, current, peer, dialer, cur,
                   target, basis, todo, hist, edits, faults>>

\* The manifests differ: the session ends without an agreement.
Disagree(d) ==
    /\ pc[d] = "agree" /\ target[d] # cur[d]
    /\ pc' = [pc EXCEPT ![d] = "bye"]
    /\ UNCHANGED <<mans, tree, disk, scan, peer, dialer, cur, target, basis,
                   todo, hist, edits, faults>>

\* The session is over.  The scan_once that follows it finds nothing new, or
\* publishes: to the subscriber only.
ByeQuiet(d) ==
    /\ pc[d] = "bye"
    /\ Leave(d)
    /\ UNCHANGED <<mans, tree, disk, scan, seen, edits, faults>>

ByeScan(d) ==
    /\ pc[d] = "bye"
    /\ tree[d] # scanRoot[d]
    /\ Publish(d)
    /\ Leave(d)
    /\ UNCHANGED <<tree, ledger, latest, current, seen, edits, faults>>

\* Where an end waits for the network.
Waiting == {"begin", "offer", "pull", "closing", "serve", "final", "bye"}

\* The connection breaks under d; the other end finds out later.
Disconnect(d) ==
    /\ pc[d] \in Waiting /\ Paired(d)
    /\ faults < MaxFaults
    /\ faults' = faults + 1
    /\ Leave(d)
    /\ UNCHANGED <<mans, tree, disk, scan, seen, edits>>

\* d finds the other end gone.
Abandoned(d) ==
    /\ pc[d] \in Waiting /\ ~Paired(d)
    /\ Leave(d)
    /\ UNCHANGED <<mans, tree, disk, scan, seen, edits, faults>>

-----------------------------------------------------------------------------
SessionStep(d) ==
    \/ BeginStale(d) \/ BeginScan(d) \/ OfferRound(d)
    \/ PullEqualRoots(d) \/ PullEmptyPeer(d) \/ PullContent(d)
    \/ Quarantine(d) \/ Guard(d) \/ Diverged(d)
    \/ (\E o \in todo[d] : WriteOne(d, o)) \/ WriteFails(d) \/ PullDone(d)
    \/ CloseStage(d) \/ FinalRound(d) \/ Agree(d) \/ Disagree(d)
    \/ ByeQuiet(d) \/ ByeScan(d) \/ Abandoned(d)

Dial(d) == \E e \in Device : Connect(d, e)

UserStep(d) ==
    \/ \E p \in Path : \E e \in Writes : Edit(d, p, e)
    \/ \E n \in Path \X File : Discard(d, n)

Next ==
    \E d \in Device :
      \/ UserStep(d)
      \/ Start(d) \/ Scan(d) \/ HandleScanUpdate(d)
      \/ Dial(d) \/ SessionStep(d)
      \/ Crash(d) \/ Disconnect(d)

Spec == Init /\ [][Next]_vars

\* The threads keep running: a process is started, a scan pass and a dial
\* come round again (auditor, backstop of sync_loop), a session steps on or
\* times out, and sync_loop reads its channel.
Fairness ==
    /\ \A d \in Device : WF_vars(Start(d)) /\ WF_vars(Scan(d))
    /\ \A d \in Device : WF_vars(HandleScanUpdate(d))
    /\ \A d \in Device : WF_vars(SessionStep(d))
    /\ WF_vars(\E d \in Device : Dial(d))

FairSpec == Spec /\ Fairness

-----------------------------------------------------------------------------
(* Properties.                                                             *)

\* d has had a file with the content of v at n.
Had(d, n, v) == \E w \in seen[d][n] : SameContent(w, v)
HadAll(d, R) == \A n \in Name : R[n] # NoEntry => Had(d, n, R[n])

\* A manifest recorded as agreed between two devices holds nothing that one
\* of them never had: what makes it a base from which "the peer no longer
\* has it" means that the peer deleted it.  The record is written by each
\* end for itself, after a clean merge (converge) or when the second offers
\* match (record_agreement), and survives crashes.
AgreedHad ==
    \A d, e \in Device : ledger[d][e] # 0 =>
      HadAll(d, RootOf(ledger[d][e])) /\ HadAll(e, RootOf(ledger[d][e]))

\* A step of d's session replaces what d has live at n.
Replaced(d, n) ==
    /\ pc[d] = "write"
    /\ todo'[d] # todo[d]
    /\ tree[d][n] # NoEntry
    /\ tree'[d][n] # tree[d][n]

\* Version v at n is not lost when d's session replaces it: the new version
\* has the same content, d has had a conflict copy of it, or the peer has had
\* it.
Kept(d, n, v) ==
    \/ tree'[d][n] # NoEntry /\ SameContent(tree'[d][n], v)
    \/ \E w \in File : SameContent(w, v) /\ n \in Path /\ seen[d][<<n, w>>] # {}
    \/ Had(peer[d], n, v)

\* No session replaces a live file whose content is kept nowhere.
NoSilentLoss ==
    [][\A d \in Device : \A n \in Name : Replaced(d, n) => Kept(d, n, tree[d][n])]_vars

\* The same for every file that was there when Applier::run compared the
\* folder with the local manifest: whatever users, scans, crashes and lost
\* connections do around it, and whatever base the two ends could prove, a
\* file present at that point is replaced only if it is kept.  An unpublished
\* edit that the scanner has not seen yet is one of those files.
GuardedNotLost ==
    [][\A d \in Device : \A n \in Name :
         /\ Replaced(d, n)
         /\ atGuard[d][n] # NoEntry /\ SameContent(tree[d][n], atGuard[d][n])
         => Kept(d, n, tree[d][n])]_vars

\* Every session comes to an end on both sides, whichever end is killed or
\* loses the connection at whichever point.
SessionsEnd ==
    \A d \in Device :
      pc[d] \notin {"idle", "off"} ~> pc[d] \in {"idle", "off"}

\* The event waiting for the subscriber is that of the last pass that
\* published ("latest wins").
PendingIsLatest ==
    \A d \in Device : chan[d] # 0 => RootOf(chan[d]) = scanRoot[d]

\* The folders hold the same files.
InSync ==
    \A d, e \in Device : \A n \in Name :
      \/ tree[d][n] = tree[e][n]
      \/ /\ tree[d][n] # NoEntry /\ tree[e][n] # NoEntry
         /\ SameContent(tree[d][n], tree[e][n])

\* The pointers show the folder as it was last scanned.
Fresh == \A d \in Device : pc[d] # "off" => RootOf(current[d]) = scanRoot[d]

NonEmpty == \A d \in Device : tree[d] # EmptyRoot

\* Users edit finitely often, so the folders end up the same, for good: the
\* merges of successive sessions come to an end.  Left aside are behaviours
\* in which a device keeps offering a superseded manifest (PendingIsLatest),
\* in which a folder stays empty (the bootstrap guard ignores it), and in
\* which the bound on manifests is reached.
Convergence ==
    <>[]Fresh /\ <>[]NonEmpty /\ [](Len(mans) < MaxManifests) => <>[]InSync

-----------------------------------------------------------------------------
(* The inductive invariant behind AgreedHad and GuardedNotLost.            *)

\* A name for a conflict copy holds that version or nothing.
CopyNames(R) == \A n \in Path \X File : R[n] \in {n[2], NoEntry}

\* Manifests: what a device publishes, it has had.
ManifestsHad ==
    \A i \in Id : HadAll(mans[i].dev, mans[i].root) /\ CopyNames(mans[i].root)

\* Ids name manifests, and name one where one is needed.
Refs(d) ==
    /\ \A e \in Device : ledger[d][e] <= Len(mans)
    /\ \A i \in {latest[d], chan[d], parentId[d], current[d], cur[d], target[d],
                  basis[d]} : i <= Len(mans)
    /\ pc[d] # "off" => current[d] # 0
    /\ pc[d] \notin {"off", "idle", "begin"} => cur[d] # 0
    /\ pc[d] \notin {"off", "idle", "begin", "offer"} => target[d] # 0

\* What d has, and what it holds manifests of, it has had.
Holds(d) ==
    /\ \A n \in Name : tree[d][n] # NoEntry => tree[d][n] \in seen[d][n]
    /\ CopyNames(tree[d])
    /\ \A i \in {chan[d], current[d], cur[d]} : HadAll(d, RootOf(i))

\* What d knows of the peer: the base and, at the end, the peer's manifest.
Knows(d) ==
    /\ HadAll(peer[d], RootOf(basis[d]))
    /\ pc[d] = "agree" => HadAll(peer[d], RootOf(target[d]))

\* The conflict copies of d's own versions are made before apply.
Quarantined(d) ==
    pc[d] \in {"guard", "write"} =>
      \A p \in Path : Dec(d, p) = "conflict_remote" /\ Loc(d, p) # NoEntry
                         => seen[d][<<p, Loc(d, p)>>] # {}

\* What is still to be done takes the peer's version, over a file that was
\* the local manifest's; what is not to be written has been there.
Writing(d) ==
    pc[d] = "write" =>
      /\ \A o \in todo[d] :
           /\ Dec(d, o.n) \in TakesRemote
           /\ o.op = "remove" <=> Rem(d, o.n) = NoEntry
           /\ atGuard[d][o.n] # NoEntry
                => Loc(d, o.n) # NoEntry /\ SameContent(atGuard[d][o.n], Loc(d, o.n))
      /\ \A n \in Name :
           /\ Dec(d, n) \in TakesRemote
           /\ Rem(d, n) # NoEntry
           /\ \A o \in todo[d] : o.n = n => o.op = "touch"
           => Had(d, n, Rem(d, n))

Local(d) == Refs(d) /\ Holds(d) /\ Knows(d) /\ Quarantined(d) /\ Writing(d)

Inv == TypeOK /\ ManifestsHad /\ AgreedHad /\ \A d \in Device : Local(d)
=============================================================================

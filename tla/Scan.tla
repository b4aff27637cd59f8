--------------------------------- MODULE Scan ---------------------------------
(***************************************************************************)
(* The scan engine of one folder (ferry-scan) and the snapshot the sync    *)
(* loop takes from it.  Edits of the user reach the engine as watcher      *)
(* events, late or not at all; a debounced worker and callers of scan_once *)
(* run passes under the core lock, one directory entry at a time, while    *)
(* the user goes on editing; a poller watches the root and the subtrees    *)
(* that cannot be watched, and an auditor asks for full passes.            *)
(*                                                                         *)
(* Contents and modification times are numbers of edits.  A tree node is   *)
(* the function from its children to their entries and stands for its own  *)
(* blob id: trees are content addressed.  Size and exec bit go with the    *)
(* modification time.  Signals of a batch only add to the dirty set and    *)
(* set flags, so queues and batches are sets.                              *)
(***************************************************************************)
EXTENDS Naturals, Sequences, SequencesExt, FiniteSets

CONSTANTS Order,        \* the paths, siblings in name order
          MayFile,      \* paths the user writes files at
          MayDir,       \* paths the user makes directories at
          Ignored,      \* paths the IgnorePolicy ignores
          Refused,      \* paths whose names admission refuses
          Disk0,        \* the folder when the engine starts
          Tampers,      \* paths rewritten with the old size and time
          Subscribed,   \* whether a sync loop subscribes
          NoTree,       \* the all-zero root tree id
          MaxEdits,     \* bound: edits by the user
          MaxFaults,    \* bound: overflows, I/O errors, unmounts, audits
          MaxEvents     \* bound: edits and faults together

Paths == ToSet(Order)
Parent(p) == SubSeq(p, 1, Len(p) - 1)
MaxDepth == 3
Under(d) == {p \in Paths : IsPrefix(d, p)}
Threads == {"worker", "caller"}
Absent == [k |-> "absent", c |-> 0, t |-> 0]

VARIABLES disk, mounted, watched, blind, raw, clock, faults,
          queue, polling, cache, built, rootGone, pass, thread, chan, seen,
          unseen, tampered, failed

world == <<disk, mounted, watched, blind, raw, clock, faults>>
core == <<queue, polling, cache, built, rootGone>>
sub == <<chan, seen>>
ghost == <<unseen, tampered, failed>>
vars == <<disk, mounted, watched, blind, raw, clock, faults,
          queue, polling, cache, built, rootGone, pass, thread, chan, seen,
          unseen, tampered, failed>>

-------------------------------------------------------------------------------
(* The from-scratch walk, snapshot_dir: what a pass over a folder that     *)
(* nobody touches must produce.                                            *)

\* admission::admit_name and admit_kind: what a walker puts in a tree.
Admit(p) == p \notin Refused
IsDir(p) == mounted /\ (p = <<>> \/ disk[p].k = "dir")
IsFile(p) == mounted /\ disk[p].k = "file"

\* walk_dir: the names of a directory that are visited.
Visited(d) == {p \in Paths \ {<<>>} : /\ Parent(p) = d /\ disk[p].k # "absent"
                                      /\ p \notin Ignored /\ Admit(p)}

FileEntry(c, t) == [k |-> "file", c |-> c, t |-> t]
DirEntry(n, t) == [k |-> "dir", n |-> n, t |-> t]

\* walk_snapshot, visit and payload without a parent manifest.
Snapshot ==
    LET Node[d \in Paths] ==
          [p \in Visited(d) |->
             IF disk[p].k = "dir" THEN DirEntry(Node[p], disk[p].t)
             ELSE FileEntry(disk[p].c, disk[p].t)]
    IN  Node[<<>>]

-------------------------------------------------------------------------------
(* Policy: what a batch of signals asks for.                               *)

Sig(k, p) == [k |-> k, p |-> p]

\* SignalQueue: what is queued already is not queued twice
Pushed(sigs) == queue \cup sigs

\* policy.rs enclosing_dirs: the path itself and its parent.
EnclosingDirs(p) == IF p = <<>> THEN {<<>>} ELSE {p, Parent(p)}

\* walk.rs close_under_ancestors.
CloseUnderAncestors(S) == {q \in Paths : \E p \in S : IsPrefix(q, p)}

Dirty(batch) == UNION {EnclosingDirs(s.p) : s \in {s \in batch : s.k = "changed"}}
WantsFull(batch) == \E s \in batch : s.k \in {"overflow", "returned", "audit"}

\* PolicyState::apply remembers unwatchable subtrees.
Polled(batch) == polling \cup {s.p : s \in {s \in batch : s.k = "unwatchable"}}

\* classify_watch_error: subtree_of keeps only the last component of the path.
SubtreeOf(p) == <<Last(p)>>

\* abs_to_rel and any_prefix_ignored in the watcher callback.
Heard(p) == \A q \in Ignored : ~ IsPrefix(q, p)

-------------------------------------------------------------------------------
(* The stat sweep of scan_once and the poller.                             *)

Cached(d) == IF d \in DOMAIN cache THEN cache[d] ELSE <<>>
\* A subtree of the last component only may name no path of the folder.
DirAt(p) == p \in Paths /\ IsDir(p)

\* walk.rs reusable, also the comparison of sweep_dir.
Reusable(old, p, t) == p \in DOMAIN old /\ old[p].k = "file" /\ old[p].t = t

BadSweepDir(st) == {p \in Under(st) : /\ p # <<>> /\ disk[p].k = "file" /\ p \notin Ignored
                                      /\ p \notin DOMAIN Cached(Parent(p))}

\* sweep_dir: files of the folder that the cache does not have as they are.
SweepDir(st) == {p \in Under(st) : /\ p # <<>> /\ disk[p].k = "file" /\ p \notin Ignored
                                   /\ ~ Reusable(Cached(Parent(p)), p, disk[p].t)}
\* The second half of stat_sweep: cached entries the folder no longer has.
SweepCache(st) == {d \in DOMAIN cache :
                     /\ IsPrefix(st, d)
                     /\ \E p \in DOMAIN cache[d] : /\ p \notin Ignored
                                                   /\ IF cache[d][p].k = "dir" THEN ~ IsDir(p)
                                                      ELSE disk[p].k = "absent"}

\* stat_sweep: the paths to rescan; a subtree that is no directory gives its parent.
StatSweep(st) == IF ~ DirAt(st) THEN {IF st = <<>> THEN st ELSE Parent(st)}
                 ELSE SweepDir(st) \cup SweepCache(st)

-------------------------------------------------------------------------------
(* Walker: a pass as a stack of open directories.                          *)

NoPass == [who |-> "none"]
NoAwait == [k |-> "none", p |-> <<>>, t |-> 0]

\* The walk order of Walker::run: deepest first, then by name.
DeepestFirst(S) ==
    LET Depth(n) == SelectSeq(Order, LAMBDA p : p \in S /\ Len(p) = n)
    IN  Depth(3) \o Depth(2) \o Depth(1) \o Depth(0)

NewPass(t, full, closed) ==
    [who |-> t, full |-> full, closed |-> closed, todo |-> DeepestFirst(closed),
     cache |-> IF full THEN <<>> ELSE cache, rebuilt |-> <<>>, stack |-> <<>>]

\* DirCache: insert, take and remove_prefix.
Put(f, p, n) == [q \in DOMAIN f \cup {p} |-> IF q = p THEN n ELSE f[q]]
Take(f, p) == [q \in DOMAIN f \ {p} |-> f[q]]
RemovePrefix(f, S) == [q \in {q \in DOMAIN f : \A p \in S : ~ IsPrefix(p, q)} |-> f[q]]

\* splice_absent: the directory is gone, an empty node stands for it.
SpliceAbsent(w, d) == [w EXCEPT !.cache = Put(RemovePrefix(@, {d}), d, <<>>),
                                !.rebuilt = Put(@, d, <<>>)]

\* The start of rebuild_dir: list the directory and take its cached node.
OpenDir(w, d) ==
    IF ~ IsDir(d) THEN SpliceAbsent(w, d)
    ELSE [w EXCEPT !.cache = Take(@, d),
                   !.stack = Append(@,
                      [d |-> d, names |-> SelectSeq(Order, LAMBDA p : p \in Visited(d)),
                       old |-> IF d \in DOMAIN w.cache THEN w.cache[d] ELSE <<>>,
                       got |-> <<>>, await |-> NoAwait])]

Top(w) == Last(w.stack)
SetTop(w, f) == [w EXCEPT !.stack = Front(@) \o <<f>>]
Enter(f, p, e) == [f EXCEPT !.got = Put(@, p, e), !.await = NoAwait]

\* The loop body of rebuild_dir for one name, up to reading a file; ensure_child
\* reuses a node rebuilt in this pass, then the cached one of a directory that is
\* neither dirty nor changed, and rebuilds it otherwise.
VisitName(w) ==
    LET f == [Top(w) EXCEPT !.names = Tail(@)]
        p == Head(Top(w).names)
        e == IF mounted THEN disk[p] ELSE Absent
        changed == IF p \in DOMAIN f.old THEN f.old[p].t # e.t ELSE TRUE
        wait == [f EXCEPT !.await = [k |-> e.k, p |-> p, t |-> e.t]]
    IN  IF e.k = "absent" THEN SetTop(w, f)
        ELSE IF e.k = "file"
          THEN IF Reusable(f.old, p, e.t) THEN SetTop(w, Enter(f, p, f.old[p]))
               ELSE SetTop(w, wait)
        ELSE IF p \in DOMAIN w.rebuilt THEN SetTop(w, Enter(f, p, DirEntry(w.rebuilt[p], e.t)))
        ELSE IF ~ changed /\ p \notin w.closed /\ p \in DOMAIN w.cache
          THEN SetTop(w, Enter(f, p, DirEntry(w.cache[p], e.t)))
        ELSE OpenDir(SetTop(w, wait), p)
\* The end of rebuild_dir: drop cached children that are no longer listed as
\* directories, keep the new node and hand it to the parent's entry.
CloseDir(w) ==
    LET f == Top(w)
        stale == {q \in DOMAIN w.cache : /\ q # <<>> /\ Parent(q) = f.d
                                         /\ ~ (q \in DOMAIN f.got /\ f.got[q].k = "dir")}
    IN  [w EXCEPT !.cache = Put(RemovePrefix(@, stale), f.d, f.got),
                  !.rebuilt = Put(@, f.d, f.got),
                  !.stack = Front(@)]

\* ensure_child has an id for the directory the top frame waits for.
TakeChild(w) ==
    LET a == Top(w).await
    IN  SetTop(w, Enter(Top(w), a.p, DirEntry(w.rebuilt[a.p], a.t)))

\* What follows without looking at the folder again, at most twice per level.
Settled(v) ==
    IF v.stack = <<>> THEN v
    ELSE IF Top(v).await.k = "dir" /\ Top(v).await.p \in DOMAIN v.rebuilt THEN TakeChild(v)
    ELSE IF Top(v).await.k = "none" /\ Top(v).names = <<>> THEN CloseDir(v)
    ELSE v
Settle(w) ==
    LET After(S) == {Settled(v) : v \in S}
    IN  CHOOSE v \in After(After(After(After(After(After({w})))))) : TRUE

-------------------------------------------------------------------------------
Idle == [pc |-> "idle", batch |-> {}, out |-> NoTree]

TypeOK ==
    /\ queue \subseteq [k : {"changed", "overflow", "unwatchable", "audit", "vanished", "returned"},
                        p : Seq(STRING)]
    /\ DOMAIN cache \subseteq Paths
    /\ \A t \in Threads : thread[t].pc \in {"idle", "batch", "walk", "publish", "update", "start", "down"}
    /\ pass = NoPass \/ thread[pass.who].pc = "walk"
    /\ {t \in Threads : thread[t].pc = "walk"} = {pass.who} \ {"none"}
    /\ Len(chan) <= 1

\* watch_with: the first full pass has begun and nothing is watched yet.
Init ==
    /\ disk = Disk0 /\ mounted = TRUE /\ watched = FALSE /\ blind = {} /\ raw = {}
    /\ clock = 0 /\ faults = 0
    /\ queue = {} /\ polling = {} /\ cache = <<>> /\ built = NoTree /\ rootGone = FALSE
    /\ pass = NewPass("caller", TRUE, {<<>>})
    /\ thread = [t \in Threads |-> IF t = "caller" THEN [Idle EXCEPT !.pc = "walk"] ELSE Idle]
    /\ chan = <<>> /\ seen = NoTree
    /\ unseen = FALSE /\ tampered = FALSE /\ failed = FALSE

-------------------------------------------------------------------------------
(* The user and the file system.                                           *)

\* An edit of path p: its event is on its way if a watch covers p.
Edited(p, also) ==
    LET told == {q \in also \cup {p} : watched /\ \A b \in blind : ~ (IsPrefix(b, q) /\ b # q)}
    IN  /\ raw' = raw \cup told
        /\ unseen' = (unseen \/ ~ (also \cup {p} \subseteq told))
        /\ clock' = clock + 1

MayEdit(p) == mounted /\ clock < MaxEdits /\ clock + faults < MaxEvents /\ p \in Paths \ {<<>>} /\ IsDir(Parent(p))

MayFault == faults < MaxFaults /\ clock + faults < MaxEvents

\* Making or removing an entry changes the time of its directory.
Touch(D, d) == IF d = <<>> THEN D ELSE [D EXCEPT ![d].t = clock + 1]

Write(p) ==
    /\ MayEdit(p) /\ disk[p].k # "dir"
    /\ LET D == [disk EXCEPT ![p] = [k |-> "file", c |-> clock + 1, t |-> clock + 1]]
       IN  disk' = IF disk[p].k = "file" THEN D ELSE Touch(D, Parent(p))
    /\ Edited(p, {})
    /\ UNCHANGED <<mounted, watched, blind, faults, core, pass, thread, sub, tampered, failed>>

\* A rewrite of the same length that restores the modification time.
Tamper(p) ==
    /\ MayEdit(p) /\ disk[p].k = "file"
    /\ disk' = [disk EXCEPT ![p].c = clock + 1]
    /\ Edited(p, {})
    /\ tampered' = TRUE
    /\ UNCHANGED <<mounted, watched, blind, faults, core, pass, thread, sub, failed>>

Unlink(p) ==
    /\ MayEdit(p) /\ disk[p].k # "absent"
    /\ disk' = Touch([q \in Paths |-> IF IsPrefix(p, q) THEN Absent ELSE disk[q]], Parent(p))
    /\ blind' = blind \ Under(p)
    /\ Edited(p, {q \in Under(p) : disk[q].k # "absent"})
    /\ UNCHANGED <<mounted, watched, faults, core, pass, thread, sub, tampered, failed>>

\* A new directory; notify's attempt to watch it may run out of watches, which
\* reaches the callback as an error with the directory's path.
Mkdir(p) ==
    /\ MayEdit(p) /\ disk[p].k = "absent"
    /\ disk' = Touch([disk EXCEPT ![p] = [k |-> "dir", c |-> 0, t |-> clock + 1]], Parent(p))
    /\ Edited(p, {})
    /\ \/ UNCHANGED <<blind, queue>>
       \/ /\ watched
          /\ blind' = blind \cup {p}
          /\ queue' = Pushed({Sig("unwatchable", SubtreeOf(p))})
    /\ UNCHANGED <<mounted, watched, faults, polling, cache, built, rootGone, pass, thread, sub,
                   tampered, failed>>

\* The volume goes away, and with it every watch; later it comes back as it was.
Unmount ==
    /\ mounted /\ MayFault /\ faults' = faults + 1
    /\ mounted' = FALSE /\ watched' = FALSE /\ raw' = {} /\ unseen' = TRUE
    /\ UNCHANGED <<disk, blind, clock, core, pass, thread, sub, tampered, failed>>

Mount ==
    /\ ~ mounted /\ mounted' = TRUE
    /\ UNCHANGED <<disk, watched, blind, raw, clock, faults, core, pass, thread, sub, ghost>>

-------------------------------------------------------------------------------
(* The watcher callback.                                                   *)

\* watch_with gave up on its initial pass; the engine is started again.
WatchAgain ==
    /\ thread["caller"].pc = "down" /\ mounted
    /\ pass' = NewPass("caller", TRUE, {<<>>})
    /\ thread' = [thread EXCEPT !["caller"].pc = "walk"]
    /\ unseen' = FALSE /\ tampered' = FALSE
    /\ UNCHANGED <<world, core, sub, failed>>

\* The end of watch_with: the recursive watch starts after the initial pass.
SpawnWatcher ==
    /\ ~ watched /\ mounted /\ pass = NoPass /\ thread["caller"].pc = "start"
    /\ watched' = TRUE
    /\ thread' = [thread EXCEPT !["caller"] = Idle]
    /\ seen' = IF Subscribed THEN built ELSE NoTree
    /\ UNCHANGED <<disk, mounted, blind, raw, clock, faults, core, pass, chan, ghost>>

WatchEvent(p) ==
    /\ p \in raw /\ raw' = raw \ {p}
    /\ queue' = IF Heard(p) THEN Pushed({Sig("changed", p)}) ELSE queue
    /\ UNCHANGED <<disk, mounted, watched, blind, clock, faults, polling, cache, built, rootGone,
                   pass, thread, sub, ghost>>

BadWatchLoss ==
    /\ raw # {} /\ MayFault /\ faults' = faults + 1
    /\ raw' = {}
    /\ UNCHANGED <<disk, mounted, watched, blind, clock, core, pass, thread, sub, ghost>>

\* The kernel queue overflows: what was on its way is lost, and the callback
\* is told of the loss.
WatchLoss ==
    /\ raw # {} /\ MayFault /\ faults' = faults + 1
    /\ raw' = {}
    /\ queue' = Pushed({Sig("overflow", <<>>)})
    /\ UNCHANGED <<disk, mounted, watched, blind, clock, polling, cache, built, rootGone,
                   pass, thread, sub, ghost>>
-------------------------------------------------------------------------------
(* The worker, the callers of scan_once, the poller and the auditor.       *)

Busy == thread["caller"].pc \notin {"start", "down"} /\ built # NoTree

\* wait_nonempty and drain; every later arrival within the quiet window extends
\* the batch.
WorkerDrain ==
    /\ Busy /\ queue # {} /\ thread["worker"].pc \in {"idle", "batch"}
    /\ thread' = [thread EXCEPT !["worker"].pc = "batch", !["worker"].batch = @ \cup queue]
    /\ queue' = {}
    /\ UNCHANGED <<world, polling, cache, built, rootGone, pass, sub, ghost>>

\* execute_inner and the start of run_full or run_incremental: the batch becomes
\* a pass, under the core lock, unless it asks for nothing or the root is gone.
Execute(t, batch) ==
    LET full == WantsFull(batch)
        none == ~ full /\ Dirty(batch) = {}
        closed == IF full THEN {<<>>} ELSE CloseUnderAncestors(Dirty(batch))
        run == ~ none /\ mounted
    IN  /\ pass = NoPass
        /\ polling' = Polled(batch)
        /\ pass' = IF run THEN NewPass(t, full, closed) ELSE NoPass
        /\ thread' = [thread EXCEPT ![t] = IF run THEN [Idle EXCEPT !.pc = "walk"] ELSE Idle]
        /\ rootGone' = (rootGone \/ (~ none /\ ~ mounted))
        /\ unseen' = IF run THEN unseen /\ ~ full ELSE unseen \/ ~ none
        /\ tampered' = (tampered /\ ~ (run /\ full))
        /\ UNCHANGED <<world, cache, built, sub, failed>>

WorkerExecute ==
    /\ thread["worker"].pc = "batch"
    /\ Execute("worker", thread["worker"].batch)
    /\ UNCHANGED queue

\* scan_once: drain the queue, and sweep only if it was empty.
ScanOnce ==
    /\ Busy /\ thread["caller"].pc = "idle"
    /\ Execute("caller", IF queue # {} THEN queue
                         ELSE {Sig("changed", p) : p \in StatSweep(<<>>)})
    /\ queue' = {}
BadScanOnce ==
    /\ Busy /\ thread["caller"].pc = "idle"
    /\ Execute("caller", queue)
    /\ queue' = {}

\* One step of the walk that cannot fail: the next directory of the order, or
\* the next name of the directory being listed.
WalkStep ==
    /\ pass # NoPass
    /\ \/ /\ pass.stack = <<>> /\ pass.todo # <<>>
          /\ Head(pass.todo) = <<>> => mounted
          /\ pass' = LET w == [pass EXCEPT !.todo = Tail(@)]
                     IN  IF Head(pass.todo) \in DOMAIN pass.rebuilt THEN w
                         ELSE Settle(OpenDir(w, Head(pass.todo)))
       \/ /\ pass.stack # <<>> /\ Top(pass).await.k = "none"
          /\ pass' = Settle(VisitName(pass))
    /\ UNCHANGED <<world, core, thread, sub, ghost>>

\* stream_file_chunks reads the content some time after the stat.
ReadFile ==
    /\ pass # NoPass /\ pass.stack # <<>> /\ Top(pass).await.k = "file"
    /\ LET a == Top(pass).await
       IN  /\ IsFile(a.p)
           /\ pass' = Settle(SetTop(pass, Enter(Top(pass), a.p, FileEntry(disk[a.p].c, a.t))))
    /\ UNCHANGED <<world, core, thread, sub, ghost>>

\* deliver and Subscriber::offer: a full channel keeps what it has.
Offer(ev) == chan' = IF Subscribed /\ chan = <<>> THEN <<ev>> ELSE chan
\* An error leaves the pass through `?`: the signals it was run for are gone, an
\* incremental pass leaves the cache as far as it came, the worker reports it.
Abandon ==
    /\ cache' = IF pass.full THEN cache ELSE pass.cache
    /\ pass' = NoPass
    /\ thread' = [thread EXCEPT ![pass.who] = IF built = NoTree THEN [Idle EXCEPT !.pc = "down"] ELSE Idle]
    /\ IF pass.who = "worker" THEN Offer([k |-> "failed", n |-> <<>>]) ELSE UNCHANGED chan
    /\ unseen' = TRUE /\ failed' = TRUE
    /\ UNCHANGED <<disk, mounted, watched, blind, raw, clock, queue, polling, built, rootGone,
                   seen, tampered>>

\* A file that was listed is gone when it is opened, or the root is.
FailPass ==
    /\ pass # NoPass
    /\ \/ pass.stack # <<>> /\ Top(pass).await.k = "file" /\ ~ IsFile(Top(pass).await.p)
       \/ pass.stack = <<>> /\ pass.todo # <<>> /\ Head(pass.todo) = <<>> /\ ~ mounted
    /\ UNCHANGED faults
    /\ Abandon

\* Any other error of the file system or the store.
IoError ==
    /\ pass # NoPass
    /\ MayFault /\ faults' = faults + 1
    /\ Abandon

\* After publishing, the session that called scan_once takes the snapshot over,
\* the call after a session ignores it, and the worker goes on.
AfterPublish(t, tree) ==
    \/ thread' = [thread EXCEPT ![t] = Idle]
    \/ t = "caller" /\ thread' = [thread EXCEPT ![t] = [Idle EXCEPT !.pc = "update", !.out = tree]]

\* The end of Walker::run and of run_full, which publishes under the core lock,
\* and run_incremental, which publishes after it.
FinishPass ==
    /\ pass # NoPass /\ pass.stack = <<>> /\ pass.todo = <<>>
    /\ LET tree == pass.rebuilt[<<>>]
           t == pass.who
       IN  /\ cache' = pass.cache
           /\ built' = tree
           /\ \/ /\ tree = built /\ UNCHANGED chan
                 /\ thread' = [thread EXCEPT ![t] = Idle]
              \/ /\ tree # built /\ pass.full /\ built # NoTree
                 /\ Offer([k |-> "updated", n |-> tree])
                 /\ AfterPublish(t, tree)
              \/ /\ built = NoTree /\ UNCHANGED chan
                 /\ thread' = [thread EXCEPT ![t] = [Idle EXCEPT !.pc = "start"]]
              \/ /\ tree # built /\ ~ pass.full /\ UNCHANGED chan
                 /\ thread' = [thread EXCEPT ![t] = [Idle EXCEPT !.pc = "publish", !.out = tree]]
    /\ pass' = NoPass /\ failed' = FALSE
    /\ UNCHANGED <<world, queue, polling, rootGone, seen, unseen, tampered>>

Publish(t) ==
    /\ thread[t].pc = "publish"
    /\ Offer([k |-> "updated", n |-> thread[t].out])
    /\ AfterPublish(t, thread[t].out)
    /\ UNCHANGED <<world, core, pass, seen, ghost>>

\* handle_scan_update in the session thread.
UpdateFolder ==
    /\ thread["caller"].pc = "update"
    /\ seen' = IF Subscribed THEN thread["caller"].out ELSE seen
    /\ thread' = [thread EXCEPT !["caller"] = Idle]
    /\ UNCHANGED <<world, core, pass, chan, ghost>>

\* The sync loop's receive.
SyncLoopRecv ==
    /\ chan # <<>> /\ chan' = <<>>
    /\ seen' = IF chan[1].k = "updated" THEN chan[1].n ELSE seen
    /\ UNCHANGED <<world, core, pass, thread, ghost>>

\* One tick of the poller: the root first, else a sweep of each polled subtree.
Poll ==
    /\ Busy /\ pass = NoPass
    /\ LET gone == ~ mounted
       IN  /\ rootGone' = gone
           /\ queue' = Pushed(
                 IF gone # rootGone THEN {Sig(IF gone THEN "vanished" ELSE "returned", <<>>)}
                 ELSE {Sig("changed", p) : p \in UNION {StatSweep(st) : st \in polling}})
    /\ UNCHANGED <<world, polling, cache, built, pass, thread, sub, ghost>>

AuditDue ==
    /\ Busy
    /\ MayFault /\ faults' = faults + 1
    /\ queue' = Pushed({Sig("audit", <<>>)})
    /\ UNCHANGED <<disk, mounted, watched, blind, raw, clock, polling, cache, built, rootGone, pass, thread, sub, ghost>>

Next ==
    \/ \E p \in MayFile : Write(p) \/ Unlink(p)
    \/ \E p \in Tampers : Tamper(p)
    \/ \E p \in MayDir : Unlink(p) \/ Mkdir(p)
    \/ Unmount \/ Mount
    \/ WatchAgain \/ SpawnWatcher \/ WatchLoss \/ \E p \in Paths : WatchEvent(p)
    \/ WorkerDrain \/ WorkerExecute \/ ScanOnce
    \/ \E t \in Threads : Publish(t)
    \/ WalkStep \/ ReadFile \/ FailPass \/ FinishPass \/ IoError
    \/ UpdateFolder \/ SyncLoopRecv \/ Poll \/ AuditDue

Walking == WalkStep \/ ReadFile \/ FailPass \/ FinishPass
Telling == SpawnWatcher \/ UpdateFolder \/ SyncLoopRecv \/ \E t \in Threads : Publish(t)

\* A pass and what follows it go on, the worker drains the queue, and the session
\* loop comes back to scan_once, not always between a signal and its drain.
\* Nothing is assumed of the user, the kernel, the faults or the daily audit.
Fairness ==
    /\ WF_vars(Walking) /\ WF_vars(Telling) /\ WF_vars(WorkerDrain)
    /\ SF_vars(queue = {} /\ ScanOnce)

-------------------------------------------------------------------------------
(* Properties.                                                             *)

Quiet == pass = NoPass /\ queue = {} /\ raw = {} /\ \A t \in Threads : thread[t].pc = "idle"

\* Once every event has been handled and no pass runs, the tree the engine has
\* built is the one a from-scratch snapshot of the folder would give, although
\* the passes reused cached nodes and chunks, read files after they had looked
\* at their times, and ran while the folder was being edited.  What no event
\* announced (before the watch, below an unwatchable directory, after the volume
\* was away), what an edit hid behind an old time and what a failed pass dropped
\* is left out until the next full pass.
NothingMissed == Quiet /\ mounted /\ ~ unseen /\ ~ tampered => built = Snapshot

\* The files of a tree with their contents.
EntryAt(tree, p) ==
    LET E[q \in Paths] ==
          IF q = <<>> THEN DirEntry(tree, 0)
          ELSE LET up == E[Parent(q)]
               IN  IF up.k = "dir" THEN IF q \in DOMAIN up.n THEN up.n[q] ELSE Absent ELSE Absent
    IN  E[p]
Contents(tree) == [p \in MayFile |-> IF EntryAt(tree, p).k = "file" THEN EntryAt(tree, p).c ELSE 0]

\* After the last edit the engine comes to the contents of every file in the
\* folder without waiting for an audit, whatever was lost on the way: events,
\* watches or the volume: scan_once with an empty queue sweeps.  A pass that
\* failed is repaired by the next one that ends, whatever that is for: the cache
\* it leaves may be ahead of the tree, and then no sweep finds the difference.
FilesHeal == <>[](mounted /\ ~ tampered /\ ~ failed /\ built # NoTree
                    => Contents(built) = Contents(Snapshot))

Spec == Init /\ [][Next]_vars
FairSpec == Spec /\ Fairness
===============================================================================

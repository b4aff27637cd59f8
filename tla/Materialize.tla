----------------------------- MODULE Materialize -----------------------------
(***************************************************************************)
(* ConvergenceEngine::converge carries a plan of module Reconcile out on    *)
(* the disk (crates/ferry-sync-engine/src/converge.rs and                   *)
(* crates/ferry-materialize/src/apply.rs): conflict copies first, then the  *)
(* guarded removals, writes and directory times of the Applier, one system  *)
(* call at a time, while the user works in the folder, an operation fails   *)
(* or the process dies.  Modules ReconcilePair, FolderSync and Pins take    *)
(* all this for one step, Applied; property Installed says that it is.      *)
(*                                                                          *)
(* The content of an entry stands for its bytes and its exec bit.  The      *)
(* process syncs one peer whose base it can prove (see FolderSync for the   *)
(* others), and no user puts a symlink where the plan needs a directory.    *)
(***************************************************************************)
EXTENDS Reconcile, SequencesExt

CONSTANTS
    Order,        \* the paths in the order of CompPath's Ord
    Cases,        \* [base, disk, remote]: where a behaviour starts
    Torn,         \* the content of a file that is not completely written
    Now,          \* the time a directory gets when an entry comes or goes
    Edits,        \* what a user puts at a path
    MaxMerges,    \* bounds on merges, and on edits, crashes and failures together
    MaxEdits,
    MaxBreaks

ASSUME OrderAssumption == {Order[i] : i \in DOMAIN Order} = Path

Self == 1
Peer == 2

VARIABLES
    disk,      \* the live folder
    temps,     \* temporary files: the entry that each is written for
    copies,    \* conflict copies: <<path, losing version>>
    agreed,    \* the agreed tree, the base of the next merge
    remote,    \* the tree that the peer offers
    job,       \* the merge in progress
    count,     \* merges, edits and breaks so far
    goal       \* history: what the merge that started last is to lead to

vars == <<disk, temps, copies, agreed, remote, job, count, goal>>

-----------------------------------------------------------------------------
(* The file system.                                                        *)

Parent(p) == SubSeq(p, 1, Len(p) - 1)
Below(p) == {q \in Path : p \in Ancestors(q)}
Children(T, p) == {q \in Below(p) : Len(q) = Len(p) + 1 /\ T[q] # NoEntry}
HasParent(T, p) == \A a \in Ancestors(p) : IsDir(T[a])

\* An entry comes, changes or goes: its directory gets the current time.
Put(T, p, e) ==
    [q \in Path |-> IF q = p THEN e
                    ELSE IF Len(p) > 1 /\ q = Parent(p) THEN [T[q] EXCEPT !.t = Now]
                    ELSE T[q]]

\* set_mtime on a file or a directory.
Stamp(T, p, t) == [T EXCEPT ![p].t = t]

Holds(e, x) == e # NoEntry /\ SameContent(e, x)

-----------------------------------------------------------------------------
(* The change set and the plan of Applier::run.                            *)

\* What a path is to become: the remote entry, or the directory rebuilt for a
\* surviving descendant.
Result(j, p) == IF p \in j.plan.synth THEN j.base[p] ELSE j.remote[p]

Changed(j) == j.plan.materialize \cup j.plan.synth

\* fold_into_change_set: an entry that is to go, or to change its type, is
\* removed first; a directory with everything in it.
RemovedPaths(j) ==
    {p \in j.plan.materialize \ j.plan.synth :
       j.remote[p] = NoEntry \/ Retyped(j.base[p], j.remote[p])}
UpsertedPaths(j) == {p \in Changed(j) : Result(j, p) # NoEntry}
Deep(j, p) == IsDir(j.base[p])

Ascending(S) == SelectSeq(Order, LAMBDA p : p \in S)
Descending(S) == Reverse(Ascending(S))

\* plan_upsert: what has to be done for p, given what is there.
PlanUpsert(j, p, T) ==
    IF p \in RemovedPaths(j) \/ ~Holds(T[p], Result(j, p)) THEN "write"
    ELSE IF IsDir(T[p]) THEN "touch"
    ELSE IF T[p].t # Result(j, p).t THEN "times" ELSE "skip"

\* Base::lookup in the manifest that Overwrite::Expect was given.
Expected(j, p) == j.local[p]

\* check_live_matches: a directory matches a directory.
LiveMatches(T, p, x) == T[p] # NoEntry /\ SameContent(T[p], x)

\* The temporaries in the directories from p down; their names are like any
\* other to a listing.
TempsIn(p) == {k \in temps : p \in Ancestors(k[1])}

\* verify_subtree_matches_base: everything below p is as the expected tree says,
\* except that a directory may stand where a file is expected; a temporary that
\* was left there is in no tree.
SubtreeMatches(j, p, T) ==
    /\ TempsIn(p) = {}
    /\ \A q \in Below(p) :
         /\ (T[q] = NoEntry) = (Expected(j, q) = NoEntry)
         /\ T[q] # NoEntry /\ ~IsDir(T[q]) => LiveMatches(T, q, Expected(j, q))

\* Mutant: the subtree that is going to be removed is not compared.
GuardRemovalShallow(j, p, T) ==
    Expected(j, p) # NoEntry /\ T[p] # NoEntry /\ LiveMatches(T, p, Expected(j, p))

\* guard_removal
GuardRemoval(j, p, T) ==
    /\ Expected(j, p) # NoEntry /\ T[p] # NoEntry
    /\ T[p].kind = Expected(j, p).kind
    /\ IF Deep(j, p) /\ IsDir(T[p]) THEN SubtreeMatches(j, p, T)
                                    ELSE LiveMatches(T, p, Expected(j, p))

\* guard_upsert: where a directory is expected anything may be live.
GuardUpsert(j, p, T) ==
    IF Expected(j, p) = NoEntry THEN T[p] = NoEntry
    ELSE T[p] # NoEntry /\ (IsDir(Expected(j, p)) \/ LiveMatches(T, p, Expected(j, p)))

-----------------------------------------------------------------------------
(* The state.                                                              *)

Idle == [pc |-> "idle"]

\* the temporary beside p written for entry e; its random name is abstracted
TempFor(p, e) == <<p, e>>

Tree == [Path -> Entry \cup {NoEntry}]

TypeOK ==
    /\ disk \in Tree /\ agreed \in Tree /\ remote \in Tree
    /\ temps \subseteq (Path \X Entry)
    /\ copies \subseteq (Path \X Entry)
    /\ job.pc \in {"idle", "verify", "copy", "link", "plan", "guard", "remove", "clear",
                   "upsert", "temp", "rename", "settime", "touch", "agree"}
    /\ count \in [merges : 0 .. MaxMerges, edits : 0 .. MaxEdits, breaks : 0 .. MaxBreaks]

Init ==
    /\ \E c \in Cases : agreed = c.base /\ disk = c.disk /\ remote = c.remote
    /\ temps = {} /\ copies = {}
    /\ job = Idle
    /\ count = [merges |-> 0, edits |-> 0, breaks |-> 0]
    /\ goal = [tree |-> disk, copies |-> {}, edits |-> -1]

Goto(pc) == job' = [job EXCEPT !.pc = pc]

\* A `?` returns the error: what has been done so far stays.
Fails == job' = Idle

-----------------------------------------------------------------------------
(* Planning and the conflict copies.                                       *)

\* Mutant: the agreement is recorded before the plan is carried out.
MergeAgreesFirst ==
    /\ job.pc = "idle" /\ count.merges < MaxMerges
    /\ LET plan == Plan(agreed, disk, remote, Self, Peer)
       IN  /\ ~plan.structural
           /\ job' = [pc |-> "verify", base |-> agreed, local |-> disk, remote |-> remote,
                      plan |-> plan, copy |-> Ascending(plan.quarantine),
                      remove |-> <<>>, upsert |-> <<>>, times |-> {}, touches |-> {}, stack |-> <<>>,
                      edits |-> count.edits, at |-> disk]
           /\ goal' = IF goal.edits = count.edits THEN goal
                      ELSE [tree |-> Applied(plan, agreed, disk, remote),
                            copies |-> copies \cup Copies(plan), edits |-> count.edits]
    /\ count' = [count EXCEPT !.merges = @ + 1]
    /\ agreed' = remote
    /\ UNCHANGED <<disk, temps, copies, remote>>

\* The folder is scanned and merged with what the peer offers; a structural
\* conflict is refused.  A merge that takes an interrupted one up has its goal.
\* `at` is history, the folder when the guards passed.
Merge ==
    /\ job.pc = "idle" /\ count.merges < MaxMerges
    /\ LET plan == Plan(agreed, disk, remote, Self, Peer)
       IN  /\ ~plan.structural
           /\ job' = [pc |-> "verify", base |-> agreed, local |-> disk, remote |-> remote,
                      plan |-> plan, copy |-> Ascending(plan.quarantine),
                      remove |-> <<>>, upsert |-> <<>>, times |-> {}, touches |-> {}, stack |-> <<>>,
                      edits |-> count.edits, at |-> disk]
           /\ goal' = IF goal.edits = count.edits THEN goal
                      ELSE [tree |-> Applied(plan, agreed, disk, remote),
                            copies |-> copies \cup Copies(plan), edits |-> count.edits]
    /\ count' = [count EXCEPT !.merges = @ + 1]
    /\ UNCHANGED <<disk, temps, copies, agreed, remote>>

LosesLocal(j, p) == j.plan.dec[p] = "conflict_remote"

\* The local versions that will lose are read and compared with the manifest.
ReadLiveVerified ==
    /\ job.pc = "verify"
    /\ IF \A p \in job.plan.quarantine :
            LosesLocal(job, p) /\ job.plan.lost[p].kind = "file" => LiveMatches(disk, p, job.plan.lost[p])
       THEN Goto("copy") ELSE Fails
    /\ UNCHANGED <<disk, temps, copies, agreed, remote, count, goal>>

\* write_loser_copy and build_tmp: a symlink is looked at again only now.
BuildTmp ==
    /\ job.pc = "copy" /\ job.copy # <<>>
    /\ LET p == Head(job.copy)
           v == job.plan.lost[p]
           T == IF HasParent(disk, p) THEN disk
                ELSE Put(disk, Parent(p), [kind |-> "dir", c |-> 0, t |-> Now])
       IN  IF \/ ~HasParent(disk, p) /\ disk[Parent(p)] # NoEntry
              \/ LosesLocal(job, p) /\ v.kind = "symlink" /\ ~LiveMatches(disk, p, v)
           THEN Fails /\ UNCHANGED <<disk, temps>>
           ELSE /\ disk' = T
                /\ temps' = temps \cup {TempFor(p, v)}
                /\ Goto("link")
    /\ UNCHANGED <<copies, agreed, remote, count, goal>>

\* rename_exclusive: the name is linked, then the temporary removed.
LinkCopy ==
    /\ job.pc = "link"
    /\ LET k == TempFor(Head(job.copy), job.plan.lost[Head(job.copy)])
       IN  IF k \in temps
           THEN /\ copies' = copies \cup {k}
                /\ temps' = temps \ {k}
                /\ job' = [job EXCEPT !.pc = "copy", !.copy = Tail(@)]
           ELSE Fails /\ UNCHANGED <<copies, temps>>
    /\ UNCHANGED <<disk, agreed, remote, count, goal>>

-----------------------------------------------------------------------------
(* Applier::run.                                                           *)

\* The mutations are chosen from what is on disk; nothing to do, no run.
PlanUpserts ==
    /\ job.pc = "copy" /\ job.copy = <<>>
    /\ LET ps == UpsertedPaths(job)
           do == [p \in ps |-> PlanUpsert(job, p, disk)]
       IN  job' = [job EXCEPT
             !.pc = IF Changed(job) = {} THEN "agree" ELSE "guard",
             !.remove = Descending(RemovedPaths(job)),
             !.upsert = SelectSeq(Ascending(ps), LAMBDA p : do[p] \in {"write", "times"}),
             !.times = {p \in ps : do[p] = "times"},
             !.touches = {p \in ps : do[p] = "touch"}]
    /\ UNCHANGED <<disk, temps, copies, agreed, remote, count, goal>>

GuardsPass ==
    /\ \A p \in RemovedPaths(job) : GuardRemoval(job, p, disk)
    /\ \A i \in DOMAIN job.upsert : GuardUpsert(job, job.upsert[i], disk)

\* Overwrite::Expect: all or nothing.
Guard ==
    /\ job.pc = "guard"
    /\ IF GuardsPass
       THEN job' = [job EXCEPT !.pc = "remove", !.at = disk]
       ELSE Fails
    /\ UNCHANGED <<disk, temps, copies, agreed, remote, count, goal>>

Frame(p) == [dir |-> p, rest |-> {<<q, IsDir(disk[q])>> : q \in Children(disk, p)}]

\* execute_remove
ExecuteRemove ==
    /\ job.pc = "remove" /\ job.remove # <<>>
    /\ LET p == Head(job.remove)
           rest == [job EXCEPT !.remove = Tail(@)]
       IN  \/ /\ disk[p] = NoEntry
              /\ job' = rest /\ UNCHANGED disk
           \/ /\ disk[p] # NoEntry /\ ~IsDir(disk[p])
              /\ disk' = Put(disk, p, NoEntry) /\ job' = rest
           \/ /\ IsDir(disk[p]) /\ Deep(job, p)
              /\ job' = [rest EXCEPT !.pc = "clear", !.stack = <<Frame(p)>>]
              /\ UNCHANGED disk
           \/ /\ IsDir(disk[p]) /\ ~Deep(job, p)
              /\ IF Children(disk, p) = {} /\ TempsIn(p) = {}
                 THEN disk' = Put(disk, p, NoEntry) /\ job' = rest
                 ELSE Fails /\ UNCHANGED disk
    /\ UNCHANGED <<temps, copies, agreed, remote, count, goal>>

Popped == LET s == Front(job.stack)
          IN  [job EXCEPT !.stack = s, !.pc = IF s = <<>> THEN "remove" ELSE "clear"]

\* remove_dir_children_first: one entry of the listing, or the directory itself
\* when the listing is done (with the temporaries that were in the listing).
ClearStep ==
    /\ job.pc = "clear"
    /\ LET top == Last(job.stack)
           n == Len(job.stack)
       IN  \/ /\ top.rest = {}
              /\ IF IsDir(disk[top.dir]) /\ Children(disk, top.dir) = {}
                 THEN /\ disk' = Put(disk, top.dir, NoEntry) /\ job' = Popped
                      /\ temps' = temps \ TempsIn(top.dir)
                 ELSE Fails /\ UNCHANGED <<disk, temps>>
           \/ /\ UNCHANGED temps
              /\ \E k \in top.rest :
                   LET less == [job EXCEPT !.stack[n].rest = @ \ {k}]
                   IN  IF k[2] THEN /\ job' = [less EXCEPT !.stack = Append(@, Frame(k[1]))]
                                    /\ UNCHANGED disk
                       ELSE IF disk[k[1]] = NoEntry \/ IsDir(disk[k[1]]) THEN Fails /\ UNCHANGED disk
                       ELSE disk' = Put(disk, k[1], NoEntry) /\ job' = less
    /\ UNCHANGED <<copies, agreed, remote, count, goal>>

RemovesDone ==
    /\ job.pc = "remove" /\ job.remove = <<>>
    /\ Goto("upsert")
    /\ UNCHANGED <<disk, temps, copies, agreed, remote, count, goal>>

Next1(j) == [j EXCEPT !.upsert = Tail(@), !.pc = "upsert"]

\* Mutant: a directory gets its time when it is made.
MkdirTouchesAtOnce(p) ==
    /\ IF ~HasParent(disk, p) THEN Fails /\ UNCHANGED disk
       ELSE /\ disk' = Put(disk, p, Result(job, p))
            /\ job' = Next1(job)
    /\ UNCHANGED temps

\* Mutation::Mkdir: a file that is in the way goes.
Mkdir(p) ==
    /\ IF ~HasParent(disk, p) THEN Fails /\ UNCHANGED disk
       ELSE /\ disk' = IF IsDir(disk[p]) THEN disk
                       ELSE Put(disk, p, [Result(job, p) EXCEPT !.t = Now])
            /\ job' = [Next1(job) EXCEPT !.touches = @ \cup {p}]
    /\ UNCHANGED temps

\* Mutation::RestoreMtime, RestoreSymlinkMtime
RestoreMtime(p) ==
    /\ IF disk[p] = NoEntry THEN Fails /\ UNCHANGED disk
       ELSE disk' = Stamp(disk, p, Result(job, p).t) /\ job' = Next1(job)
    /\ UNCHANGED temps

\* Mutant: a file is written in place.
CreateInPlace(p) ==
    /\ IF ~HasParent(disk, p) \/ IsDir(disk[p]) THEN Fails /\ UNCHANGED disk
       ELSE /\ disk' = Put(disk, p, [Result(job, p) EXCEPT !.c = Torn])
            /\ Goto("temp")
    /\ UNCHANGED temps

\* Mutation::WriteFile, WriteSymlink: a directory in the way is cleared, then a
\* temporary is created beside the destination.
CreateTemp(p) ==
    IF IsDir(disk[p])
    THEN /\ job' = [job EXCEPT !.pc = "clear", !.stack = <<Frame(p)>>]
         /\ UNCHANGED <<disk, temps>>
    ELSE IF ~HasParent(disk, p) THEN Fails /\ UNCHANGED <<disk, temps>>
    ELSE /\ temps' = temps \cup {TempFor(p, [Result(job, p) EXCEPT !.c = Torn])}
         /\ Goto("temp")
         /\ UNCHANGED disk

\* execute_upsert, up to the rename.
ExecuteUpsert ==
    /\ job.pc = "upsert" /\ job.upsert # <<>>
    /\ LET p == Head(job.upsert)
       IN  \/ p \in job.times /\ RestoreMtime(p)
           \/ p \notin job.times /\ IsDir(Result(job, p)) /\ Mkdir(p)
           \/ p \notin job.times /\ ~IsDir(Result(job, p)) /\ CreateTemp(p)
    /\ UNCHANGED <<copies, agreed, remote, count, goal>>

\* The chunks, the time and the read-back of write_temp_then_rename.
FillTemp ==
    /\ job.pc = "temp"
    /\ LET p == Head(job.upsert)
           torn == TempFor(p, [Result(job, p) EXCEPT !.c = Torn])
       IN  IF torn \in temps
           THEN temps' = (temps \ {torn}) \cup {TempFor(p, Result(job, p))} /\ Goto("rename")
           ELSE Fails /\ UNCHANGED temps
    /\ UNCHANGED <<disk, copies, agreed, remote, count, goal>>

\* rename and fsync of the directory; a symlink gets its time afterwards.
RenameTemp ==
    /\ job.pc = "rename"
    /\ LET p == Head(job.upsert)
           e == Result(job, p)
           link == e.kind = "symlink"
       IN  /\ temps' = temps \ {TempFor(p, e)}
           /\ IF TempFor(p, e) \in temps /\ HasParent(disk, p) /\ ~IsDir(disk[p])
              THEN /\ disk' = Put(disk, p, IF link THEN [e EXCEPT !.t = Now] ELSE e)
                   /\ job' = IF link THEN [job EXCEPT !.pc = "settime"] ELSE Next1(job)
              ELSE Fails /\ UNCHANGED disk
    /\ UNCHANGED <<copies, agreed, remote, count, goal>>

SetSymlinkTimes ==
    /\ job.pc = "settime"
    /\ RestoreMtime(Head(job.upsert))
    /\ UNCHANGED <<copies, agreed, remote, count, goal>>

\* execute_touch for every directory, children first: what is no longer a
\* directory is passed over.
ExecuteTouches ==
    /\ job.pc = "upsert" /\ job.upsert = <<>>
    /\ disk' = [p \in Path |-> IF p \in job.touches /\ IsDir(disk[p])
                               THEN [disk[p] EXCEPT !.t = Result(job, p).t] ELSE disk[p]]
    /\ Goto("agree")
    /\ UNCHANGED <<temps, copies, agreed, remote, count, goal>>

\* The end of converge: the remote tree is the agreed one if this end had
\* nothing of its own to say.
RecordAgreement ==
    /\ job.pc = "agree"
    /\ agreed' = IF job.plan.localWins \/ \E p \in Path : job.plan.dec[p] \in Conflicts
                 THEN agreed ELSE job.remote
    /\ job' = Idle
    /\ UNCHANGED <<disk, temps, copies, remote, count, goal>>

-----------------------------------------------------------------------------
(* What happens meanwhile.                                                 *)

\* The user writes or replaces a file, makes a directory or removes an entry
\* with all it holds (temporaries too).
Edit ==
    /\ count.edits < MaxEdits
    /\ \E p \in Path : \E e \in Edits :
         /\ HasParent(disk, p) /\ disk[p] # e
         /\ disk' = [q \in Path |-> IF q \in Below(p) THEN NoEntry ELSE Put(disk, p, e)[q]]
         /\ temps' = {k \in temps : k[1] \notin Below(p)}
    /\ count' = [count EXCEPT !.edits = @ + 1]
    /\ UNCHANGED <<copies, agreed, remote, job, goal>>

Break == count.breaks < MaxBreaks /\ count' = [count EXCEPT !.breaks = @ + 1]

\* An operation fails (a blob cannot be read, the disk is full): its temporary
\* is removed and the error returned.
Fault ==
    /\ Break
    /\ job.pc \notin {"idle", "verify", "guard"}
    /\ job' = Idle
    /\ temps' = IF job.pc \in {"temp", "rename"} THEN {k \in temps : k[1] # Head(job.upsert)}
                ELSE IF job.pc = "link" THEN {k \in temps : k[1] # Head(job.copy)}
                ELSE temps
    /\ UNCHANGED <<disk, copies, agreed, remote, goal>>

Crash ==
    /\ Break
    /\ job.pc # "idle"
    /\ job' = Idle
    /\ UNCHANGED <<disk, temps, copies, agreed, remote, goal>>

\* sweep_stale_temps of an engine that starts: by modification time, which a
\* temporary takes from the manifest before it is renamed.
SweepStaleTemps ==
    /\ \E k \in temps : /\ k[2].c # Torn \/ job.pc = "idle"
                       /\ temps' = temps \ {k}
    /\ UNCHANGED <<disk, copies, agreed, remote, job, count, goal>>

ApplierStep ==
    \/ Merge \/ ReadLiveVerified \/ BuildTmp \/ LinkCopy \/ PlanUpserts \/ Guard
    \/ ExecuteRemove \/ ClearStep \/ RemovesDone \/ ExecuteUpsert \/ FillTemp
    \/ RenameTemp \/ SetSymlinkTimes \/ ExecuteTouches \/ RecordAgreement

Next == ApplierStep \/ Edit \/ Fault \/ Crash \/ SweepStaleTemps

Spec == Init /\ [][Next]_vars

-----------------------------------------------------------------------------
(* Properties.                                                             *)

\* Neither the folder nor a conflict copy ever shows a file that is only partly
\* written, wherever a merge is cut short (write_temp_then_rename, build_tmp).
WholeFiles ==
    /\ \A p \in Path : disk[p] = NoEntry \/ disk[p].c # Torn
    /\ \A k \in copies : k[2].c # Torn

\* Something above p was retyped: what is lost there is NothingLost's subject.
UnderRetyped(j, p) == \E a \in Ancestors(p) : Retyped(j.base[a], j.remote[a])

\* A directory that both ends have and this end is about to touch: guard_upsert
\* lets pass whatever replaced it, and Mkdir removes a file.
DirExpected(j, p) == IsDir(j.local[p]) /\ p \in UpsertedPaths(j) /\ IsDir(Result(j, p))

\* What a merge takes off the disk is the agreed version, or kept in a conflict
\* copy, or was put there after the guards had passed: an edit made at any
\* moment before the guard is never destroyed, neither at its own path nor with
\* the directory it is in (guard_removal, guard_upsert, read_live_verified).
\* Except for a file that replaces a directory after the scan where the merge
\* wants a directory too: the guard does not look, and it is lost.
EditsKept ==
    [][ job.pc # "idle" /\ count' = count =>
          \A p \in Path :
            LET v == disk[p]
            IN  v # NoEntry /\ ~IsDir(v) /\ ~Holds(disk'[p], v) =>
                  \/ Holds(job.base[p], v)
                  \/ \E k \in copies : k[1] = p /\ SameContent(k[2], v)
                  \/ job.at[p] # v
                  \/ UnderRetyped(job, p)
                  \/ DirExpected(job, p) ]_vars

\* A merge that nobody disturbed leaves what Reconcile's Applied says, with the
\* modification times of files, symlinks and the directories it touched: removals
\* deepest first, writes parents first, directory times last (Applier::run).
Installed ==
    job.pc = "agree" /\ count.edits = job.edits =>
      \A p \in Path :
        LET w == Applied(job.plan, job.base, job.local, job.remote)[p]
        IN  IF IsDir(w) THEN IsDir(disk[p]) /\ (p \in UpsertedPaths(job) => disk[p].t = w.t)
                        ELSE disk[p] = w

\* An earlier merge that was cut short removed an entry and did not come to
\* write the one of another kind that takes its place, or left a temporary in a
\* directory that is to be removed: guard_removal finds nothing in the scanned
\* tree (NotInBase), or something that is not in it (ExpectedAbsent).
HalfDone(j) ==
    \E p \in RemovedPaths(j) : j.local[p] = NoEntry \/ TempsIn(p) # {}

\* A merge that was cut short by a failure, a crash or a swept temporary is
\* taken up by the next one with the same offer, unless the user works there in
\* between: the scan and the merge see no structural conflict, the guards let
\* it pass, except in the two cases of HalfDone, where it is refused, and
\* when it comes to its end it has led to the files and to no new conflict copy but
\* those of the first.
Resumable ==
    goal.edits = count.edits =>
      /\ job.pc = "idle" => ~Plan(agreed, disk, remote, Self, Peer).structural
      /\ job.pc = "guard" => GuardsPass \/ HalfDone(job)
      /\ job.pc = "agree" =>
           /\ \A p \in Path : disk[p] = goal.tree[p] \/ Holds(disk[p], goal.tree[p])
           /\ copies \subseteq goal.copies
=============================================================================

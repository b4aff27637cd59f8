------------------------------ MODULE Registry ------------------------------
(***************************************************************************)
(* The device's list of synced folders: FolderInventory                    *)
(* (ferry-folder/src/inventory.rs).  It is one file, folders.toml, that    *)
(* every Ferry process of the user reads and replaces: the daemon, the     *)
(* command line and the front ends that find no daemon.                    *)
(*                                                                         *)
(* A change reads the whole file, checks it, and renames a new one over    *)
(* it, between creating and removing a lock file.  A lock file that is     *)
(* older than ten seconds, or that has just vanished, is taken for stale   *)
(* and removed; create, stat and remove are separate system calls.         *)
(***************************************************************************)
EXTENDS Naturals, FiniteSets

CONSTANTS
    Procs,      \* processes of the user
    Paths,      \* directories
    Nested,     \* pairs <<a, b>> of directories with a below b
    RealId,     \* directory -> the id in its own .ferry at first, 0 for no folder
    MaxFaults   \* crashes, failed writes, lost directories, moved folders and
                \* locks held for over ten seconds

ASSUME RegistryAssumption ==
    /\ Nested \subseteq Paths \X Paths
    /\ RealId \in [Paths -> Nat]
    /\ MaxFaults \in Nat
    /\ "nobody" \notin Procs

VARIABLES
    reg,       \* the records in folders.toml
    lockfile,  \* folders.toml.lock: who created it (by), is it over ten seconds old
    proc,      \* process -> its operation on the registry
    dirs,      \* the directories that exist
    ids,       \* directory -> the id in its own .ferry, 0 for no folder
    drawn,     \* the last random id given out
    faults,    \* the faults so far
    owed,      \* history: the registry if operations ran one after the other
    stolen,    \* history: a lock was removed under a process still at work
    moved      \* history: a folder was moved while it was listed by its id

regVars == <<reg, lockfile, proc, dirs, ids, drawn, faults, owed, stolen, moved>>

NoLock == [by |-> "nobody", old |-> FALSE]
NoOp == [pc |-> "idle", op |-> "none", id |-> 0, path |-> "none", recs |-> {}, ok |-> FALSE]

Rec(id, path) == [id |-> id, path |-> path]

RegInit ==
    /\ reg = {} /\ owed = {}
    /\ lockfile = NoLock
    /\ proc = [p \in Procs |-> NoOp]
    /\ dirs = Paths /\ ids = RealId
    /\ drawn = 0 /\ faults = 0 /\ stolen = FALSE /\ moved = FALSE

(***************************************************************************)
(* Records.                                                                *)
(***************************************************************************)
IsOverlapping(a, b) == a = b \/ <<a, b>> \in Nested \/ <<b, a>> \in Nested

\* validate_records, without the directories on disk
Consistent(records) ==
    \A r, s \in records : r # s => r.id # s.id /\ ~IsOverlapping(r.path, s.path)

\* validate_records and register, of a path: it is a directory that exists
ValidPath(path) == path \in dirs

\* load_strict succeeds
Loads == Consistent(reg) /\ \A r \in reg : ValidPath(r.path)

BadEnsured(records, id, path) ==
    {r \in records : r.id # id} \union {Rec(id, path)}

\* ensure_registered: a known id moves to the path, an unknown one replaces
\* whatever overlaps it
Ensured(records, id, path) ==
    (IF \E r \in records : r.id = id THEN {r \in records : r.id # id}
     ELSE {r \in records : ~IsOverlapping(r.path, path)})
    \union {Rec(id, path)}

Applied(o, records) ==
    CASE o.op = "register"   -> records \union {Rec(o.id, o.path)}
      [] o.op = "ensure"     -> Ensured(records, o.id, o.path)
      [] o.op = "unregister" -> {r \in records : r.id # o.id}

\* what the three operations check before they write
Checks(o, records) ==
    CASE o.op = "register"   -> /\ ValidPath(o.path)
                                /\ \A r \in records : ~IsOverlapping(o.path, r.path)
      [] o.op = "ensure"     -> Rec(o.id, o.path) \notin records
      [] o.op = "unregister" -> \E r \in records : r.id = o.id

(***************************************************************************)
(* RegistryLock.                                                           *)
(***************************************************************************)
Busy(p) == proc[p].pc # "idle"
AtWork(p) == proc[p].pc \in {"load", "persist", "drop"}
Step(p, pc) == proc' = [proc EXCEPT ![p].pc = pc]

\* the file is removed, whoever created it
Removes(p) ==
    /\ lockfile' = NoLock
    /\ stolen' = (stolen \/ (lockfile.by \in Procs \ {p} /\ AtWork(lockfile.by)))

\* acquire: create_new
LockCreate(p) ==
    /\ proc[p].pc = "lock"
    /\ IF lockfile = NoLock
       THEN /\ lockfile' = [by |-> p, old |-> FALSE]
            /\ Step(p, "load")
       ELSE /\ Step(p, "stat")
            /\ UNCHANGED lockfile
    /\ UNCHANGED <<reg, dirs, ids, drawn, faults, owed, stolen, moved>>

\* acquire: is_stale, or the deadline
LockStat(p) ==
    /\ proc[p].pc = "stat"
    /\ \/ /\ lockfile = NoLock \/ lockfile.old
          /\ Step(p, "break")
       \/ /\ lockfile # NoLock /\ ~lockfile.old
          /\ Step(p, "lock")
       \/ /\ lockfile # NoLock /\ ~lockfile.old
          /\ proc' = [proc EXCEPT ![p].pc = "done", ![p].ok = FALSE]
    /\ UNCHANGED <<reg, lockfile, dirs, ids, drawn, faults, owed, stolen, moved>>

LockBreak(p) ==
    /\ proc[p].pc = "break"
    /\ Removes(p)
    /\ Step(p, "lock")
    /\ UNCHANGED <<reg, dirs, ids, drawn, faults, owed, moved>>

\* Drop for RegistryLock
LockDrop(p) ==
    /\ proc[p].pc = "drop"
    /\ Removes(p)
    /\ proc' = [proc EXCEPT ![p].pc = "done", ![p].recs = {}]
    /\ UNCHANGED <<reg, dirs, ids, drawn, faults, owed, moved>>

(***************************************************************************)
(* register, ensure_registered and unregister.                             *)
(***************************************************************************)
Op(op, id, path) == [NoOp EXCEPT !.pc = "lock", !.op = op, !.id = id, !.path = path]

BadLoad(p) ==
    /\ proc[p].pc = "load"
    /\ proc' = [proc EXCEPT ![p].recs = reg, ![p].ok = Loads,
                   ![p].pc = IF Loads /\ Checks(proc[p], reg) THEN "persist" ELSE "drop"]
    /\ lockfile' = NoLock
    /\ UNCHANGED <<reg, dirs, ids, drawn, faults, owed, stolen, moved>>

\* load_strict and the checks
Load(p) ==
    LET found == Loads /\ Checks(proc[p], reg) IN
    /\ proc[p].pc = "load"
    /\ proc' = [proc EXCEPT ![p].recs = IF found THEN reg ELSE {},
                            ![p].ok = found \/ (Loads /\ proc[p].op = "ensure"),
                            ![p].pc = IF found THEN "persist" ELSE "drop"]
    /\ UNCHANGED <<reg, lockfile, dirs, ids, drawn, faults, owed, stolen, moved>>

\* persist: the new file is renamed over the old one
Persist(p) ==
    /\ proc[p].pc = "persist"
    /\ reg' = Applied(proc[p], proc[p].recs)
    /\ owed' = Applied(proc[p], owed)
    /\ Step(p, "drop")
    /\ UNCHANGED <<lockfile, dirs, ids, drawn, faults, stolen, moved>>

\* the lock file cannot be created, the registry not be read, or the new one not
\* be written: the old one stays
IoError(p) ==
    /\ faults < MaxFaults
    /\ proc[p].pc \in {"lock", "load", "persist"}
    /\ proc' = [proc EXCEPT ![p].pc = IF @ = "lock" THEN "done" ELSE "drop",
                            ![p].recs = {}, ![p].ok = FALSE]
    /\ faults' = faults + 1
    /\ UNCHANGED <<reg, lockfile, dirs, ids, drawn, owed, stolen, moved>>

RegistryStep(p) == \/ LockCreate(p) \/ LockStat(p) \/ LockBreak(p) \/ LockDrop(p)
                   \/ Load(p) \/ Persist(p) \/ IoError(p)

(***************************************************************************)
(* The world.                                                              *)
(***************************************************************************)
\* ten seconds pass: an orphaned lock gets old by itself, a lock whose process
\* is still at work only when that process was suspended
LockAges ==
    /\ lockfile # NoLock /\ ~lockfile.old
    /\ lockfile' = [lockfile EXCEPT !.old = TRUE]
    /\ IF lockfile.by \in Procs /\ AtWork(lockfile.by)
       THEN faults < MaxFaults /\ faults' = faults + 1
       ELSE UNCHANGED faults
    /\ UNCHANGED <<reg, proc, dirs, ids, drawn, owed, stolen, moved>>

\* a registered directory is deleted or its volume goes away
DirectoryLost(path) ==
    /\ faults < MaxFaults
    /\ path \in dirs
    /\ dirs' = dirs \ {path}
    /\ faults' = faults + 1
    /\ UNCHANGED <<reg, lockfile, proc, ids, drawn, owed, stolen, moved>>

\* the id is in the registry, or in the hands of a process that changes it
Listed(id) ==
    \/ \E r \in reg : r.id = id
    \/ \E p \in Procs : Busy(p) /\ (proc[p].id = id \/ \E r \in proc[p].recs : r.id = id)

\* the user moves what is in one directory to another one that holds no folder
\* yet, .ferry included; the first one stays, or is made again, empty
MoveFolder(from, to) ==
    /\ faults < MaxFaults
    /\ {from, to} \subseteq dirs
    /\ ids[from] # 0 /\ ids[to] = 0
    /\ ids' = [ids EXCEPT ![to] = ids[from], ![from] = 0]
    /\ moved' = (moved \/ Listed(ids[from]))
    /\ faults' = faults + 1
    /\ UNCHANGED <<reg, lockfile, proc, dirs, drawn, owed, stolen>>

(***************************************************************************)
(* Properties.                                                             *)
(***************************************************************************)
\* RegistryLock: the registry is always what its changes make when they are
\* applied one after the other, so that no process's change undoes another's,
\* as long as no lock was removed under a process at work (by a waiter that
\* took it for stale).
ChangesKept == ~stolen => reg = owed

\* ensure_registered and register: every registry that is ever written passes
\* validate_records, so that it can be read again, whatever became of the lock,
\* as long as no two directories carry the same folder id and no folder is moved
\* while it is listed.  A listed folder that was moved is where this fails:
\* ensure_registered then takes the id to the new path and looks at no other
\* record, one that overlaps it included.
RegistryReadable ==
    (\A a, b \in Paths : RealId[a] = RealId[b] => a = b \/ RealId[a] = 0) /\ ~moved
        => Consistent(reg)
=============================================================================

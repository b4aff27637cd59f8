------------------------- MODULE DeviceDaemonProofs -------------------------
(***************************************************************************)
(* Theorems about the folder registry and the device daemon, for any       *)
(* processes, directories, nesting of directories, ids of folders, numbers *)
(* of commands, daemons started and faults.                                *)
(***************************************************************************)
EXTENDS DeviceDaemon, TLAPS

-----------------------------------------------------------------------------
(* The inductive invariant: the registry. *)

Records == [id : Nat, path : Paths]
RegPcs == {"idle", "lock", "stat", "break", "load", "persist", "drop", "done"}
OpNames == {"none", "register", "ensure", "unregister"}
OpType == [pc : RegPcs, op : OpNames, id : Nat, path : Paths \union {"none"},
           recs : SUBSET Records, ok : BOOLEAN]

RegType ==
  /\ reg \in SUBSET Records
  /\ lockfile \in [by : Procs \union {"nobody"}, old : BOOLEAN]
  /\ lockfile.by = "nobody" => lockfile = NoLock
  /\ proc \in [Procs -> OpType]
  /\ dirs \subseteq Paths
  /\ ids \in [Paths -> Nat]
  /\ \A q \in Paths : ids[q] = 0 \/ ids[q] > MaxCommands
  /\ (\A a, b \in Paths : RealId[a] = RealId[b] => a = b \/ RealId[a] = 0) =>
       (\A a, b \in Paths : ids[a] = ids[b] => a = b \/ ids[a] = 0)
  /\ drawn \in Nat /\ commands \in Nat
  /\ drawn <= commands /\ commands <= MaxCommands

\* Until a lock is stolen, whoever is at work holds it, and what it read is
\* what is there.
Serial ==
  ~stolen =>
    /\ reg = owed
    /\ \A p \in Procs : AtWork(p) => lockfile.by = p
    /\ \A p \in Procs : proc[p].pc = "persist" => proc[p].recs = reg

\* An id is one that was drawn or a folder's own, of the directory where it still
\* is unless a listed folder was moved.
KnownId(r) ==
  r.id <= drawn \/ (r.id > MaxCommands /\ (moved \/ r.id = ids[r.path]))

\* p is to register a folder and has not written yet
Registering(p) ==
  proc[p].op = "register" /\ proc[p].pc \in {"lock", "stat", "break", "load", "persist"}

Ids ==
  /\ \A r \in reg : KnownId(r)
  /\ \A p \in Procs : \A r \in proc[p].recs : KnownId(r)
  /\ \A p \in Procs : proc[p].op = "register" => proc[p].id <= drawn
  /\ \A p \in Procs : proc[p].op \in {"register", "ensure"} => proc[p].path \in Paths
  /\ \A p \in Procs : proc[p].op = "ensure" =>
       p \in Users /\ proc[p].id > MaxCommands /\ (moved \/ proc[p].id = ids[proc[p].path])
  /\ \A p \in Procs : proc[p].op = "none" <=> proc[p].pc = "idle"
  /\ \A p \in Procs : proc[p].op = "none" => proc[p].recs = {}

\* The id that is being registered is nowhere yet.
Fresh ==
  \A p \in Procs : Registering(p) =>
    /\ \A r \in reg : r.id # proc[p].id
    /\ \A q \in Procs : \A r \in proc[q].recs : r.id # proc[p].id
    /\ \A q \in Procs : q # p /\ Registering(q) => proc[q].id # proc[p].id

\* What a process is about to write was read whole and passed the checks,
\* though the directories may have gone since.
Checked ==
  \A p \in Procs : proc[p].pc = "persist" =>
    /\ proc[p].ok
    /\ Consistent(proc[p].recs)
    /\ proc[p].op = "register" =>
         \A r \in proc[p].recs : ~IsOverlapping(proc[p].path, r.path)
    /\ proc[p].op = "ensure" => Rec(proc[p].id, proc[p].path) \notin proc[p].recs

RegInv == RegType /\ Serial /\ Ids /\ Fresh /\ Checked /\ RegistryReadable

-----------------------------------------------------------------------------
(* The inductive invariant: the daemons. *)

LifeType == [pc : Pcs, inc : Nat, ino : Nat, locked : BOOLEAN, term : BOOLEAN]
EngineType == [id : Nat, path : Paths, ok : BOOLEAN, wait : BOOLEAN]

Holding == {"spawn", "bind", "serve", "closing", "drop"}
Running == {"bind", "serve", "closing"}

DaemonType ==
  /\ life \in [Daemons -> LifeType]
  /\ engines \in [Daemons -> SUBSET EngineType]
  /\ lockIno \in {0} \union Inodes
  /\ starts \in 0..MaxStarts
  /\ sock \in Daemons \union {"nobody"}
  /\ \A d \in Daemons : life[d].ino \in {0} \union Inodes
  /\ \A d \in Daemons : life[d].inc <= starts
  /\ \A d \in Daemons : life[d].pc # "down" => life[d].inc >= 1

\* What a daemon has at each step of run.
Places ==
  \A d \in Daemons :
    /\ life[d].locked <=> life[d].pc \in Holding
    /\ engines[d] # {} => life[d].pc \in Running /\ life[d].locked
    /\ Busy(d) => life[d].pc \in {"serve", "closing"} /\ life[d].locked

\* Until daemon.lock is unlinked under a daemon, all who opened it have the
\* file of that name, and one has it locked.
Single ==
  ~unlinked =>
    /\ \A d \in Daemons : life[d].pc \in Holding \union {"flock"} =>
         life[d].ino = lockIno /\ lockIno # 0
    /\ \A c, d \in Daemons : life[c].locked /\ life[d].locked => c = d

\* Nothing has come between the registry and the daemon that runs.
Settled == ~unlinked /\ ~stolen /\ ~behind

\* The operation of d has changed the registry.
Wrote(d, op) == proc[d].op = op /\ proc[d].pc \in {"drop", "done"} /\ proc[d].ok

\* An engine runs for each record, up to the operation in progress.
Backed ==
  Settled =>
    \A d \in Daemons :
      /\ \A e, f \in engines[d] : e # f => ~IsOverlapping(e.path, f.path)
      /\ \A e \in engines[d] :
           Rec(e.id, e.path) \in reg \/ (Wrote(d, "unregister") /\ e.id = proc[d].id)
      /\ Wrote(d, "register") =>
           /\ Rec(proc[d].id, proc[d].path) \in reg
           /\ \A e \in engines[d] : ~IsOverlapping(e.path, proc[d].path)

DaemonInv == DaemonType /\ Places /\ Single /\ Backed

Inv == RegInv /\ DaemonInv

-----------------------------------------------------------------------------
(* Records. *)

\* Two directories overlap one way round if they do the other way round.
LEMMA OverlapSymmetric ==
  ASSUME NEW a, NEW b
  PROVE  IsOverlapping(a, b) <=> IsOverlapping(b, a)
BY DEF IsOverlapping

\* register: a new id at a directory that overlaps no other.
LEMMA RegisterConsistent ==
  ASSUME NEW S \in SUBSET Records, NEW i \in Nat, NEW q \in Paths, Consistent(S),
         \A r \in S : r.id # i, \A r \in S : ~IsOverlapping(q, r.path)
  PROVE  Consistent(S \union {Rec(i, q)})
<1>1. Rec(i, q).id = i /\ Rec(i, q).path = q
  BY DEF Rec
<1>2. \A r \in S : ~IsOverlapping(r.path, q)
  BY OverlapSymmetric
<1> QED
  BY <1>1, <1>2 DEF Consistent

\* ensure_registered: while ids of directories differ and no listed folder was
\* moved, a directory's own id is listed at that directory alone, so that what
\* overlaps it makes room.
LEMMA EnsureConsistent ==
  ASSUME NEW S \in SUBSET Records, NEW q \in Paths, NEW i \in Nat, Consistent(S), RegType,
         \A a, b \in Paths : ids[a] = ids[b] => a = b \/ ids[a] = 0,
         i = ids[q], i > MaxCommands, ~moved,
         \A r \in S : KnownId(r), Rec(i, q) \notin S
  PROVE  Consistent(Ensured(S, i, q))
<1>1. MaxCommands \in Nat
  BY DaemonAssumption
<1>2. \A r \in S : r.id # i
  <2>1. SUFFICES ASSUME NEW r \in S, r.id = i PROVE FALSE
    OBVIOUS
  <2>2. ~(r.id <= drawn)
    BY <1>1, <2>1 DEF RegType
  <2>3. ids[r.path] = ids[q] /\ r.path \in Paths /\ ids[q] # 0
    BY <1>1, <2>1, <2>2 DEF KnownId, Records
  <2>4. r = Rec(i, q)
    BY <2>1, <2>3 DEF Records, Rec
  <2> QED
    BY <2>4
<1> DEFINE T == {r \in S : ~IsOverlapping(r.path, q)}
<1>3. Ensured(S, i, q) = T \union {Rec(i, q)}
  BY <1>2 DEF Ensured
<1>4. Consistent(T) /\ T \in SUBSET Records
  BY DEF Consistent
<1>5. \A r \in T : r.id # i /\ ~IsOverlapping(q, r.path)
  BY <1>2, OverlapSymmetric
<1> HIDE DEF T
<1> QED
  BY <1>3, <1>4, <1>5, RegisterConsistent

\* What an operation writes are records.
LEMMA AppliedType ==
  ASSUME NEW o \in OpType, NEW S \in SUBSET Records,
         o.op \in {"register", "ensure"} => o.path \in Paths, o.op # "none"
  PROVE  Applied(o, S) \in SUBSET Records
BY DEF OpType, OpNames, Applied, Ensured, Rec, Records

-----------------------------------------------------------------------------
(* Steps that leave the registry alone keep its invariant. *)

regState == <<reg, lockfile, ids, drawn, owed, stolen, moved>>

\* Only directories and the number of commands change.
LEMMA RegFrame ==
  ASSUME RegInv, UNCHANGED <<regState, proc>>, dirs' \subseteq Paths,
         commands' \in Nat, commands <= commands', commands' <= MaxCommands
  PROVE  RegInv'
<1>1. RegType'
  BY DaemonAssumption DEF RegInv, RegType, regState
<1>2. Serial' /\ Fresh' /\ Checked'
  BY DEF RegInv, regState, Serial, Fresh, Checked, AtWork, Registering, Consistent
<1>3. Ids' /\ RegistryReadable'
  BY DEF RegInv, regState, Ids, KnownId, RegistryReadable, Consistent
<1> QED
  BY <1>1, <1>2, <1>3 DEF RegInv

\* A process ends its operation, or ends.
LEMMA OpEnds ==
  ASSUME RegInv, NEW p \in Procs, proc' = [proc EXCEPT ![p] = NoOp],
         UNCHANGED <<regState, dirs>>,
         commands' \in Nat, commands <= commands', commands' <= MaxCommands
  PROVE  RegInv'
<1>1. NoOp \in OpType
  BY DEF NoOp, OpType, RegPcs, OpNames
<1>2. RegType'
  BY <1>1, DaemonAssumption DEF RegInv, RegType, regState
<1>3. /\ proc'[p] = NoOp
      /\ \A q \in Procs : q # p => proc'[q] = proc[q]
  BY DEF RegInv, RegType
<1>4. /\ NoOp.pc = "idle" /\ NoOp.op = "none" /\ NoOp.recs = {}
  BY DEF NoOp
<1>5. Serial'
  BY <1>3, <1>4 DEF RegInv, regState, Serial, AtWork
<1>6. Ids'
  BY <1>3, <1>4 DEF RegInv, regState, Ids, KnownId
<1>7. Fresh'
  BY <1>3, <1>4 DEF RegInv, regState, Fresh, Registering
<1>8. Checked' /\ RegistryReadable'
  BY <1>3, <1>4 DEF RegInv, regState, Checked, RegistryReadable, Consistent
<1> QED
  BY <1>2, <1>5, <1>6, <1>7, <1>8 DEF RegInv

\* A process begins an operation: it registers under a new id, or under the
\* directory's own, or removes an id.
LEMMA OpBegins ==
  ASSUME RegInv, NEW p \in Procs, ~Busy(p), NEW op, NEW id \in Nat, NEW path,
         proc' = [proc EXCEPT ![p] = Op(op, id, path)],
         UNCHANGED <<reg, lockfile, owed, stolen, dirs, ids, moved>>, commands < MaxCommands,
         commands' = commands + 1,
         \/ /\ op = "register" /\ path \in Paths /\ id = drawn + 1 /\ drawn' = drawn + 1
         \/ /\ op = "ensure" /\ p \in Users /\ path \in Paths /\ id = ids[path] /\ id # 0
            /\ drawn' = drawn
         \/ op = "unregister" /\ path = "none" /\ drawn' = drawn
  PROVE  RegInv'
<1> DEFINE o == Op(op, id, path)
<1>1. /\ o.pc = "lock" /\ o.op = op /\ o.id = id /\ o.path = path /\ o.recs = {}
      /\ o \in OpType
  BY DEF Op, NoOp, OpType, RegPcs, OpNames
<1> HIDE DEF o
<1>2. /\ proc'[p] = o
      /\ \A q \in Procs : q # p => proc'[q] = proc[q]
      /\ proc' \in [Procs -> OpType]
  BY <1>1 DEF RegInv, RegType, o
<1>3. drawn \in Nat /\ drawn' \in Nat /\ drawn <= drawn' /\ commands \in Nat
      /\ MaxCommands \in Nat /\ drawn' <= commands'
  BY DaemonAssumption DEF RegInv, RegType
<1>4. RegType'
  BY <1>2, <1>3 DEF RegInv, RegType
<1>5. Serial'
  BY <1>1, <1>2 DEF RegInv, Serial, AtWork
<1>6. /\ \A r \in reg : KnownId(r)' /\ r \in Records
      /\ \A q \in Procs : \A r \in proc[q].recs : KnownId(r)' /\ r \in Records
  <2>1. \A r \in Records : KnownId(r) => KnownId(r)'
    BY <1>3 DEF KnownId, Records
  <2>2. \A q \in Procs : proc[q] \in OpType
    BY DEF RegInv, RegType
  <2>3. \A q \in Procs : proc[q].recs \subseteq Records
    BY <2>2 DEF OpType
  <2> QED
    BY <2>1, <2>3 DEF RegInv, RegType, Ids
<1>7. \A q \in Procs : proc[q].id \in Nat
  BY DEF RegInv, RegType, OpType
<1>8. Ids'
  <2>1. \A q \in Procs : proc'[q].op = "register" => proc'[q].id <= drawn'
    BY <1>1, <1>2, <1>3, <1>7 DEF RegInv, Ids
  <2>2. \A q \in Procs : \A r \in proc'[q].recs : KnownId(r)'
    BY <1>1, <1>2, <1>6
  <2>3. \A q \in Procs :
          /\ proc'[q].op \in {"register", "ensure"} => proc'[q].path \in Paths
          /\ proc'[q].op = "ensure" => /\ q \in Users /\ proc'[q].id > MaxCommands
                                       /\ moved' \/ proc'[q].id = ids'[proc'[q].path]
          /\ proc'[q].op = "none" <=> proc'[q].pc = "idle"
          /\ proc'[q].op = "none" => proc'[q].recs = {}
    <3>1. op = "ensure" => p \in Users /\ id > MaxCommands /\ id = ids[path]
      BY DEF RegInv, RegType
    <3> QED
      BY <1>1, <1>2, <3>1 DEF RegInv, Ids
  <2> QED
    BY <1>6, <2>1, <2>2, <2>3 DEF Ids
<1>9. Fresh'
  <2>1. \A q \in Procs : q # p => (Registering(q)' <=> Registering(q))
    BY <1>2 DEF Registering
  <2>2. op = "register" => \A r \in Records : KnownId(r) => r.id # id
    BY <1>3 DEF KnownId, Records
  <2>3. op = "register" => \A q \in Procs : Registering(q) => proc[q].id # id
    BY <1>3, <1>7 DEF RegInv, Ids, Registering
  <2>4. Registering(p)' => op = "register"
    BY <1>1, <1>2 DEF Registering
  <2>5. /\ \A r \in reg : KnownId(r) /\ r \in Records
        /\ \A q \in Procs : \A r \in proc[q].recs : KnownId(r) /\ r \in Records
    BY <1>6 DEF RegInv, Ids
  <2>6. \A q \in Procs : \A r \in proc'[q].recs : q # p /\ r \in proc[q].recs
    BY <1>1, <1>2
  <2>7. Registering(p)' =>
          /\ \A r \in reg' : r.id # proc'[p].id
          /\ \A q \in Procs : \A r \in proc'[q].recs : r.id # proc'[p].id
          /\ \A q \in Procs : q # p /\ Registering(q)' => proc'[q].id # proc'[p].id
    BY <1>1, <1>2, <2>1, <2>2, <2>3, <2>4, <2>5, <2>6
  <2>8. \A q \in Procs : q # p /\ Registering(q)' =>
          /\ \A r \in reg' : r.id # proc'[q].id
          /\ \A s \in Procs : \A r \in proc'[s].recs : r.id # proc'[q].id
          /\ \A s \in Procs : s # q /\ Registering(s)' => proc'[s].id # proc'[q].id
    BY <1>1, <1>2, <2>1, <2>3, <2>4, <2>6 DEF RegInv, Fresh
  <2> QED
    BY <2>7, <2>8 DEF Fresh
<1>10. Checked' /\ RegistryReadable'
  BY <1>1, <1>2 DEF RegInv, Checked, RegistryReadable, Consistent
<1> QED
  BY <1>4, <1>5, <1>8, <1>9, <1>10 DEF RegInv

-----------------------------------------------------------------------------
(* The steps of an operation on the registry. *)

\* A step that only moves the process, and the lock file with it.
LEMMA MoveKeeps ==
  ASSUME RegInv, NEW p \in Procs, proc[p].op # "none",
         UNCHANGED <<reg, dirs, ids, moved, drawn, owed, commands>>,
         proc' \in [Procs -> OpType], RegType',
         \A q \in Procs : q # p => proc'[q] = proc[q],
         proc'[p].op = proc[p].op, proc'[p].id = proc[p].id, proc'[p].path = proc[p].path,
         proc'[p].recs \subseteq proc[p].recs \union reg,
         Registering(p)' => Registering(p),
         proc'[p].pc \notin {"persist", "idle"}, proc[p].pc # "idle"
  PROVE  Ids' /\ Fresh' /\ Checked' /\ RegistryReadable'
<1>1. Ids'
  BY DEF RegInv, Ids, KnownId
<1>2. \A q \in Procs : Registering(q)' => Registering(q) /\ proc'[q].id = proc[q].id
  BY DEF Registering
<1>3. \A q \in Procs : proc'[q].recs \subseteq proc[q].recs \union reg
  OBVIOUS
<1>4. Fresh'
  BY <1>2, <1>3 DEF RegInv, Fresh
<1>5. Checked' /\ RegistryReadable'
  BY DEF RegInv, Checked, RegistryReadable, Consistent
<1> QED
  BY <1>1, <1>4, <1>5

\* acquire: the file is created, or is there.
LEMMA LockCreateKeeps ==
  ASSUME RegInv, NEW p \in Procs, LockCreate(p), commands' = commands
  PROVE  RegInv'
<1>1. /\ proc[p].pc = "lock" /\ proc[p].op # "none"
      /\ \A q \in Procs : q # p => proc'[q] = proc[q]
      /\ proc' \in [Procs -> OpType] /\ proc'[p].op = proc[p].op /\ proc'[p].id = proc[p].id
      /\ proc'[p].path = proc[p].path /\ proc'[p].recs = proc[p].recs
      /\ proc'[p].pc \in {"load", "stat"}
  BY DEF RegInv, RegType, Ids, OpType, RegPcs, LockCreate, Step
<1>2. RegType'
  <2>1. lockfile' \in [by : Procs \union {"nobody"}, old : BOOLEAN]
        /\ (lockfile'.by = "nobody" => lockfile' = NoLock)
    <3>1. lockfile' = lockfile \/ lockfile' = [by |-> p, old |-> FALSE]
      BY DEF LockCreate
    <3>2. p # "nobody"
      BY RegistryAssumption
    <3>3. CASE lockfile' = lockfile
      BY <3>3 DEF RegInv, RegType
    <3>4. CASE lockfile' = [by |-> p, old |-> FALSE]
      BY <3>2, <3>4
    <3> QED
      BY <3>1, <3>3, <3>4
  <2> QED
    BY <1>1, <2>1 DEF RegInv, RegType, LockCreate
<1>3. Serial'
  <2>1. CASE lockfile = NoLock
    <3>1. ~stolen => \A q \in Procs : ~AtWork(q)
      BY <2>1, RegistryAssumption DEF RegInv, Serial, NoLock
    <3>2. lockfile'.by = p /\ proc'[p].pc = "load"
      BY <2>1 DEF LockCreate, Step, RegInv, RegType, OpType
    <3> QED
      BY <1>1, <3>1, <3>2 DEF RegInv, Serial, AtWork, LockCreate
  <2>2. CASE lockfile # NoLock
    <3>1. lockfile' = lockfile /\ proc'[p].pc = "stat"
      BY <2>2 DEF LockCreate, Step, RegInv, RegType, OpType
    <3> QED
      BY <1>1, <3>1 DEF RegInv, Serial, AtWork, LockCreate
  <2> QED
    BY <2>1, <2>2
<1>4. Ids' /\ Fresh' /\ Checked' /\ RegistryReadable'
  BY <1>1, <1>2, MoveKeeps DEF LockCreate, Registering
<1> QED
  BY <1>2, <1>3, <1>4 DEF RegInv

\* acquire: the file is stale, is not, or the deadline has passed.
LEMMA LockStatKeeps ==
  ASSUME RegInv, NEW p \in Procs, LockStat(p), commands' = commands
  PROVE  RegInv'
<1>1. /\ proc[p].pc = "stat" /\ proc[p].op # "none"
      /\ \A q \in Procs : q # p => proc'[q] = proc[q]
      /\ proc' \in [Procs -> OpType] /\ proc'[p].op = proc[p].op /\ proc'[p].id = proc[p].id
      /\ proc'[p].path = proc[p].path /\ proc'[p].recs = proc[p].recs
      /\ proc'[p].pc \in {"break", "lock", "done"}
  BY DEF RegInv, RegType, Ids, OpType, RegPcs, LockStat, Step
<1>2. RegType'
  BY <1>1 DEF RegInv, RegType, LockStat, NoLock
<1>3. Serial'
  BY <1>1 DEF RegInv, Serial, AtWork, LockStat
<1>4. Ids' /\ Fresh' /\ Checked' /\ RegistryReadable'
  BY <1>1, <1>2, MoveKeeps DEF LockStat, Registering
<1> QED
  BY <1>2, <1>3, <1>4 DEF RegInv

\* The lock file goes: no process is at work then, or one was robbed of it.
LEMMA RemoveKeeps ==
  ASSUME RegInv, NEW p \in Procs, Removes(p), UNCHANGED <<reg, owed>>,
         \A q \in Procs : q # p => proc'[q] = proc[q],
         proc'[p].pc \in {"lock", "done"}
  PROVE  Serial' /\ lockfile' = NoLock
<1>1. ~stolen' => ~stolen /\ \A q \in Procs : q # p => ~AtWork(q)
  BY DEF RegInv, Serial, Removes
<1> QED
  BY <1>1 DEF RegInv, Serial, AtWork, Removes

\* acquire: the stale lock is removed.
LEMMA LockBreakKeeps ==
  ASSUME RegInv, NEW p \in Procs, LockBreak(p), commands' = commands
  PROVE  RegInv'
<1>1. /\ proc[p].pc = "break" /\ proc[p].op # "none"
      /\ \A q \in Procs : q # p => proc'[q] = proc[q]
      /\ proc' \in [Procs -> OpType] /\ proc'[p].op = proc[p].op /\ proc'[p].id = proc[p].id
      /\ proc'[p].path = proc[p].path /\ proc'[p].recs = proc[p].recs
      /\ proc'[p].pc = "lock"
  BY DEF RegInv, RegType, Ids, OpType, RegPcs, LockBreak, Step
<1>2. Serial' /\ lockfile' = NoLock
  BY <1>1, RemoveKeeps DEF LockBreak
<1>3. RegType'
  BY <1>1, <1>2 DEF RegInv, RegType, LockBreak, NoLock
<1>4. Ids' /\ Fresh' /\ Checked' /\ RegistryReadable'
  BY <1>1, <1>3, MoveKeeps DEF LockBreak, Registering
<1> QED
  BY <1>2, <1>3, <1>4 DEF RegInv

\* Drop for RegistryLock.
LEMMA LockDropKeeps ==
  ASSUME RegInv, NEW p \in Procs, LockDrop(p), commands' = commands
  PROVE  RegInv'
<1>1. /\ proc[p].pc = "drop" /\ proc[p].op # "none"
      /\ \A q \in Procs : q # p => proc'[q] = proc[q]
      /\ proc' \in [Procs -> OpType] /\ proc'[p].op = proc[p].op /\ proc'[p].id = proc[p].id
      /\ proc'[p].path = proc[p].path /\ proc'[p].recs = {}
      /\ proc'[p].pc = "done"
  <2>1. proc[p] \in OpType /\ proc \in [Procs -> OpType] /\ proc[p].pc = "drop"
    BY DEF RegInv, RegType, LockDrop
  <2>2. proc' = [proc EXCEPT ![p] = [proc[p] EXCEPT !.pc = "done", !.recs = {}]]
    BY <2>1 DEF LockDrop
  <2>3. proc[p].op # "none"
    BY <2>1 DEF RegInv, Ids
  <2> DEFINE o == [proc[p] EXCEPT !.pc = "done", !.recs = {}]
  <2>4. /\ o \in OpType /\ o.op = proc[p].op /\ o.id = proc[p].id /\ o.path = proc[p].path
        /\ o.recs = {} /\ o.pc = "done"
    BY <2>1 DEF OpType, RegPcs
  <2> HIDE DEF o
  <2>5. proc' = [proc EXCEPT ![p] = o]
    BY <2>2 DEF o
  <2> QED
    BY <2>1, <2>3, <2>4, <2>5
<1>2. Serial' /\ lockfile' = NoLock
  BY <1>1, RemoveKeeps DEF LockDrop
<1>3. RegType'
  BY <1>1, <1>2 DEF RegInv, RegType, LockDrop, NoLock
<1>4. Ids' /\ Fresh' /\ Checked' /\ RegistryReadable'
  BY <1>1, <1>3, MoveKeeps DEF LockDrop, Registering
<1> QED
  BY <1>2, <1>3, <1>4 DEF RegInv

\* load_strict and the checks.
LEMMA LoadKeeps ==
  ASSUME RegInv, NEW p \in Procs, Load(p), commands' = commands
  PROVE  RegInv'
<1> DEFINE found == Loads /\ Checks(proc[p], reg)
<1>1. /\ proc[p].pc = "load" /\ proc[p].op # "none"
      /\ \A q \in Procs : q # p => proc'[q] = proc[q]
      /\ proc' \in [Procs -> OpType] /\ proc'[p].op = proc[p].op /\ proc'[p].id = proc[p].id
      /\ proc'[p].path = proc[p].path
      /\ proc'[p].recs = IF found THEN reg ELSE {}
      /\ proc'[p].pc = IF found THEN "persist" ELSE "drop"
      /\ found => proc'[p].ok
  <2> HIDE DEF found
  <2>1. PICK k \in BOOLEAN : proc' = [proc EXCEPT ![p].recs = IF found THEN reg ELSE {},
               ![p].ok = k, ![p].pc = IF found THEN "persist" ELSE "drop"] /\ (found => k)
    BY DEF Load, found
  <2>2. proc[p] \in OpType /\ reg \in SUBSET Records /\ proc[p].pc = "load"
    BY DEF RegInv, RegType, Load
  <2> QED
    BY <2>1, <2>2 DEF RegInv, RegType, Ids, OpType, RegPcs
<1> HIDE DEF found
<1>2. RegType'
  BY <1>1 DEF RegInv, RegType, Load
<1>3. Serial'
  BY <1>1 DEF RegInv, Serial, AtWork, Load
<1>4. CASE ~found
  BY <1>1, <1>2, <1>3, <1>4, MoveKeeps DEF RegInv, Load, Registering
<1>5. CASE found
  <2>1. /\ Consistent(reg)
        /\ proc[p].op = "register" => \A r \in reg : ~IsOverlapping(proc[p].path, r.path)
        /\ proc[p].op = "ensure" => Rec(proc[p].id, proc[p].path) \notin reg
    BY <1>5 DEF found, Loads, Checks
  <2>2. proc'[p].recs = reg /\ proc'[p].pc = "persist" /\ proc'[p].ok
    BY <1>1, <1>5
  <2>3. Checked'
    BY <1>1, <2>1, <2>2 DEF RegInv, Checked, Consistent
  <2>4. Ids' /\ RegistryReadable'
    BY <1>1, <2>2 DEF RegInv, Ids, KnownId, RegistryReadable, Consistent, Load
  <2>5. \A q \in Procs : Registering(q)' => Registering(q) /\ proc'[q].id = proc[q].id
    BY <1>1 DEF Registering
  <2>6. \A q \in Procs : proc'[q].recs \subseteq proc[q].recs \union reg
    BY <1>1, <2>2
  <2>7. Fresh'
    <3>1. reg' = reg /\ Fresh
      BY DEF RegInv, Load
    <3> QED
      BY <2>5, <2>6, <3>1 DEF Fresh
  <2> QED
    BY <1>2, <1>3, <2>3, <2>4, <2>7 DEF RegInv
<1> QED
  BY <1>4, <1>5

\* persist: the rename.
LEMMA PersistKeeps ==
  ASSUME RegInv, NEW p \in Procs, Persist(p), commands' = commands
  PROVE  RegInv'
<1> DEFINE o == proc[p]
<1>1. /\ o.pc = "persist" /\ o.op # "none" /\ o \in OpType /\ o.recs \in SUBSET Records
      /\ \A q \in Procs : q # p => proc'[q] = proc[q]
      /\ proc' \in [Procs -> OpType] /\ proc'[p].op = o.op /\ proc'[p].id = o.id
      /\ proc'[p].path = o.path /\ proc'[p].recs = o.recs /\ proc'[p].ok = o.ok
      /\ proc'[p].pc = "drop"
  BY DEF RegInv, RegType, Ids, OpType, RegPcs, Persist, Step
<1>2. reg' = Applied(o, o.recs) /\ owed' = Applied(o, owed)
  BY DEF Persist
<1>3. /\ o.op \in {"register", "ensure"} => o.path \in Paths
      /\ o.op = "ensure" => o.id > MaxCommands /\ (moved \/ o.id = ids[o.path])
      /\ o.op = "register" => o.id <= drawn
      /\ o.op \in {"register", "ensure", "unregister"} /\ o.id \in Nat
  BY <1>1 DEF RegInv, Ids, OpType, OpNames
<1> HIDE DEF o
<1>4. RegType'
  BY <1>1, <1>2, <1>3, AppliedType DEF RegInv, RegType, Persist
<1>5. Serial'
  <2>1. SUFFICES ASSUME ~stolen PROVE reg' = owed' /\ \A q \in Procs : AtWork(q)' =>
                    lockfile'.by = q /\ (proc'[q].pc = "persist" => proc'[q].recs = reg')
    BY DEF Serial, Persist, AtWork
  <2>2. lockfile.by = p /\ o.recs = reg /\ reg = owed
    BY <1>1, <2>1 DEF RegInv, Serial, AtWork, o
  <2>3. \A q \in Procs : q # p => ~AtWork(q)
    BY <2>1, <2>2 DEF RegInv, Serial
  <2> QED
    BY <1>1, <1>2, <2>2, <2>3 DEF AtWork, Persist
<1>6. \A r \in reg' : r \in o.recs \/ (r = Rec(o.id, o.path) /\ o.op \in {"register", "ensure"})
  <2>1. CASE o.op = "register"
    BY <1>2, <2>1 DEF Applied
  <2>2. CASE o.op = "ensure"
    BY <1>2, <2>2 DEF Applied, Ensured
  <2>3. CASE o.op = "unregister"
    BY <1>2, <2>3 DEF Applied
  <2> QED
    BY <1>3, <2>1, <2>2, <2>3
<1>7. Rec(o.id, o.path).id = o.id /\ Rec(o.id, o.path).path = o.path
  BY DEF Rec
<1>8. Ids'
  <2>1. \A r \in o.recs : KnownId(r)
    BY DEF RegInv, Ids, o
  <2>2. \A r \in reg' : KnownId(r)
    BY <1>3, <1>6, <1>7, <2>1 DEF KnownId
  <2> QED
    BY <1>1, <2>2 DEF RegInv, Ids, KnownId, Persist, o
<1>9. Fresh'
  <2>1. \A q \in Procs : Registering(q)' => q # p /\ Registering(q) /\ proc'[q].id = proc[q].id
    BY <1>1 DEF Registering
  <2>2. \A q \in Procs : proc'[q].recs = proc[q].recs
    BY <1>1 DEF o
  <2>3. ASSUME NEW q \in Procs, Registering(q)', NEW r \in reg'
        PROVE  r.id # proc'[q].id
    <3>1. q # p /\ Registering(q) /\ proc'[q].id = proc[q].id
      BY <2>1, <2>3
    <3>2. CASE r \in o.recs
      BY <3>1, <3>2 DEF RegInv, Fresh, o
    <3>3. CASE r = Rec(o.id, o.path) /\ o.op = "register"
      <4>1. Registering(p)
        BY <1>1, <3>3 DEF Registering, o
      <4> QED
        BY <1>7, <3>1, <3>3, <4>1 DEF RegInv, Fresh, o
    <3>4. CASE r = Rec(o.id, o.path) /\ o.op = "ensure"
      <4>1. o.id > MaxCommands
        BY <1>3, <3>4
      <4>2. proc[q].id <= drawn /\ proc[q].id \in Nat
        BY <3>1 DEF RegInv, Ids, Registering, RegType, OpType
      <4> QED
        BY <1>3, <1>7, <3>1, <3>4, <4>1, <4>2, DaemonAssumption DEF RegInv, RegType
    <3> QED
      BY <1>6, <2>3, <3>2, <3>3, <3>4
  <2> QED
    BY <2>1, <2>2, <2>3 DEF RegInv, Fresh
<1>10. Checked'
  BY <1>1 DEF RegInv, Checked, Consistent, o
<1>11. RegistryReadable'
  <2>1. SUFFICES ASSUME ~moved, \A a, b \in Paths : RealId[a] = RealId[b] => a = b \/ RealId[a] = 0
                 PROVE  Consistent(reg')
    BY DEF RegistryReadable, Consistent, Persist
  <2>2. Consistent(o.recs) /\ \A r \in o.recs : KnownId(r)
    BY <1>1 DEF RegInv, Checked, Ids, o
  <2>3. CASE o.op = "register"
    <3>1. Registering(p)
      BY <1>1, <2>3 DEF Registering, o
    <3>2. \A r \in o.recs : r.id # o.id /\ ~IsOverlapping(o.path, r.path)
      BY <1>1, <2>3, <3>1 DEF RegInv, Fresh, Checked, o
    <3>3. reg' = o.recs \union {Rec(o.id, o.path)}
      BY <1>2, <2>3 DEF Applied
    <3> QED
      BY <1>1, <1>3, <2>2, <2>3, <3>2, <3>3, RegisterConsistent
  <2>4. CASE o.op = "ensure"
    <3>1. reg' = Ensured(o.recs, o.id, o.path)
      BY <1>2, <1>3, <2>4 DEF Applied
    <3>2. Rec(o.id, o.path) \notin o.recs
      BY <1>1, <1>3, <2>4 DEF RegInv, Checked, o
    <3>3. \A a, b \in Paths : ids[a] = ids[b] => a = b \/ ids[a] = 0
      BY <2>1 DEF RegInv, RegType
    <3>4. o.id = ids[o.path] /\ o.id > MaxCommands /\ o.id \in Nat /\ o.path \in Paths
      BY <1>3, <2>1, <2>4
    <3> QED
      BY <1>1, <2>1, <2>2, <3>1, <3>2, <3>3, <3>4, EnsureConsistent DEF RegInv
  <2>5. CASE o.op = "unregister"
    <3>1. reg' \subseteq o.recs
      BY <1>2, <2>5 DEF Applied
    <3> QED
      BY <2>2, <3>1 DEF Consistent
  <2> QED
    BY <1>3, <2>3, <2>4, <2>5
<1> QED
  BY <1>4, <1>5, <1>8, <1>9, <1>10, <1>11 DEF RegInv

\* Ten seconds pass.
LEMMA LockAgesKeeps ==
  ASSUME RegInv, LockAges, commands' = commands
  PROVE  RegInv'
<1>1. /\ lockfile' \in [by : Procs \union {"nobody"}, old : BOOLEAN]
      /\ lockfile'.by = lockfile.by /\ lockfile.by # "nobody"
  BY DEF RegInv, RegType, LockAges
<1>2. UNCHANGED <<reg, proc, dirs, ids, moved, drawn, owed, stolen>>
  BY DEF LockAges
<1>3. RegType' /\ Serial'
  BY <1>1, <1>2 DEF RegInv, RegType, Serial, AtWork
<1>4. Ids' /\ Fresh' /\ Checked' /\ RegistryReadable'
  BY <1>2 DEF RegInv, Ids, KnownId, Fresh, Registering, Checked, RegistryReadable, Consistent
<1> QED
  BY <1>3, <1>4 DEF RegInv

\* The file system refuses: nothing is written.
LEMMA IoErrorKeeps ==
  ASSUME RegInv, NEW p \in Procs, IoError(p), commands' = commands
  PROVE  RegInv'
<1> DEFINE o == [proc[p] EXCEPT !.pc = IF proc[p].pc = "lock" THEN "done" ELSE "drop",
                                !.recs = {}, !.ok = FALSE]
<1>1. /\ proc[p] \in OpType /\ proc \in [Procs -> OpType]
      /\ proc[p].pc \in {"lock", "load", "persist"} /\ proc[p].op # "none"
      /\ UNCHANGED <<reg, lockfile, dirs, ids, drawn, owed, stolen, moved>>
  BY DEF RegInv, RegType, Ids, IoError
<1>2. /\ o \in OpType /\ o.op = proc[p].op /\ o.id = proc[p].id /\ o.path = proc[p].path
      /\ o.recs = {} /\ o.pc \in {"drop", "done"}
      /\ o.pc = "drop" => proc[p].pc \in {"load", "persist"}
  BY <1>1 DEF OpType, RegPcs
<1>3. proc' = [proc EXCEPT ![p] = o]
  BY <1>1 DEF IoError
<1> HIDE DEF o
<1>4. /\ proc'[p] = o /\ \A q \in Procs : q # p => proc'[q] = proc[q]
      /\ proc' \in [Procs -> OpType]
  BY <1>1, <1>2, <1>3
<1>5. RegType'
  BY <1>1, <1>4 DEF RegInv, RegType
<1>6. Serial'
  BY <1>1, <1>2, <1>4 DEF RegInv, Serial, AtWork
<1>7. Ids' /\ Fresh' /\ Checked' /\ RegistryReadable'
  BY <1>1, <1>2, <1>4, <1>5, MoveKeeps DEF Registering
<1> QED
  BY <1>5, <1>6, <1>7 DEF RegInv

\* The user moves a folder: one that is not listed takes nothing from the ids
\* that are.
LEMMA MoveFolderKeeps ==
  ASSUME RegInv, NEW from \in Paths, NEW to \in Paths, MoveFolder(from, to),
         commands' = commands
  PROVE  RegInv'
<1>1. /\ UNCHANGED <<reg, lockfile, proc, dirs, drawn, owed, stolen, commands>>
      /\ ids[from] # 0 /\ ids[to] = 0
      /\ ids' = [ids EXCEPT ![to] = ids[from], ![from] = 0]
      /\ ids \in [Paths -> Nat]
  BY DEF MoveFolder, RegInv, RegType
<1>2. from # to
  BY <1>1
<1>3. /\ ids' \in [Paths -> Nat] /\ ids'[to] = ids[from] /\ ids'[from] = 0
      /\ \A q \in Paths \ {from, to} : ids'[q] = ids[q]
  BY <1>1, <1>2
<1>4. RegType'
  <2>1. \A q \in Paths : ids'[q] = 0 \/ ids'[q] > MaxCommands
    BY <1>1, <1>3 DEF RegInv, RegType
  <2>2. (\A a, b \in Paths : ids[a] = ids[b] => a = b \/ ids[a] = 0) =>
        (\A a, b \in Paths : ids'[a] = ids'[b] => a = b \/ ids'[a] = 0)
    BY <1>1, <1>2, <1>3
  <2> QED
    BY <1>1, <1>3, <2>1, <2>2 DEF RegInv, RegType
<1>5. ~moved' => /\ ~moved /\ \A r \in reg : r.id # ids[from]
                 /\ \A p \in Procs : Busy(p) => /\ proc[p].id # ids[from]
                                                /\ \A r \in proc[p].recs : r.id # ids[from]
  BY DEF MoveFolder, Listed
<1>6. \A r \in Records : KnownId(r) /\ (~moved' => r.id # ids[from]) => KnownId(r)'
  <2>1. SUFFICES ASSUME NEW r \in Records, KnownId(r), ~moved' => r.id # ids[from]
                 PROVE  KnownId(r)'
    OBVIOUS
  <2>2. r.path \in Paths /\ r.id \in Nat /\ MaxCommands \in Nat
    BY DaemonAssumption DEF Records
  <2>3. CASE r.id <= drawn
    BY <1>1, <2>3 DEF KnownId
  <2>4. CASE moved'
    BY <1>1, <2>1, <2>4 DEF KnownId
  <2>5. CASE ~moved' /\ ~(r.id <= drawn)
    <3>1. r.id > MaxCommands /\ r.id = ids[r.path] /\ r.id # ids[from] /\ r.id # 0
      BY <1>5, <2>1, <2>2, <2>5 DEF KnownId
    <3>2. r.path \notin {from, to}
      BY <1>1, <3>1
    <3>3. ids'[r.path] = ids[r.path]
      BY <1>3, <2>2, <3>2
    <3> QED
      BY <3>1, <3>3 DEF KnownId
  <2> QED
    BY <2>3, <2>4, <2>5
<1>7. Ids'
  <2>1. \A p \in Procs : proc[p].recs \subseteq Records
    BY DEF RegInv, RegType, OpType
  <2>2. \A p \in Procs : ~Busy(p) => proc[p].recs = {} /\ proc[p].op = "none"
    BY DEF RegInv, Ids, Busy
  <2>3. \A r \in reg : KnownId(r)'
    BY <1>5, <1>6 DEF RegInv, RegType, Ids
  <2>4. \A p \in Procs : \A r \in proc[p].recs : KnownId(r)'
    BY <1>5, <1>6, <2>1, <2>2 DEF RegInv, Ids
  <2>5. ASSUME NEW p \in Procs, proc[p].op = "ensure", ~moved'
        PROVE  proc[p].id = ids'[proc[p].path]
    <3>1. Busy(p) /\ proc[p].path \in Paths /\ proc[p].id > MaxCommands
          /\ proc[p].id = ids[proc[p].path] /\ proc[p].id # ids[from]
      BY <1>5, <2>2, <2>5 DEF RegInv, Ids
    <3>2. proc[p].id # 0
      BY <3>1, DaemonAssumption DEF RegInv, RegType, OpType
    <3>3. proc[p].path \notin {from, to}
      BY <1>1, <3>1, <3>2
    <3> QED
      BY <1>3, <3>1, <3>3
  <2> QED
    BY <1>1, <2>3, <2>4, <2>5 DEF RegInv, Ids
<1>8. Serial' /\ Fresh' /\ Checked'
  BY <1>1 DEF RegInv, Serial, Fresh, Checked, AtWork, Registering, Consistent
<1>9. RegistryReadable'
  BY <1>1, <1>5 DEF RegInv, RegistryReadable, Consistent
<1> QED
  BY <1>4, <1>7, <1>8, <1>9 DEF RegInv

\* Every step of an operation.
LEMMA RegistryStepKeeps ==
  ASSUME RegInv, NEW p \in Procs, RegistryStep(p), commands' = commands
  PROVE  RegInv'
BY LockCreateKeeps, LockStatKeeps, LockBreakKeeps, LockDropKeeps, LoadKeeps, PersistKeeps,
   IoErrorKeeps DEF RegistryStep

-----------------------------------------------------------------------------
(* The daemons: steps that leave the engines and the registry alone. *)

\* What Backed says only depends on the engines, the records and the daemons'
\* operations, and is excused by more and more.
LEMMA BackedFrame ==
  ASSUME Backed, UNCHANGED <<engines, reg>>, Settled' => Settled,
         \A d \in Daemons : proc'[d] = proc[d]
  PROVE  Backed'
BY DEF Backed, Wrote, IsOverlapping

\* Nothing of the daemons changes.
LEMMA DaemonFrame ==
  ASSUME DaemonInv, UNCHANGED <<life, engines, lockIno, starts, unlinked, reg>>,
         sock' \in Daemons \union {"nobody"}, Settled' => Settled,
         \A d \in Daemons : proc'[d] = proc[d]
  PROVE  DaemonInv'
<1>1. DaemonType'
  BY DEF DaemonInv, DaemonType
<1>2. Places' /\ Single'
  BY DEF DaemonInv, Places, Single, Busy
<1>3. Backed'
  BY BackedFrame DEF DaemonInv
<1> QED
  BY <1>1, <1>2, <1>3 DEF DaemonInv

\* ferry daemon.
LEMMA StartedKeeps ==
  ASSUME DaemonInv, NEW d \in Daemons, Started(d), UNCHANGED <<regVars, engines, lockIno>>,
         sock' \in {sock, "nobody"}, UNCHANGED <<unlinked, behind>>
  PROVE  DaemonInv'
<1> DEFINE l == [Down EXCEPT !.pc = "open", !.inc = starts + 1]
<1>1. /\ l \in LifeType /\ l.pc = "open" /\ l.inc = starts + 1 /\ l.ino = 0 /\ ~l.locked
  <2>1. starts + 1 \in Nat
    BY DaemonAssumption DEF DaemonInv, DaemonType
  <2> QED
    BY <2>1 DEF Down, LifeType, Pcs
<1> HIDE DEF l
<1>2. /\ life'[d] = l /\ \A c \in Daemons : c # d => life'[c] = life[c]
      /\ life' \in [Daemons -> LifeType] /\ life[d].pc = "down"
      /\ starts' = starts + 1 /\ starts < MaxStarts /\ starts \in 0..MaxStarts
  BY <1>1 DEF Started, DaemonInv, DaemonType, l
<1>3. DaemonType'
  <2>1. \A c \in Daemons : life[c].inc \in Nat
    BY DEF DaemonInv, DaemonType, LifeType
  <2>2. starts' \in 0..MaxStarts /\ starts \in Nat
    BY <1>2, DaemonAssumption
  <2>3. \A c \in Daemons : life'[c].ino \in {0} \union Inodes
    BY <1>1, <1>2 DEF DaemonInv, DaemonType
  <2>4. \A c \in Daemons : life'[c].inc <= starts' /\ (life'[c].pc # "down" => life'[c].inc >= 1)
    BY <1>1, <1>2, <2>1, <2>2 DEF DaemonInv, DaemonType
  <2> QED
    BY <1>2, <2>2, <2>3, <2>4 DEF DaemonInv, DaemonType
<1>4. Places'
  BY <1>1, <1>2 DEF DaemonInv, Places, Busy, regVars, Running, Holding
<1>5. Single'
  BY <1>1, <1>2 DEF DaemonInv, Single, Holding
<1>6. Backed'
  BY BackedFrame DEF DaemonInv, regVars, Settled
<1> QED
  BY <1>3, <1>4, <1>5, <1>6 DEF DaemonInv

\* acquire: the lock file is opened.
LEMMA OpenLockFileKeeps ==
  ASSUME DaemonInv, NEW d \in Daemons, OpenLockFile(d)
  PROVE  DaemonInv'
<1> DEFINE ino == IF lockIno # 0 THEN lockIno ELSE life[d].inc
<1>1. /\ life[d] \in LifeType /\ life[d].pc = "open" /\ life[d].inc \in 1..MaxStarts
      /\ ino \in Inodes
  <2>1. life[d] \in LifeType /\ life[d].pc = "open"
    BY DEF OpenLockFile, DaemonInv, DaemonType
  <2>2. /\ life[d].inc \in Nat /\ life[d].inc >= 1 /\ life[d].inc <= starts
        /\ starts \in 0..MaxStarts /\ lockIno \in {0} \union Inodes
    BY <2>1 DEF DaemonInv, DaemonType, LifeType
  <2>3. life[d].inc \in 1..MaxStarts
    BY <2>2, DaemonAssumption
  <2> QED
    BY <2>1, <2>2, <2>3 DEF Inodes
<1> HIDE DEF ino
<1>2. /\ life' = [life EXCEPT ![d].pc = "flock", ![d].ino = ino] /\ lockIno' = ino
      /\ lockIno # 0 => ino = lockIno
      /\ UNCHANGED <<regVars, engines, sock, starts, unlinked, behind>>
  BY DEF OpenLockFile, ino
<1>3. /\ life'[d] \in LifeType /\ life'[d].pc = "flock" /\ life'[d].ino = ino
      /\ life'[d].inc = life[d].inc /\ life'[d].locked = life[d].locked
      /\ \A c \in Daemons : c # d => life'[c] = life[c]
      /\ life' \in [Daemons -> LifeType]
  <2> DEFINE l == [life[d] EXCEPT !.pc = "flock", !.ino = ino]
  <2>1. ino \in Nat
    BY <1>1, DaemonAssumption DEF Inodes
  <2>2. /\ l \in LifeType /\ l.pc = "flock" /\ l.ino = ino /\ l.inc = life[d].inc
        /\ l.locked = life[d].locked
    BY <1>1, <2>1 DEF LifeType, Pcs
  <2>3. life' = [life EXCEPT ![d] = l]
    BY <1>1, <1>2 DEF DaemonInv, DaemonType
  <2> HIDE DEF l
  <2> QED
    BY <2>2, <2>3 DEF DaemonInv, DaemonType
<1>4. DaemonType'
  <2>1. \A c \in Daemons : life'[c].ino \in {0} \union Inodes
    BY <1>1, <1>3 DEF DaemonInv, DaemonType
  <2>2. \A c \in Daemons : life'[c].inc <= starts' /\ (life'[c].pc # "down" => life'[c].inc >= 1)
    BY <1>1, <1>2, <1>3 DEF DaemonInv, DaemonType
  <2> QED
    BY <1>1, <1>2, <1>3, <2>1, <2>2 DEF DaemonInv, DaemonType
<1>5. ~life[d].locked /\ engines[d] = {} /\ ~Busy(d)
  BY <1>1 DEF DaemonInv, Places, Running, Holding
<1>6. Places'
  BY <1>2, <1>3, <1>5 DEF DaemonInv, Places, Busy, regVars, Holding
<1>7. Single'
  <2>1. ino # 0
    BY <1>1, DaemonAssumption DEF Inodes
  <2> QED
    BY <1>2, <1>3, <1>5, <2>1 DEF DaemonInv, Single
<1>8. Backed'
  BY <1>2, BackedFrame DEF DaemonInv, regVars, Settled
<1> QED
  BY <1>4, <1>6, <1>7, <1>8 DEF DaemonInv

\* A daemon goes on to another place in run.
LEMMA LifeMoves ==
  ASSUME DaemonInv, NEW d \in Daemons, NEW l \in LifeType, life' = [life EXCEPT ![d] = l],
         l.inc = life[d].inc, l.ino \in {0, life[d].ino},
         l.pc # "down" => life[d].pc # "down",
         engines' \in [Daemons -> SUBSET EngineType], lockIno' \in {0, lockIno},
         starts' = starts, sock' \in {sock, d, "nobody"}
  PROVE  /\ DaemonType'
         /\ life'[d] = l /\ \A c \in Daemons : c # d => life'[c] = life[c]
<1>1. life'[d] = l /\ (\A c \in Daemons : c # d => life'[c] = life[c])
      /\ life' \in [Daemons -> LifeType]
  BY DEF DaemonInv, DaemonType
<1>2. \A c \in Daemons : life'[c].ino \in {0} \union Inodes
  BY <1>1 DEF DaemonInv, DaemonType
<1>3. \A c \in Daemons : life'[c].inc <= starts' /\ (life'[c].pc # "down" => life'[c].inc >= 1)
  BY <1>1 DEF DaemonInv, DaemonType
<1> QED
  BY <1>1, <1>2, <1>3 DEF DaemonInv, DaemonType

\* A process that exits leaves nothing locked.
LEMMA ExitRecord ==
  ASSUME DaemonInv, NEW d \in Daemons, Exit(d)
  PROVE  \E l \in LifeType : /\ life' = [life EXCEPT ![d] = l] /\ l.pc = "down" /\ l.ino = 0
                            /\ l.inc = life[d].inc /\ ~l.locked
<1>1. life[d].inc \in Nat
  BY DEF DaemonInv, DaemonType, LifeType
<1> DEFINE l == [Down EXCEPT !.inc = life[d].inc]
<1>2. l \in LifeType /\ l.pc = "down" /\ l.ino = 0 /\ l.inc = life[d].inc /\ ~l.locked
  BY <1>1 DEF Down, LifeType, Pcs
<1>3. life' = [life EXCEPT ![d] = l]
  BY DEF Exit
<1> HIDE DEF l
<1> QED
  BY <1>2, <1>3

\* acquire: the flock, granted unless another daemon has it.
LEMMA FlockKeeps ==
  ASSUME DaemonInv, NEW d \in Daemons, Flock(d)
  PROVE  DaemonInv'
<1> DEFINE taken == \E e \in Daemons \ {d} : life[e].locked /\ life[e].ino = life[d].ino
<1>1. life[d] \in LifeType /\ life[d].pc = "flock" /\ engines \in [Daemons -> SUBSET EngineType]
  BY DEF Flock, DaemonInv, DaemonType
<1>2. UNCHANGED <<regVars, engines, lockIno, sock, starts, unlinked, behind>>
  BY DEF Flock
<1>3. ~life[d].locked /\ engines[d] = {} /\ ~Busy(d)
  BY <1>1 DEF DaemonInv, Places, Running, Holding
<1>4. Backed'
  BY <1>2, BackedFrame DEF DaemonInv, regVars, Settled
<1>5. CASE taken
  <2>1. PICK l \in LifeType : /\ life' = [life EXCEPT ![d] = l] /\ l.pc = "down" /\ l.ino = 0
                             /\ l.inc = life[d].inc /\ ~l.locked
    BY <1>5, ExitRecord DEF Flock
  <2>2. DaemonType' /\ life'[d] = l /\ \A c \in Daemons : c # d => life'[c] = life[c]
    BY <1>1, <1>2, <2>1, LifeMoves
  <2>3. Places'
    BY <1>2, <1>3, <2>1, <2>2 DEF DaemonInv, Places, Busy, regVars, Holding
  <2>4. Single'
    BY <1>2, <2>1, <2>2 DEF DaemonInv, Single, Holding
  <2> QED
    BY <1>4, <2>2, <2>3, <2>4 DEF DaemonInv
<1>6. CASE ~taken
  <2> DEFINE l == [life[d] EXCEPT !.pc = "spawn", !.locked = TRUE]
  <2>1. /\ l \in LifeType /\ l.pc = "spawn" /\ l.ino = life[d].ino /\ l.inc = life[d].inc
        /\ l.locked
    BY <1>1 DEF LifeType, Pcs
  <2>2. life' = [life EXCEPT ![d] = l]
    BY <1>1, <1>6 DEF Flock, DaemonInv, DaemonType
  <2> HIDE DEF l
  <2>3. DaemonType' /\ life'[d] = l /\ \A c \in Daemons : c # d => life'[c] = life[c]
    BY <1>1, <1>2, <2>1, <2>2, LifeMoves
  <2>4. Places'
    BY <1>2, <1>3, <2>1, <2>3 DEF DaemonInv, Places, Busy, regVars, Holding
  <2>5. Single'
    <3>1. ~unlinked => \A c \in Daemons : c # d => ~life[c].locked
      <4>1. \A c \in Daemons : life[c].locked => life[c].pc \in Holding
        BY DEF DaemonInv, Places
      <4> QED
        BY <1>1, <1>6, <4>1 DEF DaemonInv, Single
    <3>2. ~unlinked => life[d].ino = lockIno /\ lockIno # 0
      BY <1>1 DEF DaemonInv, Single
    <3> QED
      BY <1>2, <2>1, <2>3, <3>1, <3>2 DEF DaemonInv, Single
  <2> QED
    BY <1>4, <2>3, <2>4, <2>5 DEF DaemonInv
<1> QED
  BY <1>5, <1>6

\* Drop: the lock is released.
LEMMA DropLockKeeps ==
  ASSUME DaemonInv, NEW d \in Daemons, DropLock(d)
  PROVE  DaemonInv'
<1>1. life[d] \in LifeType /\ life[d].pc = "drop" /\ engines \in [Daemons -> SUBSET EngineType]
  BY DEF DropLock, DaemonInv, DaemonType
<1>2. UNCHANGED <<regVars, engines, lockIno, sock, starts, unlinked, behind>>
  BY DEF DropLock
<1>3. engines[d] = {} /\ ~Busy(d)
  BY <1>1 DEF DaemonInv, Places, Running
<1> DEFINE l == [life[d] EXCEPT !.pc = "unlink", !.locked = FALSE]
<1>4. /\ l \in LifeType /\ l.pc = "unlink" /\ l.ino = life[d].ino /\ l.inc = life[d].inc
      /\ ~l.locked
  BY <1>1 DEF LifeType, Pcs
<1>5. life' = [life EXCEPT ![d] = l]
  BY <1>1 DEF DropLock, DaemonInv, DaemonType
<1> HIDE DEF l
<1>6. DaemonType' /\ life'[d] = l /\ \A c \in Daemons : c # d => life'[c] = life[c]
  BY <1>1, <1>2, <1>4, <1>5, LifeMoves
<1>7. Places'
  BY <1>2, <1>3, <1>4, <1>6 DEF DaemonInv, Places, Busy, regVars, Holding
<1>8. Single'
  BY <1>2, <1>4, <1>6 DEF DaemonInv, Single, Holding
<1>9. Backed'
  BY <1>2, BackedFrame DEF DaemonInv, regVars, Settled
<1> QED
  BY <1>6, <1>7, <1>8, <1>9 DEF DaemonInv

\* Drop: the lock file is unlinked; nobody has it open, or that is remembered.
LEMMA UnlinkKeeps ==
  ASSUME DaemonInv, NEW d \in Daemons, Unlink(d)
  PROVE  DaemonInv'
<1>1. life[d].pc = "unlink" /\ engines \in [Daemons -> SUBSET EngineType]
  BY DEF Unlink, DaemonInv, DaemonType
<1>2. UNCHANGED <<regVars, engines, sock, starts, behind>> /\ lockIno' = 0
      /\ (unlinked => unlinked')
  BY DEF Unlink
<1>3. engines[d] = {} /\ ~Busy(d)
  BY <1>1 DEF DaemonInv, Places, Running
<1>4. PICK l \in LifeType : /\ life' = [life EXCEPT ![d] = l] /\ l.pc = "down" /\ l.ino = 0
                           /\ l.inc = life[d].inc /\ ~l.locked
  BY ExitRecord DEF Unlink
<1>5. DaemonType' /\ life'[d] = l /\ \A c \in Daemons : c # d => life'[c] = life[c]
  BY <1>1, <1>2, <1>4, LifeMoves
<1>6. Places'
  BY <1>2, <1>3, <1>4, <1>5 DEF DaemonInv, Places, Busy, regVars, Holding
<1>7. Single'
  <2>1. ~unlinked' => \A c \in Daemons : c # d => life[c].pc \notin Holding \union {"flock"}
    BY DEF DaemonInv, Single, Unlink, Holding
  <2> QED
    BY <1>2, <1>4, <1>5, <2>1 DEF DaemonInv, Single, Holding
<1>8. Backed'
  BY <1>2, BackedFrame DEF DaemonInv, regVars, Settled
<1> QED
  BY <1>5, <1>6, <1>7, <1>8 DEF DaemonInv

-----------------------------------------------------------------------------
(* The daemons: steps of the one that has the lock. *)

\* A daemon that keeps its lock and its command.
LEMMA HeldMoves ==
  ASSUME DaemonInv, NEW d \in Daemons, NEW pc \in Holding, NEW term \in BOOLEAN,
         life[d].pc \in Holding,
         life' = [life EXCEPT ![d].pc = pc, ![d].term = term],
         Busy(d) => life[d].locked /\ pc \in {"serve", "closing"},
         engines' \in [Daemons -> SUBSET EngineType], lockIno' = lockIno,
         starts' = starts, sock' \in {sock, d, "nobody"}, unlinked' = unlinked, proc' = proc,
         \A c \in Daemons : c # d => engines'[c] = engines[c],
         engines'[d] # {} => life[d].locked /\ pc \in Running
  PROVE  DaemonType' /\ Places' /\ Single'
<1>1. life[d] \in LifeType
  BY DEF DaemonInv, DaemonType
<1> DEFINE l == [life[d] EXCEPT !.pc = pc, !.term = term]
<1>2. /\ l \in LifeType /\ l.pc = pc /\ l.ino = life[d].ino /\ l.inc = life[d].inc
      /\ l.locked = life[d].locked
  BY <1>1 DEF LifeType, Pcs, Holding
<1>3. life' = [life EXCEPT ![d] = l]
  BY <1>1 DEF DaemonInv, DaemonType
<1>4. life[d].pc # "down"
  BY DEF Holding
<1> HIDE DEF l
<1>5. DaemonType' /\ life'[d] = l /\ \A c \in Daemons : c # d => life'[c] = life[c]
  BY <1>2, <1>3, <1>4, LifeMoves
<1>6. Places'
  BY <1>2, <1>5 DEF DaemonInv, Places, Busy
<1>7. Single'
  BY <1>2, <1>5 DEF DaemonInv, Single
<1> QED
  BY <1>5, <1>6, <1>7

\* An engine is started for a record.
LEMMA EngineFacts ==
  ASSUME NEW r, r.id \in Nat, r.path \in Paths
  PROVE  Engine(r) \in EngineType /\ Engine(r).id = r.id /\ Engine(r).path = r.path
BY DEF Engine, EngineType

\* A record is its id and its path.
LEMMA RecFacts ==
  ASSUME NEW r \in Records
  PROVE  Rec(r.id, r.path) = r /\ r.id \in Nat /\ r.path \in Paths
BY DEF Rec, Records

\* spawn_engines: what load_strict accepts does not overlap.
LEMMA SpawnEnginesKeeps ==
  ASSUME RegInv, DaemonInv, NEW d \in Daemons, SpawnEngines(d)
  PROVE  DaemonInv'
<1>1. life[d] \in LifeType /\ life[d].pc = "spawn" /\ engines \in [Daemons -> SUBSET EngineType]
      /\ life \in [Daemons -> LifeType]
  BY DEF SpawnEngines, DaemonInv, DaemonType
<1>2. UNCHANGED <<regVars, lockIno, sock, starts, unlinked, behind>>
  BY DEF SpawnEngines
<1>3. engines[d] = {} /\ ~Busy(d) /\ d \in Procs
  BY <1>1, DaemonAssumption DEF DaemonInv, Places, Running
<1>4. CASE ~(Loads /\ \A r \in reg : CanOpen(r.path))
  <2>1. life' = [life EXCEPT ![d].pc = "drop"] /\ engines' = engines
    BY <1>4 DEF SpawnEngines
  <2>2. /\ life[d].term \in BOOLEAN
        /\ life' = [life EXCEPT ![d].pc = "drop", ![d].term = life[d].term]
    BY <1>1, <2>1 DEF LifeType
  <2>3. DaemonType' /\ Places' /\ Single'
    BY <1>1, <1>2, <1>3, <2>1, <2>2, HeldMoves DEF regVars, Holding
  <2>4. Backed'
    BY <1>2, <2>1, BackedFrame DEF DaemonInv, regVars, Settled
  <2> QED
    BY <2>3, <2>4 DEF DaemonInv
<1>5. CASE Loads /\ \A r \in reg : CanOpen(r.path)
  <2>1. /\ life' = [life EXCEPT ![d].pc = "bind"]
        /\ engines' = [engines EXCEPT ![d] = {Engine(r) : r \in reg}]
    BY <1>5 DEF SpawnEngines
  <2>2. /\ life[d].term \in BOOLEAN
        /\ life' = [life EXCEPT ![d].pc = "bind", ![d].term = life[d].term]
    BY <1>1, <2>1 DEF LifeType
  <2>3. \A r \in reg : /\ r \in Records /\ Engine(r) \in EngineType /\ Rec(r.id, r.path) = r
                       /\ Engine(r).id = r.id /\ Engine(r).path = r.path
    BY EngineFacts, RecFacts DEF RegInv, RegType
  <2>4. /\ engines'[d] = {Engine(r) : r \in reg}
        /\ \A c \in Daemons : c # d => engines'[c] = engines[c]
        /\ engines' \in [Daemons -> SUBSET EngineType]
    BY <1>1, <2>1, <2>3
  <2>5. DaemonType' /\ Places' /\ Single'
    <3>1. life[d].locked
      BY <1>1 DEF DaemonInv, Places, Holding
    <3> QED
      BY <1>1, <1>2, <1>3, <2>2, <2>4, <3>1, HeldMoves DEF regVars, Holding, Running
  <2>6. Backed'
    <3>1. SUFFICES ASSUME Settled', NEW c \in Daemons
                   PROVE  /\ \A e, f \in engines'[c] : e # f => ~IsOverlapping(e.path, f.path)
                          /\ \A e \in engines'[c] :
                               Rec(e.id, e.path) \in reg'
                               \/ (Wrote(c, "unregister")' /\ e.id = proc'[c].id)
                          /\ Wrote(c, "register")' =>
                               /\ Rec(proc'[c].id, proc'[c].path) \in reg'
                               /\ \A e \in engines'[c] : ~IsOverlapping(e.path, proc'[c].path)
      BY DEF Backed, IsOverlapping
    <3>2. Settled /\ reg' = reg /\ proc' = proc
      BY <1>2, <3>1 DEF Settled, regVars
    <3>3. CASE c # d
      BY <2>4, <3>2, <3>3 DEF DaemonInv, Backed, Wrote
    <3>4. CASE c = d
      <4>1. Consistent(reg)
        BY <1>5 DEF Loads
      <4>2. \A e, f \in engines'[c] : e # f => ~IsOverlapping(e.path, f.path)
        BY <2>3, <2>4, <3>4, <4>1 DEF Consistent
      <4>3. \A e \in engines'[c] : Rec(e.id, e.path) \in reg'
        BY <2>3, <2>4, <3>2, <3>4
      <4>4. ~Wrote(c, "register")'
        BY <1>3, <3>2, <3>4 DEF Wrote, Busy
      <4> QED
        BY <4>2, <4>3, <4>4
    <3> QED
      BY <3>3, <3>4
  <2> QED
    BY <2>5, <2>6 DEF DaemonInv
<1> QED
  BY <1>4, <1>5

\* The socket is bound, a signal comes, the socket goes.
LEMMA LoopKeeps ==
  ASSUME DaemonInv, NEW d \in Daemons, NEW pc \in {"serve", "closing"}, NEW term \in BOOLEAN,
         life[d].pc \in Running, life[d].pc = "closing" => pc = "closing",
         life' = [life EXCEPT ![d].pc = pc, ![d].term = term],
         sock' \in {sock, d, "nobody"},
         UNCHANGED <<reg, proc, stolen, engines, lockIno, starts, unlinked, behind>>
  PROVE  DaemonInv'
<1>1. engines \in [Daemons -> SUBSET EngineType] /\ life[d].locked
  BY DEF DaemonInv, DaemonType, Places, Running, Holding
<1>2. DaemonType' /\ Places' /\ Single'
  BY <1>1, HeldMoves DEF Holding, Running
<1>3. Backed'
  BY BackedFrame DEF DaemonInv, Settled
<1> QED
  BY <1>2, <1>3 DEF DaemonInv

\* The engines of a daemon change, but not what they are for.
LEMMA EnginesChange ==
  ASSUME DaemonInv, NEW d \in Daemons, NEW S \in SUBSET EngineType,
         engines' = [engines EXCEPT ![d] = S],
         UNCHANGED <<reg, proc, stolen, life, lockIno, starts, unlinked, behind, sock>>,
         \A e \in S : \E g \in engines[d] : g.id = e.id /\ g.path = e.path,
         \A e, f \in S : e # f => \E g, h \in engines[d] :
                                   g # h /\ g.path = e.path /\ h.path = f.path
  PROVE  DaemonInv'
<1>1. /\ engines'[d] = S /\ \A c \in Daemons : c # d => engines'[c] = engines[c]
      /\ engines' \in [Daemons -> SUBSET EngineType]
  BY DEF DaemonInv, DaemonType
<1>2. DaemonType' /\ Single'
  BY <1>1 DEF DaemonInv, DaemonType, Single
<1>3. engines'[d] # {} => engines[d] # {}
  BY <1>1
<1>4. Places'
  BY <1>1, <1>3 DEF DaemonInv, Places, Busy
<1>5. Settled' => Settled
  BY DEF Settled
<1>6. Backed'
  <2>1. SUFFICES ASSUME Settled, NEW c \in Daemons
                 PROVE  /\ \A e, f \in engines'[c] : e # f => ~IsOverlapping(e.path, f.path)
                        /\ \A e \in engines'[c] :
                             Rec(e.id, e.path) \in reg
                             \/ (Wrote(c, "unregister") /\ e.id = proc[c].id)
                        /\ Wrote(c, "register") =>
                             /\ Rec(proc[c].id, proc[c].path) \in reg
                             /\ \A e \in engines'[c] : ~IsOverlapping(e.path, proc[c].path)
    BY <1>5 DEF Backed, IsOverlapping, Wrote
  <2>2. CASE c # d
    BY <1>1, <2>1, <2>2 DEF DaemonInv, Backed
  <2>3. CASE c = d
    <3>1. \A e, f \in S : e # f => ~IsOverlapping(e.path, f.path)
      BY <2>1 DEF DaemonInv, Backed
    <3>2. \A e \in S : Rec(e.id, e.path) \in reg \/ (Wrote(d, "unregister") /\ e.id = proc[d].id)
      BY <2>1 DEF DaemonInv, Backed
    <3>3. Wrote(d, "register") =>
            /\ Rec(proc[d].id, proc[d].path) \in reg
            /\ \A e \in S : ~IsOverlapping(e.path, proc[d].path)
      BY <2>1 DEF DaemonInv, Backed
    <3> QED
      BY <1>1, <2>3, <3>1, <3>2, <3>3
  <2> QED
    BY <2>2, <2>3
<1> QED
  BY <1>2, <1>4, <1>6 DEF DaemonInv

\* FolderEngine::tick leaves an engine its folder.
LEMMA TickedFacts ==
  ASSUME NEW e \in EngineType, NEW bound \in BOOLEAN
  PROVE  /\ Ticked(e, bound) \in EngineType
         /\ Ticked(e, bound).id = e.id /\ Ticked(e, bound).path = e.path
BY DEF Ticked, EngineType

\* Supervisor::tick, the end of a backoff, and a loop that ends.
LEMMA EnginesKeep ==
  ASSUME DaemonInv, NEW d \in Daemons, Tick(d) \/ BackoffPasses(d) \/ EngineFails(d)
  PROVE  DaemonInv'
<1>1. engines[d] \in SUBSET EngineType
  BY DEF DaemonInv, DaemonType
<1>2. UNCHANGED <<reg, proc, stolen, life, lockIno, starts, unlinked, behind, sock>>
  BY DEF Tick, BackoffPasses, EngineFails, regVars
<1>3. CASE Tick(d)
  <2>1. PICK bound \in BOOLEAN :
          engines' = [engines EXCEPT ![d] = {Ticked(e, bound) : e \in engines[d]}]
    BY <1>3 DEF Tick, DaemonInv, DaemonType
  <2> DEFINE S == {Ticked(e, bound) : e \in engines[d]}
  <2>2. S \in SUBSET EngineType
    BY <1>1, TickedFacts
  <2>3. \A e \in S : \E g \in engines[d] : e = Ticked(g, bound) /\ g.id = e.id /\ g.path = e.path
    BY <1>1, TickedFacts
  <2>4. \A e, f \in S : e # f => \E g, h \in engines[d] :
                                  g # h /\ g.path = e.path /\ h.path = f.path
    BY <2>3
  <2>5. engines' = [engines EXCEPT ![d] = S]
    BY <2>1
  <2>6. \A e \in S : \E g \in engines[d] : g.id = e.id /\ g.path = e.path
    BY <2>3
  <2> HIDE DEF S
  <2> QED
    BY <1>2, <2>2, <2>4, <2>5, <2>6, EnginesChange
<1>4. CASE BackoffPasses(d)
  <2> DEFINE S == {[e EXCEPT !.wait = FALSE] : e \in engines[d]}
  <2>1. \A e \in EngineType : /\ [e EXCEPT !.wait = FALSE] \in EngineType
                              /\ [e EXCEPT !.wait = FALSE].id = e.id
                              /\ [e EXCEPT !.wait = FALSE].path = e.path
    BY DEF EngineType
  <2>2. S \in SUBSET EngineType
    BY <1>1, <2>1
  <2>3. \A e \in S : \E g \in engines[d] :
                      e = [g EXCEPT !.wait = FALSE] /\ g.id = e.id /\ g.path = e.path
    BY <1>1, <2>1
  <2>4. \A e, f \in S : e # f => \E g, h \in engines[d] :
                                  g # h /\ g.path = e.path /\ h.path = f.path
    BY <2>3
  <2>5. engines' = [engines EXCEPT ![d] = S]
    BY <1>4 DEF BackoffPasses
  <2>6. \A e \in S : \E g \in engines[d] : g.id = e.id /\ g.path = e.path
    BY <2>3
  <2> HIDE DEF S
  <2> QED
    BY <1>2, <2>2, <2>4, <2>5, <2>6, EnginesChange
<1>5. CASE EngineFails(d)
  <2>1. PICK g \in engines[d] :
          engines' = [engines EXCEPT ![d] = (@ \ {g}) \union {[g EXCEPT !.ok = FALSE]}]
    BY <1>5 DEF EngineFails
  <2> DEFINE n == [g EXCEPT !.ok = FALSE]
             S == (engines[d] \ {g}) \union {n}
  <2>2. n \in EngineType /\ n.id = g.id /\ n.path = g.path
    BY <1>1 DEF EngineType
  <2>3. engines' = [engines EXCEPT ![d] = S]
    BY <2>1 DEF DaemonInv, DaemonType
  <2> HIDE DEF n
  <2>4. S \in SUBSET EngineType
    BY <1>1, <2>2
  <2>5. \A e \in S : \E h \in engines[d] : h.id = e.id /\ h.path = e.path
    BY <2>2
  <2>6. \A e, f \in S : e # f => \E h, k \in engines[d] :
                                  h # k /\ h.path = e.path /\ k.path = f.path
    BY <2>2
  <2> HIDE DEF S
  <2> QED
    BY <1>2, <2>3, <2>4, <2>5, <2>6, EnginesChange
<1> QED
  BY <1>3, <1>4, <1>5

\* handle_register: the new folder overlaps none that has an engine.
LEMMA RegisteredKeeps ==
  ASSUME RegInv, DaemonInv, NEW d \in Daemons, Registered(d)
  PROVE  DaemonInv'
<1>1. d \in Procs /\ proc[d].pc = "done" /\ proc[d].op = "register"
  BY DaemonAssumption DEF Registered
<1>2. UNCHANGED <<reg, stolen, life, lockIno, sock, starts, unlinked, behind>>
  BY DEF Registered
<1>3. /\ Engine(proc[d]) \in EngineType /\ Engine(proc[d]).id = proc[d].id
      /\ Engine(proc[d]).path = proc[d].path
  <2>1. proc[d].id \in Nat /\ proc[d].path \in Paths
    BY <1>1 DEF RegInv, RegType, OpType, Ids
  <2> QED
    BY <2>1, EngineFacts
<1> DEFINE n == Engine(proc[d])
<1>4. PICK S : /\ S \in {engines[d], engines[d] \union {n}}
               /\ engines' = [engines EXCEPT ![d] = S]
               /\ S # engines[d] => proc[d].ok
  <2>1. engines \in [Daemons -> SUBSET EngineType]
    BY DEF DaemonInv, DaemonType
  <2> DEFINE R == IF proc[d].ok /\ CanOpen(proc[d].path) THEN engines[d] \union {n} ELSE engines[d]
  <2>2. R \in {engines[d], engines[d] \union {n}} /\ (R # engines[d] => proc[d].ok)
    OBVIOUS
  <2>3. engines' = [engines EXCEPT ![d] = R]
    <3>1. CASE proc[d].ok /\ CanOpen(proc[d].path)
      BY <2>1, <3>1 DEF Registered
    <3>2. CASE ~(proc[d].ok /\ CanOpen(proc[d].path))
      BY <2>1, <3>2 DEF Registered
    <3> QED
      BY <3>1, <3>2
  <2> QED
    BY <2>2, <2>3
<1>5. /\ engines'[d] = S /\ \A c \in Daemons : c # d => engines'[c] = engines[c]
      /\ engines' \in [Daemons -> SUBSET EngineType]
  BY <1>3, <1>4 DEF DaemonInv, DaemonType
<1>6. /\ proc'[d] = NoOp /\ NoOp.pc = "idle"
      /\ \A c \in Daemons : c # d => proc'[c] = proc[c]
  BY DaemonAssumption DEF Registered, RegInv, RegType, NoOp
<1>7. life[d].pc \in {"serve", "closing"} /\ life[d].locked
  BY <1>1 DEF DaemonInv, Places, Busy
<1>8. DaemonType' /\ Single'
  BY <1>2, <1>5 DEF DaemonInv, DaemonType, Single
<1>9. Places'
  <2>1. \A c \in Daemons : c # d => /\ Busy(c)' <=> Busy(c)
                                    /\ engines'[c] = engines[c]
    BY <1>5, <1>6 DEF Busy
  <2>2. ~Busy(d)'
    BY <1>6 DEF Busy
  <2> QED
    BY <1>2, <1>7, <2>1, <2>2 DEF DaemonInv, Places, Running
<1>10. Backed'
  <2>1. SUFFICES ASSUME Settled, NEW c \in Daemons
                 PROVE  /\ \A e, f \in engines'[c] : e # f => ~IsOverlapping(e.path, f.path)
                        /\ \A e \in engines'[c] :
                             Rec(e.id, e.path) \in reg
                             \/ (Wrote(c, "unregister")' /\ e.id = proc'[c].id)
                        /\ Wrote(c, "register")' =>
                             /\ Rec(proc'[c].id, proc'[c].path) \in reg
                             /\ \A e \in engines'[c] : ~IsOverlapping(e.path, proc'[c].path)
    BY <1>2 DEF Backed, IsOverlapping, Settled
  <2>2. CASE c # d
    BY <1>5, <1>6, <2>1, <2>2 DEF DaemonInv, Backed, Wrote
  <2>3. CASE c = d
    <3>1. \A e, f \in engines[d] : e # f => ~IsOverlapping(e.path, f.path)
      BY <2>1 DEF DaemonInv, Backed
    <3>2. \A e \in engines[d] : Rec(e.id, e.path) \in reg
      BY <1>1, <2>1 DEF DaemonInv, Backed, Wrote
    <3>3. proc[d].ok => /\ Rec(proc[d].id, proc[d].path) \in reg
                        /\ \A e \in engines[d] : ~IsOverlapping(e.path, proc[d].path)
                        /\ \A e \in engines[d] : ~IsOverlapping(proc[d].path, e.path)
      BY <1>1, <2>1, OverlapSymmetric DEF DaemonInv, Backed, Wrote
    <3>4. \A e, f \in S : e # f => ~IsOverlapping(e.path, f.path)
      BY <1>3, <1>4, <3>1, <3>3
    <3>5. \A e \in S : Rec(e.id, e.path) \in reg
      BY <1>3, <1>4, <3>2, <3>3
    <3>6. ~Wrote(d, "register")'
      BY <1>6 DEF Wrote
    <3> QED
      BY <1>5, <2>3, <3>4, <3>5, <3>6
  <2> QED
    BY <2>2, <2>3
<1> QED
  BY <1>8, <1>9, <1>10 DEF DaemonInv

\* handle_remove: the engine that has no record any more is stopped.
LEMMA RemovedKeeps ==
  ASSUME RegInv, DaemonInv, NEW d \in Daemons, Removed(d)
  PROVE  DaemonInv'
<1>1. d \in Procs /\ proc[d].pc = "done" /\ proc[d].op = "unregister"
  BY DaemonAssumption DEF Removed
<1>2. UNCHANGED <<reg, stolen, life, lockIno, sock, starts, unlinked, behind>>
  BY DEF Removed
<1>3. PICK S \in SUBSET engines[d] :
        /\ engines' = [engines EXCEPT ![d] = S]
        /\ proc[d].ok => \A e \in S : e.id # proc[d].id
  <2>1. engines \in [Daemons -> SUBSET EngineType]
    BY DEF DaemonInv, DaemonType
  <2>2. CASE proc[d].ok
    <3> DEFINE S == {e \in engines[d] : e.id # proc[d].id}
    <3>1. engines' = [engines EXCEPT ![d] = S]
      BY <2>2 DEF Removed
    <3>2. S \in SUBSET engines[d] /\ \A e \in S : e.id # proc[d].id
      OBVIOUS
    <3> HIDE DEF S
    <3> QED
      BY <3>1, <3>2
  <2>3. CASE ~proc[d].ok
    <3>1. engines' = [engines EXCEPT ![d] = engines[d]]
      BY <2>1, <2>3 DEF Removed
    <3> QED
      BY <2>3, <3>1
  <2> QED
    BY <2>2, <2>3
<1>4. /\ engines'[d] = S /\ \A c \in Daemons : c # d => engines'[c] = engines[c]
      /\ engines' \in [Daemons -> SUBSET EngineType]
  BY <1>3 DEF DaemonInv, DaemonType
<1>5. /\ proc'[d] = NoOp /\ NoOp.pc = "idle"
      /\ \A c \in Daemons : c # d => proc'[c] = proc[c]
  BY DaemonAssumption DEF Removed, RegInv, RegType, NoOp
<1>6. DaemonType' /\ Single'
  BY <1>2, <1>4 DEF DaemonInv, DaemonType, Single
<1>7. Places'
  <2>1. \A c \in Daemons : /\ Busy(c)' => Busy(c)
                           /\ engines'[c] # {} => engines[c] # {}
    BY <1>4, <1>5 DEF Busy
  <2> QED
    BY <1>2, <2>1 DEF DaemonInv, Places
<1>8. Backed'
  <2>1. SUFFICES ASSUME Settled, NEW c \in Daemons
                 PROVE  /\ \A e, f \in engines'[c] : e # f => ~IsOverlapping(e.path, f.path)
                        /\ \A e \in engines'[c] :
                             Rec(e.id, e.path) \in reg
                             \/ (Wrote(c, "unregister")' /\ e.id = proc'[c].id)
                        /\ Wrote(c, "register")' =>
                             /\ Rec(proc'[c].id, proc'[c].path) \in reg
                             /\ \A e \in engines'[c] : ~IsOverlapping(e.path, proc'[c].path)
    BY <1>2 DEF Backed, IsOverlapping, Settled
  <2>2. CASE c # d
    BY <1>4, <1>5, <2>1, <2>2 DEF DaemonInv, Backed, Wrote
  <2>3. CASE c = d
    <3>1. \A e, f \in S : e # f => ~IsOverlapping(e.path, f.path)
      BY <2>1 DEF DaemonInv, Backed
    <3>2. \A e \in S : Rec(e.id, e.path) \in reg
      BY <1>3, <2>1 DEF DaemonInv, Backed, Wrote
    <3>3. ~Wrote(d, "register")'
      BY <1>5 DEF Wrote
    <3> QED
      BY <1>4, <2>3, <3>1, <3>2, <3>3
  <2> QED
    BY <2>2, <2>3
<1> QED
  BY <1>6, <1>7, <1>8 DEF DaemonInv

\* The engines are shut down.
LEMMA QuiesceKeeps ==
  ASSUME DaemonInv, NEW d \in Daemons, Quiesce(d)
  PROVE  DaemonInv'
<1>1. life[d] \in LifeType /\ life[d].pc = "closing" /\ ~Busy(d)
      /\ engines \in [Daemons -> SUBSET EngineType] /\ life \in [Daemons -> LifeType]
  BY DEF Quiesce, DaemonInv, DaemonType
<1>2. UNCHANGED <<regVars, lockIno, sock, starts, unlinked, behind>>
  BY DEF Quiesce
<1>3. /\ engines'[d] = {} /\ \A c \in Daemons : c # d => engines'[c] = engines[c]
      /\ engines' \in [Daemons -> SUBSET EngineType]
  BY <1>1 DEF Quiesce
<1>4. /\ life[d].term \in BOOLEAN
      /\ life' = [life EXCEPT ![d].pc = "drop", ![d].term = life[d].term]
  BY <1>1 DEF LifeType, Quiesce
<1>5. DaemonType' /\ Places' /\ Single'
  BY <1>1, <1>2, <1>3, <1>4, HeldMoves DEF regVars, Holding
<1>6. \A c \in Daemons : engines'[c] \subseteq engines[c]
  BY <1>3
<1>7. Backed'
  BY <1>2, <1>6 DEF DaemonInv, Backed, Wrote, Settled, regVars, IsOverlapping
<1> QED
  BY <1>5, <1>7 DEF DaemonInv

\* The process ends, at any point.
LEMMA DiesKeeps ==
  ASSUME RegInv, DaemonInv, NEW d \in Daemons, Dies(d), sock' = sock
  PROVE  DaemonInv'
<1>1. engines \in [Daemons -> SUBSET EngineType] /\ proc \in [Procs -> OpType] /\ d \in Procs
  BY DaemonAssumption DEF RegInv, RegType, DaemonInv, DaemonType
<1>2. UNCHANGED <<reg, stolen, lockIno, starts, unlinked, behind>>
  BY DEF Dies
<1>3. /\ engines'[d] = {} /\ \A c \in Daemons : c # d => engines'[c] = engines[c]
      /\ engines' \in [Daemons -> SUBSET EngineType]
  BY <1>1 DEF Dies
<1>4. /\ proc'[d] = NoOp /\ NoOp.pc = "idle"
      /\ \A c \in Daemons : c # d => proc'[c] = proc[c]
  BY <1>1, DaemonAssumption DEF Dies, NoOp
<1>5. PICK l \in LifeType : /\ life' = [life EXCEPT ![d] = l] /\ l.pc = "down" /\ l.ino = 0
                           /\ l.inc = life[d].inc /\ ~l.locked
  BY ExitRecord DEF Dies
<1>6. DaemonType' /\ life'[d] = l /\ \A c \in Daemons : c # d => life'[c] = life[c]
  BY <1>2, <1>3, <1>5, LifeMoves
<1>7. Places'
  <2>1. ~Busy(d)' /\ \A c \in Daemons : c # d => (Busy(c)' <=> Busy(c))
    BY <1>4 DEF Busy
  <2> QED
    BY <1>3, <1>5, <1>6, <2>1 DEF DaemonInv, Places, Holding
<1>8. Single'
  BY <1>2, <1>5, <1>6 DEF DaemonInv, Single, Holding
<1>9. Backed'
  <2>1. ~Wrote(d, "register")'
    BY <1>4 DEF Wrote
  <2>2. \A c \in Daemons : c # d => /\ Wrote(c, "register")' <=> Wrote(c, "register")
                                    /\ Wrote(c, "unregister")' <=> Wrote(c, "unregister")
    BY <1>4 DEF Wrote
  <2>3. Settled' => Settled
    BY <1>2 DEF Settled
  <2> QED
    BY <1>2, <1>3, <1>4, <2>1, <2>2, <2>3 DEF DaemonInv, Backed, IsOverlapping
<1> QED
  BY <1>6, <1>7, <1>8, <1>9 DEF DaemonInv

-----------------------------------------------------------------------------
(* The daemons: steps of operations on the registry. *)

\* A step of an operation before or after the rename.
LEMMA OtherStepKeeps ==
  ASSUME RegInv, DaemonInv, NEW p \in Procs, RegistryMoves(p), ~Persist(p)
  PROVE  DaemonInv'
<1>1. LockCreate(p) \/ LockStat(p) \/ LockBreak(p) \/ LockDrop(p) \/ Load(p) \/ IoError(p)
  BY DEF RegistryMoves, RegistryStep
<1>2. UNCHANGED <<life, engines, lockIno, sock, starts, unlinked>> /\ (behind => behind')
  BY DEF RegistryMoves, daemonVars
<1>3. reg' = reg /\ (stolen => stolen') /\ Busy(p)
  <2>1. CASE LockCreate(p) \/ LockStat(p)
    BY <2>1 DEF LockCreate, LockStat, Busy
  <2>2. CASE LockBreak(p) \/ LockDrop(p)
    BY <2>2 DEF LockBreak, LockDrop, Removes, Busy
  <2>3. CASE Load(p) \/ IoError(p)
    BY <2>3 DEF Load, IoError, Busy
  <2> QED
    BY <1>1, <2>1, <2>2, <2>3
<1>4. \A q \in Procs : q # p => proc'[q] = proc[q]
  <2>1. PICK o : proc' = [proc EXCEPT ![p] = o]
    BY <1>1 DEF LockCreate, LockStat, LockBreak, LockDrop, Load, IoError, Step, RegInv, RegType
  <2> QED
    BY <2>1 DEF RegInv, RegType
<1>5. /\ proc'[p].op = proc[p].op /\ proc'[p].id = proc[p].id /\ proc'[p].path = proc[p].path
      /\ proc[p].op \in {"register", "unregister"} /\ proc'[p].ok /\ proc'[p].pc \in {"drop", "done"} =>
           proc[p].ok /\ proc[p].pc \in {"drop", "done"}
      /\ proc[p].ok /\ proc[p].pc \in {"drop", "done"} =>
           proc'[p].ok /\ proc'[p].pc \in {"drop", "done"}
  <2>1. proc \in [Procs -> OpType] /\ proc[p] \in OpType
    BY DEF RegInv, RegType
  <2>2. CASE LockCreate(p) \/ LockStat(p) \/ LockBreak(p)
    BY <2>1, <2>2 DEF LockCreate, LockStat, LockBreak, Step, OpType
  <2>3. CASE LockDrop(p)
    BY <2>1, <2>3 DEF LockDrop, OpType
  <2>4. CASE Load(p)
    <3> DEFINE found == Loads /\ Checks(proc[p], reg)
               k == found \/ (Loads /\ proc[p].op = "ensure")
    <3>1. proc[p].pc = "load" /\ proc' = [proc EXCEPT ![p].recs = IF found THEN reg ELSE {},
                 ![p].ok = k, ![p].pc = IF found THEN "persist" ELSE "drop"]
      BY <2>4 DEF Load
    <3>2. proc[p].op # "ensure" => (k <=> found)
      OBVIOUS
    <3> HIDE DEF found, k
    <3> QED
      BY <2>1, <3>1, <3>2 DEF OpType
  <2>5. CASE IoError(p)
    <3>1. ~proc'[p].ok /\ proc[p].pc \in {"lock", "load", "persist"}
          /\ proc'[p].op = proc[p].op /\ proc'[p].id = proc[p].id /\ proc'[p].path = proc[p].path
      BY <2>1, <2>5 DEF IoError, OpType
    <3> QED
      BY <3>1
  <2> QED
    BY <1>1, <2>2, <2>3, <2>4, <2>5
<1>6. DaemonType' /\ Single'
  BY <1>2 DEF DaemonInv, DaemonType, Single
<1>7. Places'
  <2>1. \A d \in Daemons : Busy(d)' => Busy(d)
    BY <1>3, <1>4, DaemonAssumption DEF Busy
  <2> QED
    BY <1>2, <2>1 DEF DaemonInv, Places
<1>8. Backed'
  <2>1. \A d \in Daemons : /\ Wrote(d, "register")' <=> Wrote(d, "register")
                           /\ Wrote(d, "unregister")' <=> Wrote(d, "unregister")
                           /\ proc'[d].id = proc[d].id /\ proc'[d].path = proc[d].path
    BY <1>4, <1>5, DaemonAssumption DEF Wrote
  <2>2. Settled' => Settled
    BY <1>2, <1>3 DEF Settled
  <2> QED
    BY <1>2, <1>3, <2>1, <2>2 DEF DaemonInv, Backed, IsOverlapping
<1> QED
  BY <1>6, <1>7, <1>8 DEF DaemonInv

\* persist: by the daemon that runs, or by a process that then comes between.
LEMMA PersistStepKeeps ==
  ASSUME RegInv, DaemonInv, NEW p \in Procs, RegistryMoves(p), Persist(p)
  PROVE  DaemonInv'
<1>1. /\ UNCHANGED <<life, engines, lockIno, sock, starts, unlinked, stolen>>
      /\ behind => behind'
      /\ p \in Users /\ ~behind' => reg' = reg \/ \A d \in Daemons : life[d].pc = "down"
  BY DEF RegistryMoves, daemonVars, Persist
<1>2. /\ proc[p].pc = "persist" /\ reg' = Applied(proc[p], proc[p].recs)
      /\ proc'[p].pc = "drop" /\ proc'[p].op = proc[p].op /\ proc'[p].id = proc[p].id
      /\ proc'[p].path = proc[p].path /\ proc'[p].ok = proc[p].ok
      /\ \A q \in Procs : q # p => proc'[q] = proc[q]
  BY DEF Persist, Step, RegInv, RegType, OpType
<1>3. DaemonType' /\ Single'
  BY <1>1 DEF DaemonInv, DaemonType, Single
<1>4. Places'
  <2>1. \A d \in Daemons : Busy(d)' => Busy(d)
    BY <1>2, DaemonAssumption DEF Busy
  <2> QED
    BY <1>1, <2>1 DEF DaemonInv, Places
<1>5. Backed'
  <2>1. SUFFICES ASSUME Settled', NEW d \in Daemons
                 PROVE  /\ \A e, f \in engines[d] : e # f => ~IsOverlapping(e.path, f.path)
                        /\ \A e \in engines[d] :
                             Rec(e.id, e.path) \in reg'
                             \/ (Wrote(d, "unregister")' /\ e.id = proc'[d].id)
                        /\ Wrote(d, "register")' =>
                             /\ Rec(proc'[d].id, proc'[d].path) \in reg'
                             /\ \A e \in engines[d] : ~IsOverlapping(e.path, proc'[d].path)
    BY <1>1 DEF Backed, IsOverlapping
  <2>2. Settled /\ ~stolen /\ d \in Procs
    BY <1>1, <2>1, DaemonAssumption DEF Settled
  <2>5. CASE p # d /\ reg' = reg
    <3>1. /\ proc'[d] = proc[d]
          /\ Wrote(d, "register")' <=> Wrote(d, "register")
          /\ Wrote(d, "unregister")' <=> Wrote(d, "unregister")
      BY <1>2, <2>2, <2>5 DEF Wrote
    <3> QED
      BY <2>2, <2>5, <3>1 DEF DaemonInv, Backed
  <2>3. CASE p # d /\ reg' # reg
    <3>1. ~life[d].locked
      <4>1. CASE p \in Users
        BY <1>1, <2>1, <2>3, <4>1 DEF Settled, DaemonInv, Places, Holding
      <4>2. CASE p \in Daemons
        <5>1. life[p].locked
          BY <1>2, <4>2 DEF DaemonInv, Places, Busy
        <5> QED
          BY <2>2, <2>3, <4>2, <5>1 DEF DaemonInv, Single, Settled
      <4> QED
        BY <4>1, <4>2, DaemonAssumption
    <3>2. engines[d] = {} /\ ~Busy(d)
      BY <3>1 DEF DaemonInv, Places
    <3> QED
      BY <1>2, <2>2, <2>3, <3>2 DEF Busy, Wrote
  <2>4. CASE p = d
    <3>1. /\ proc[d].recs = reg /\ proc[d].ok
          /\ proc[d].op = "register" => \A r \in reg : ~IsOverlapping(proc[d].path, r.path)
      BY <1>2, <2>2, <2>4 DEF RegInv, Serial, Checked
    <3>2. /\ \A e, f \in engines[d] : e # f => ~IsOverlapping(e.path, f.path)
          /\ \A e \in engines[d] : Rec(e.id, e.path) \in reg
      BY <1>2, <2>2, <2>4 DEF DaemonInv, Backed, Wrote
    <3>3. \A e \in engines[d] : Rec(e.id, e.path).path = e.path /\ Rec(e.id, e.path).id = e.id
      BY DEF Rec
    <3>4. CASE proc[d].op = "register"
      <4>1. reg' = reg \union {Rec(proc[d].id, proc[d].path)}
        BY <1>2, <2>4, <3>1, <3>4 DEF Applied
      <4>2. \A e \in engines[d] : ~IsOverlapping(e.path, proc[d].path)
        BY <3>1, <3>2, <3>3, <3>4, OverlapSymmetric
      <4> QED
        BY <1>2, <2>4, <3>2, <4>1, <4>2
    <3>5. CASE proc[d].op = "unregister"
      <4>1. reg' = {r \in reg : r.id # proc[d].id}
        BY <1>2, <2>4, <3>1, <3>5 DEF Applied
      <4>2. Wrote(d, "unregister")' /\ ~Wrote(d, "register")'
        BY <1>2, <2>4, <3>1, <3>5 DEF Wrote
      <4> QED
        BY <1>2, <2>4, <3>2, <3>3, <4>1, <4>2
    <3>6. proc[d].op \in {"register", "unregister"}
      <4>1. proc[d].op \in OpNames
        BY <2>2 DEF RegInv, RegType, OpType
      <4>2. proc[d].op \notin {"none", "ensure"}
        BY <1>2, <2>2, <2>4, DaemonAssumption DEF RegInv, Ids
      <4> QED
        BY <4>1, <4>2 DEF OpNames
    <3> QED
      BY <3>4, <3>5, <3>6
  <2> QED
    BY <2>3, <2>4, <2>5
<1> QED
  BY <1>3, <1>4, <1>5 DEF DaemonInv

\* A daemon or a command process begins an operation.
LEMMA BeginKeeps ==
  ASSUME RegInv, DaemonInv, NEW p \in Procs, NEW o \in OpType, o.pc = "lock",
         proc' = [proc EXCEPT ![p] = o],
         p \in Daemons => life[p].pc = "serve",
         UNCHANGED <<reg, stolen, life, engines, lockIno, sock, starts, unlinked, behind>>,
         ~Busy(p)
  PROVE  DaemonInv'
<1>1. proc'[p] = o /\ \A q \in Procs : q # p => proc'[q] = proc[q]
  BY DEF RegInv, RegType
<1>2. DaemonType' /\ Single'
  BY DEF DaemonInv, DaemonType, Single
<1>3. Places'
  BY <1>1, DaemonAssumption DEF DaemonInv, Places, Busy, Holding
<1>4. \A d \in Daemons : /\ Wrote(d, "register")' <=> Wrote(d, "register")
                         /\ Wrote(d, "unregister")' <=> Wrote(d, "unregister")
                         /\ Wrote(d, "register") => proc'[d] = proc[d]
                         /\ Wrote(d, "unregister") => proc'[d] = proc[d]
  BY <1>1, DaemonAssumption DEF Wrote, Busy
<1>5. Settled' => Settled
  BY DEF Settled
<1>6. Backed'
  BY <1>4, <1>5 DEF DaemonInv, Backed, IsOverlapping
<1> QED
  BY <1>2, <1>3, <1>6 DEF DaemonInv

-----------------------------------------------------------------------------
(* Every step keeps the invariant. *)

\* The invariant holds at the start.
LEMMA InitInv == Init => Inv
<1> SUFFICES ASSUME Init PROVE Inv
  OBVIOUS
<1>1. NoOp \in OpType /\ NoOp.pc = "idle" /\ NoOp.op = "none" /\ NoOp.recs = {}
  BY DEF NoOp, OpType, RegPcs, OpNames
<1>2. Down \in LifeType /\ Down.pc = "down" /\ Down.ino = 0 /\ Down.inc = 0 /\ ~Down.locked
  BY DEF Down, LifeType, Pcs
<1>3. \A p \in Procs : proc[p] = NoOp
  BY DEF Init, RegInit
<1>4. \A d \in Daemons : life[d] = Down /\ engines[d] = {} /\ proc[d] = NoOp
  BY <1>3, DaemonAssumption DEF Init
<1>5. RegType
  BY <1>1, RegistryAssumption, DaemonAssumption DEF Init, RegInit, RegType, NoLock
<1>6. Serial /\ Ids /\ Fresh /\ Checked
  BY <1>1, <1>3 DEF Init, RegInit, Serial, Ids, Fresh, Checked, AtWork, Registering
<1>7. RegistryReadable
  BY DEF Init, RegInit, RegistryReadable, Consistent
<1>8. DaemonType
  BY <1>2, <1>4, DaemonAssumption DEF Init, DaemonType
<1>9. Places /\ Single
  BY <1>1, <1>2, <1>4 DEF Places, Single, Busy, Holding
<1>10. Backed
  BY <1>1, <1>4 DEF Backed, Wrote
<1> QED
  BY <1>5, <1>6, <1>7, <1>8, <1>9, <1>10 DEF Inv, RegInv, DaemonInv

\* A command that the daemon or the command process itself carries out.
LEMMA DispatchKeeps ==
  ASSUME Inv, NEW c \in Users, NEW op, NEW id \in Nat, NEW path,
         Command(c), Given, Dispatch(c, Op(op, id, path)) \/ Directly(c, Op(op, id, path)),
         \/ /\ op = "register" /\ path \in Paths /\ id = drawn + 1 /\ drawn' = drawn + 1
         \/ /\ op = "ensure" /\ path \in Paths /\ id = ids[path] /\ id # 0 /\ drawn' = drawn
            /\ Directly(c, Op(op, id, path))
         \/ op = "unregister" /\ path = "none" /\ drawn' = drawn
  PROVE  Inv'
<1> DEFINE o == Op(op, id, path)
<1>1. o \in OpType /\ o.pc = "lock"
  BY DEF Op, NoOp, OpType, RegPcs, OpNames
<1>2. commands < MaxCommands /\ commands' = commands + 1
  BY DEF Command, Given
<1>3. CASE Directly(c, o)
  <2>1. c \in Procs /\ c \notin Daemons /\ ~Busy(c)
    BY DaemonAssumption DEF Command
  <2>2. RegInv'
    BY <1>2, <1>3, <2>1, OpBegins DEF Inv, Directly
  <2>3. DaemonInv'
    <3> HIDE DEF o
    <3> QED
      BY <1>1, <1>3, <2>1, BeginKeeps DEF Inv, Directly
  <2> QED
    BY <2>2, <2>3 DEF Inv
<1>4. CASE \E d \in Daemons : Reachable(d) /\ ByDaemon(d, o) /\ op # "ensure"
  <2>1. PICK d \in Daemons : Reachable(d) /\ ByDaemon(d, o) /\ op # "ensure"
    BY <1>4
  <2>2. d \in Procs /\ ~Busy(d) /\ life[d].pc = "serve"
    BY <2>1, DaemonAssumption DEF ByDaemon, Reachable
  <2>3. RegInv'
    BY <1>2, <2>1, <2>2, OpBegins DEF Inv, ByDaemon
  <2>4. DaemonInv'
    <3> HIDE DEF o
    <3> QED
      BY <1>1, <2>1, <2>2, BeginKeeps DEF Inv, ByDaemon
  <2> QED
    BY <2>3, <2>4 DEF Inv
<1> QED
  BY <1>3, <1>4 DEF Dispatch

\* ferry daemon stop: a daemon in its loop is told to end, one that still
\* starts ends.
LEMMA StopDaemonKeeps ==
  ASSUME Inv, NEW c \in Users, StopDaemon(c)
  PROVE  Inv'
<1>1. /\ commands \in Nat /\ commands' = commands + 1 /\ commands' <= MaxCommands
      /\ commands' \in Nat /\ commands <= commands' /\ dirs \subseteq Paths
  BY DaemonAssumption DEF StopDaemon, Command, Given, Inv, RegInv, RegType
<1>2. CASE /\ UNCHANGED <<regVars, life, engines, lockIno, starts, unlinked, behind>>
           /\ sock' \in {sock, "nobody"}
  <2>1. RegInv'
    BY <1>1, <1>2, RegFrame DEF Inv, regVars, regState
  <2>2. sock' \in Daemons \union {"nobody"}
    BY <1>2 DEF Inv, DaemonInv, DaemonType
  <2>3. Settled' => Settled
    BY <1>2 DEF Settled, regVars
  <2>4. DaemonInv'
    BY <1>2, <2>2, <2>3, DaemonFrame DEF Inv, regVars
  <2> QED
    BY <2>1, <2>4 DEF Inv
<1>3. ASSUME NEW d \in Daemons, Dies(d), UNCHANGED <<faults, sock>>
      PROVE  Inv'
  <2>1. d \in Procs
    BY DaemonAssumption
  <2>2. RegInv'
    BY <1>1, <1>3, <2>1, OpEnds DEF Dies, Inv, regState
  <2>3. DaemonInv'
    BY <1>3, DiesKeeps DEF Inv
  <2> QED
    BY <2>2, <2>3 DEF Inv
<1>4. ASSUME NEW d \in Daemons, life[d].pc = "serve", life' = [life EXCEPT ![d].term = TRUE],
             UNCHANGED <<regVars, engines, lockIno, sock, starts, unlinked, behind>>
      PROVE  Inv'
  <2>1. RegInv'
    BY <1>1, <1>4, RegFrame DEF Inv, regVars, regState
  <2>2. life \in [Daemons -> LifeType] /\ life[d] \in LifeType
    BY DEF Inv, DaemonInv, DaemonType
  <2>3. life' = [life EXCEPT ![d].pc = "serve", ![d].term = TRUE]
    BY <1>4, <2>2 DEF LifeType
  <2>4. DaemonInv'
    BY <1>4, <2>3, LoopKeeps DEF Inv, Running, regVars
  <2> QED
    BY <2>1, <2>4 DEF Inv
<1>5. pidfile = NoPid \/ pidfile # NoPid
  OBVIOUS
<1>6. CASE pidfile = NoPid
  BY <1>2, <1>6 DEF StopDaemon
<1>7. CASE pidfile # NoPid
  <2> DEFINE d == pidfile[1]
             starting == IsRunning /\ life[d].pc \notin {"serve", "closing", "drop", "unlink"}
             looping == IsRunning /\ life[d].pc = "serve"
  <2>1. IsRunning => d \in Daemons
    BY DEF IsRunning, Alive
  <2>2. CASE starting
    <3>1. ~looping
      BY <2>2
    <3>2. Dies(d) /\ UNCHANGED <<faults, sock>>
      BY <1>7, <2>2, <3>1 DEF StopDaemon
    <3> QED
      BY <1>3, <2>1, <2>2, <3>2
  <2>3. CASE looping
    <3>1. ~starting
      BY <2>3
    <3>2. /\ life' = [life EXCEPT ![d].term = TRUE]
          /\ UNCHANGED <<regVars, engines, lockIno, sock, starts, unlinked, behind>>
      BY <1>7, <2>3, <3>1 DEF StopDaemon
    <3> QED
      BY <1>4, <2>1, <2>3, <3>2
  <2>4. CASE ~starting /\ ~looping
    <3>1. UNCHANGED <<regVars, life, engines, lockIno, sock, starts, unlinked, behind>>
      BY <1>7, <2>4 DEF StopDaemon
    <3> QED
      BY <1>2, <3>1
  <2> QED
    BY <2>2, <2>3, <2>4
<1> QED
  BY <1>6, <1>7

\* The steps of a daemon.
LEMMA DaemonStepKeeps ==
  ASSUME Inv, NEW d \in Daemons, DaemonStep(d) \/ EngineFails(d) \/ Crash(d) \/ StartDaemon(d)
  PROVE  Inv'
<1> USE DEF Inv
<1>1. d \in Procs /\ commands \in Nat /\ commands <= MaxCommands /\ dirs \subseteq Paths
      /\ life \in [Daemons -> LifeType] /\ life[d] \in LifeType
  BY DaemonAssumption DEF RegInv, RegType, DaemonInv, DaemonType
<1>2. CASE OpenLockFile(d) \/ Flock(d) \/ DropLock(d) \/ Unlink(d) \/ SpawnEngines(d) \/ Quiesce(d)
  <2>1. UNCHANGED <<regVars, commands>>
    BY <1>2 DEF OpenLockFile, Flock, DropLock, Unlink, SpawnEngines, Quiesce
  <2>2. RegInv'
    BY <1>1, <2>1, RegFrame DEF regVars, regState
  <2> QED
    BY <1>2, <2>2, OpenLockFileKeeps, FlockKeeps, DropLockKeeps, UnlinkKeeps, SpawnEnginesKeeps,
       QuiesceKeeps
<1>3. CASE Bind(d) \/ Close(d)
  <2>1. UNCHANGED <<regVars, commands, engines, lockIno, starts, unlinked, behind>>
    BY <1>3 DEF Bind, Close
  <2>2. RegInv'
    BY <1>1, <2>1, RegFrame DEF regVars, regState
  <2>3. CASE Bind(d)
    <3>1. /\ life[d].term \in BOOLEAN
          /\ life' = [life EXCEPT ![d].pc = "serve", ![d].term = life[d].term]
      BY <1>1, <2>3 DEF LifeType, Bind
    <3>2. life[d].pc = "bind" /\ sock' = d
      BY <2>3 DEF Bind
    <3> QED
      BY <2>1, <2>2, <3>1, <3>2, LoopKeeps DEF Running, regVars
  <2>4. CASE Close(d)
    <3>1. /\ life[d].term \in BOOLEAN
          /\ life' = [life EXCEPT ![d].pc = "closing", ![d].term = life[d].term]
      BY <1>1, <2>4 DEF LifeType, Close
    <3>2. life[d].pc = "serve" /\ sock' = "nobody"
      BY <2>4 DEF Close
    <3> QED
      BY <2>1, <2>2, <3>1, <3>2, LoopKeeps DEF Running, regVars
  <2> QED
    BY <1>3, <2>3, <2>4
<1>4. CASE Tick(d) \/ BackoffPasses(d) \/ EngineFails(d)
  <2>1. UNCHANGED <<regState, proc, dirs, commands>>
    BY <1>4 DEF Tick, BackoffPasses, EngineFails, regVars, regState
  <2>2. RegInv'
    BY <1>1, <2>1, RegFrame
  <2> QED
    BY <1>4, <2>2, EnginesKeep
<1>5. CASE Registered(d) \/ Removed(d)
  <2>1. UNCHANGED <<regState, dirs, commands>> /\ proc' = [proc EXCEPT ![d] = NoOp]
    BY <1>5 DEF Registered, Removed, regState
  <2>2. RegInv'
    <3>1. commands' \in Nat /\ commands <= commands' /\ commands' <= MaxCommands
      BY <1>1, <2>1
    <3> QED
      BY <1>1, <2>1, <3>1, OpEnds DEF regState
  <2> QED
    BY <1>5, <2>2, RegisteredKeeps, RemovedKeeps
<1>6. CASE Crash(d)
  <2>1. UNCHANGED <<regState, dirs, commands>> /\ proc' = [proc EXCEPT ![d] = NoOp] /\ Dies(d)
        /\ sock' = sock
    BY <1>6 DEF Crash, Dies, regState
  <2>2. RegInv'
    <3>1. commands' \in Nat /\ commands <= commands' /\ commands' <= MaxCommands
      BY <1>1, <2>1
    <3> QED
      BY <1>1, <2>1, <3>1, OpEnds DEF regState
  <2> QED
    BY <2>1, <2>2, DiesKeeps
<1>7. CASE StartDaemon(d)
  <2>1. UNCHANGED <<regVars, engines, lockIno, sock, unlinked, behind>> /\ Started(d)
        /\ commands' = commands + 1 /\ commands < MaxCommands
    BY <1>7 DEF StartDaemon
  <2>2. RegInv'
    BY <1>1, <2>1, RegFrame, DaemonAssumption DEF regVars, regState
  <2>3. DaemonInv'
    BY <2>1, StartedKeeps
  <2> QED
    BY <2>2, <2>3
<1> QED
  BY <1>2, <1>3, <1>4, <1>5, <1>6, <1>7 DEF DaemonStep

\* The commands.
LEMMA UserStepKeeps ==
  ASSUME Inv, NEW c \in Users, UserStep(c)
  PROVE  Inv'
<1>1. /\ c \in Procs /\ c \notin Daemons /\ commands \in Nat /\ commands <= MaxCommands
      /\ dirs \subseteq Paths /\ drawn \in Nat /\ sock \in Daemons \union {"nobody"}
      /\ reg \in SUBSET Records
  BY DaemonAssumption DEF Inv, RegInv, RegType, DaemonInv, DaemonType
<1>2. ASSUME NEW path \in Paths, RegisterFolder(c, path)
      PROVE  Inv'
  <2>1. /\ Command(c) /\ Given /\ drawn' = drawn + 1
        /\ Dispatch(c, Op("register", drawn + 1, path))
    BY <1>2 DEF RegisterFolder
  <2>2. drawn + 1 \in Nat
    BY <1>1
  <2> QED
    BY <2>1, <2>2, DispatchKeeps
<1>3. ASSUME NEW path \in Paths, Share(c, path)
      PROVE  Inv'
  <2>1. /\ Command(c) /\ Given /\ drawn' = drawn
        /\ Directly(c, Op("ensure", ids[path], path)) /\ ids[path] # 0
    BY <1>3 DEF Share, CanOpen
  <2>2. ids[path] \in Nat
    BY DEF Inv, RegInv, RegType
  <2> QED
    BY <2>1, <2>2, DispatchKeeps
<1>4. ASSUME NEW r \in reg, RemoveFolder(c, r.id)
      PROVE  Inv'
  <2>1. /\ Command(c) /\ Given /\ drawn' = drawn
        /\ Dispatch(c, Op("unregister", r.id, "none"))
    BY <1>4 DEF RemoveFolder
  <2>2. r.id \in Nat
    BY <1>1, RecFacts
  <2> QED
    BY <2>1, <2>2, DispatchKeeps
<1>5. CASE UserDone(c) \/ UserCrash(c)
  <2>1. UNCHANGED <<regState, dirs, commands>> /\ proc' = [proc EXCEPT ![c] = NoOp]
        /\ UNCHANGED <<life, engines, lockIno, sock, starts, unlinked, behind>>
    BY <1>5 DEF UserDone, UserCrash, regState
  <2>2. RegInv'
    <3>1. commands' \in Nat /\ commands <= commands' /\ commands' <= MaxCommands
      BY <1>1, <2>1
    <3> QED
      BY <1>1, <2>1, <3>1, OpEnds DEF regState, Inv
  <2>3. \A d \in Daemons : proc'[d] = proc[d]
    BY <1>1, <2>1, DaemonAssumption DEF Inv, RegInv, RegType
  <2>4. DaemonInv'
    BY <1>1, <2>1, <2>3, DaemonFrame DEF Inv, regState, Settled
  <2> QED
    BY <2>2, <2>4 DEF Inv
<1>6. CASE EnsureDaemon(c)
  <2>1. PICK d \in Daemons : Started(d)
    BY <1>6 DEF EnsureDaemon
  <2>2. /\ UNCHANGED <<regVars, engines, lockIno, unlinked, behind>> /\ sock' = "nobody"
        /\ commands' = commands + 1 /\ commands < MaxCommands
    BY <1>6 DEF EnsureDaemon, Command, Given
  <2>3. RegInv'
    BY <1>1, <2>2, RegFrame, DaemonAssumption DEF regVars, regState, Inv
  <2>4. DaemonInv'
    BY <2>1, <2>2, StartedKeeps DEF Inv
  <2> QED
    BY <2>3, <2>4 DEF Inv
<1>7. CASE StopSees(c)
  <2>1. /\ UNCHANGED <<regVars, life, engines, lockIno, commands, starts, unlinked, behind>>
        /\ sock' \in {sock, "nobody"}
    BY <1>7 DEF StopSees
  <2>2. RegInv'
    BY <1>1, <2>1, RegFrame DEF regVars, regState, Inv
  <2>3. DaemonInv'
    BY <1>1, <2>1, DaemonFrame DEF Inv, regVars, Settled
  <2> QED
    BY <2>2, <2>3 DEF Inv
<1> QED
  BY <1>2, <1>3, <1>4, <1>5, <1>6, <1>7, StopDaemonKeeps DEF UserStep

\* Every step of the specification keeps the invariant.
LEMMA StepInv == Inv /\ [Next]_vars => Inv'
<1> SUFFICES ASSUME Inv, [Next]_vars PROVE Inv'
  OBVIOUS
<1>1. /\ commands \in Nat /\ commands <= MaxCommands /\ dirs \subseteq Paths
      /\ sock \in Daemons \union {"nobody"}
  BY DEF Inv, RegInv, RegType, DaemonInv, DaemonType
<1>2. ASSUME NEW p \in Procs, RegistryMoves(p)
      PROVE  Inv'
  <2>1. RegistryStep(p) /\ commands' = commands
    BY <1>2 DEF RegistryMoves, daemonVars
  <2>2. RegInv'
    BY <2>1, RegistryStepKeeps DEF Inv
  <2>3. DaemonInv'
    BY <1>2, PersistStepKeeps, OtherStepKeeps DEF Inv
  <2> QED
    BY <2>2, <2>3 DEF Inv
<1>3. CASE LockAges /\ UNCHANGED <<daemonVars, behind>>
  <2>1. RegInv'
    BY <1>3, LockAgesKeeps DEF Inv, daemonVars
  <2>2. UNCHANGED <<reg, proc, stolen, life, engines, lockIno, sock, starts, unlinked, behind>>
    BY <1>3 DEF LockAges, daemonVars
  <2>3. DaemonInv'
    BY <1>1, <2>2, DaemonFrame DEF Inv, Settled
  <2> QED
    BY <2>1, <2>3 DEF Inv
<1>4. ASSUME NEW path \in Paths, DirectoryLost(path), UNCHANGED <<daemonVars, behind>>
      PROVE  Inv'
  <2>1. UNCHANGED <<reg, lockfile, proc, ids, drawn, owed, stolen, moved>> /\ dirs' \subseteq Paths
    BY <1>1, <1>4 DEF DirectoryLost
  <2>2. UNCHANGED <<life, engines, lockIno, sock, starts, unlinked, behind, commands>>
    BY <1>4 DEF daemonVars
  <2>3. RegInv'
    BY <1>1, <2>1, <2>2, RegFrame DEF Inv, regState
  <2>4. DaemonInv'
    BY <1>1, <2>1, <2>2, DaemonFrame DEF Inv, Settled
  <2> QED
    BY <2>3, <2>4 DEF Inv
<1>6. ASSUME NEW from \in Paths, NEW to \in Paths, MoveFolder(from, to),
             UNCHANGED <<daemonVars, behind>>
      PROVE  Inv'
  <2>1. UNCHANGED <<life, engines, lockIno, sock, starts, unlinked, behind, commands, reg, proc,
                    stolen>>
    BY <1>6 DEF daemonVars, MoveFolder
  <2>2. RegInv'
    BY <1>6, <2>1, MoveFolderKeeps DEF Inv
  <2>3. DaemonInv'
    BY <1>1, <2>1, DaemonFrame DEF Inv, Settled
  <2> QED
    BY <2>2, <2>3 DEF Inv
<1>5. CASE UNCHANGED vars
  <2>1. UNCHANGED <<regState, proc, dirs, commands, life, engines, lockIno, sock, starts,
                    unlinked, behind>>
    BY <1>5 DEF vars, regState
  <2>2. RegInv'
    BY <1>1, <2>1, RegFrame DEF Inv
  <2>3. DaemonInv'
    BY <1>1, <2>1, DaemonFrame DEF Inv, Settled, regState
  <2> QED
    BY <2>2, <2>3 DEF Inv
<1> QED
  BY <1>2, <1>3, <1>4, <1>5, <1>6, DaemonStepKeeps, UserStepKeeps DEF Next

-----------------------------------------------------------------------------
(* Theorems. *)

\* The invariant is one: of the registry, its lock, the daemons and their lock.
THEOREM DaemonInvariance == Spec => []Inv
BY InitInv, StepInv, PTL DEF Spec

\* FolderInventory and DeviceDaemon::run: every variable keeps its type.
THEOREM DaemonTypes == Spec => []TypeOK
<1>1. Inv => TypeOK
  BY DEF Inv, RegInv, RegType, OpType, RegPcs, DaemonInv, DaemonType, LifeType, TypeOK
<1> QED
  BY <1>1, DaemonInvariance, PTL

\* RegistryLock: unless a lock is removed under a process at work, no change to
\* the registry undoes another, for any number of processes.
THEOREM RegistrySerial == Spec => []ChangesKept
<1>1. Inv => ChangesKept
  BY DEF Inv, RegInv, Serial, ChangesKept
<1> QED
  BY <1>1, DaemonInvariance, PTL

\* register and ensure_registered: while the folders have different ids and none
\* is moved while it is listed, the registry can always be read again, locks
\* stolen or not, folders moved before they are listed or not.
THEOREM RegistrySound == Spec => []RegistryReadable
<1>1. Inv => RegistryReadable
  BY DEF Inv, RegInv
<1> QED
  BY <1>1, DaemonInvariance, PTL

\* DaemonLock and the supervisor: no two engines for one folder, or for one
\* folder inside another, in one daemon or in two.
THEOREM EnginesSingle == Spec => []OneEngine
<1>1. Inv => OneEngine
  <2>1. SUFFICES ASSUME Inv, ~unlinked, ~stolen, ~behind
                 PROVE  /\ \A d \in Daemons : \A e, f \in engines[d] :
                             e # f => ~IsOverlapping(e.path, f.path)
                        /\ \A c, d \in Daemons : c # d =>
                             \A e \in engines[c] : \A f \in engines[d] :
                                ~IsOverlapping(e.path, f.path)
    BY DEF OneEngine
  <2>2. \A d \in Daemons : \A e, f \in engines[d] : e # f => ~IsOverlapping(e.path, f.path)
    BY <2>1 DEF Inv, DaemonInv, Backed, Settled
  <2>3. \A c, d \in Daemons : c # d => engines[c] = {} \/ engines[d] = {}
    BY <2>1 DEF Inv, DaemonInv, Places, Single
  <2> QED
    BY <2>2, <2>3
<1> QED
  BY <1>1, DaemonInvariance, PTL
=============================================================================

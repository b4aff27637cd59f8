---------------------------- MODULE DeviceDaemon ----------------------------
(***************************************************************************)
(* The device daemon (ferry-daemon/src/device_daemon.rs and supervisor/),  *)
(* the lock that keeps it single (ferry-platform/src/lock.rs) and the      *)
(* commands that start it, stop it and change the registry: ferry daemon,  *)
(* ensure_daemon (ferry-cli/src/bootstrap.rs), ferry daemon stop, ferry    *)
(* share, and the front ends, which reach the daemon at its socket or      *)
(* else change folders.toml themselves (AutoBackend).                      *)
(*                                                                         *)
(* The supervisor runs one engine per record.  Commands and ticks take its *)
(* mutex, so that a daemon does one of them at a time.                     *)
(***************************************************************************)
EXTENDS Registry

CONSTANTS
    Daemons,    \* processes that may run the daemon
    Users,      \* processes of commands and front ends
    MaxCommands,\* commands given, ferry daemon included
    MaxStarts   \* daemons started

ASSUME DaemonAssumption ==
    /\ Procs = Daemons \union Users /\ Daemons \intersect Users = {}
    /\ MaxCommands \in Nat /\ MaxStarts \in Nat
    \* a random id is never the id of a folder that exists
    /\ \A path \in Paths : RealId[path] = 0 \/ RealId[path] > MaxCommands

VARIABLES
    life,      \* daemon -> its place in run, its incarnation, the lock file it holds
    engines,   \* daemon -> Supervisor::engines
    lockIno,   \* the file daemon.lock names, 0 for none
    pidfile,   \* daemon.pid
    sock,      \* the daemon whose socket is at daemon.sock
    user,      \* command process -> what it is doing
    commands,  \* commands given so far
    starts,    \* daemons started so far
    unlinked,  \* history: daemon.lock was removed while another daemon had it open
    behind     \* history: another process changed the registry under a daemon

vars == <<reg, lockfile, proc, dirs, ids, drawn, faults, owed, stolen, moved, life, engines, lockIno,
          pidfile, sock, user, commands, starts, unlinked, behind>>

daemonVars == <<life, engines, lockIno, pidfile, sock, user, commands, starts, unlinked>>

\* a lock file is known by the daemon that created it, the i-th started
Inodes == 1..MaxStarts
Down == [pc |-> "down", inc |-> 0, ino |-> 0, locked |-> FALSE, term |-> FALSE]
NoPid == <<"nobody", 0>>
Resting == [pc |-> "idle", pid |-> NoPid]

Init ==
    /\ RegInit
    /\ life = [d \in Daemons |-> Down]
    /\ engines = [d \in Daemons |-> {}]
    /\ lockIno = 0 /\ pidfile = NoPid /\ sock = "nobody"
    /\ user = [c \in Users |-> Resting]
    /\ commands = 0 /\ starts = 0
    /\ unlinked = FALSE /\ behind = FALSE

Alive(pid) == pid[1] \in Daemons /\ life[pid[1]].pc # "down" /\ life[pid[1]].inc = pid[2]

\* is_running: the process the file names, with its start token
IsRunning == Alive(pidfile)

Reachable(d) == sock = d /\ life[d].pc = "serve"

\* SyncEngine::open_watched_folder
CanOpen(path) == path \in dirs /\ ids[path] # 0

(***************************************************************************)
(* DaemonLock.                                                             *)
(***************************************************************************)
\* ferry daemon, by hand or from ensure_daemon
Started(d) ==
    /\ life[d].pc = "down" /\ starts < MaxStarts
    /\ life' = [life EXCEPT ![d] = [Down EXCEPT !.pc = "open", !.inc = starts + 1]]
    /\ starts' = starts + 1

StartDaemon(d) ==
    /\ commands < MaxCommands
    /\ commands' = commands + 1
    /\ Started(d)
    /\ UNCHANGED <<regVars, engines, lockIno, pidfile, sock, user, unlinked, behind>>

\* acquire: the file is opened, and created if there is none
OpenLockFile(d) ==
    LET ino == IF lockIno # 0 THEN lockIno ELSE life[d].inc
    IN  /\ life[d].pc = "open"
        /\ lockIno' = ino
        /\ life' = [life EXCEPT ![d].pc = "flock", ![d].ino = ino]
        /\ UNCHANGED <<regVars, engines, pidfile, sock, user, commands, starts, unlinked, behind>>

Exit(d) == life' = [life EXCEPT ![d] = [Down EXCEPT !.inc = life[d].inc]]

BadFlock(d) ==
    /\ life[d].pc = "flock"
    /\ life' = [life EXCEPT ![d].pc = "spawn", ![d].locked = TRUE]
    /\ pidfile' = <<d, life[d].inc>>
    /\ UNCHANGED <<regVars, engines, lockIno, sock, user, commands, starts, unlinked, behind>>

\* acquire: flock on the open file, then the pid
Flock(d) ==
    /\ life[d].pc = "flock"
    /\ IF \E e \in Daemons \ {d} : life[e].locked /\ life[e].ino = life[d].ino
       THEN Exit(d) /\ UNCHANGED pidfile
       ELSE /\ life' = [life EXCEPT ![d].pc = "spawn", ![d].locked = TRUE]
            /\ pidfile' = <<d, life[d].inc>>
    /\ UNCHANGED <<regVars, engines, lockIno, sock, user, commands, starts, unlinked, behind>>

\* Drop: the pid file is removed and the lock released, then
DropLock(d) ==
    /\ life[d].pc = "drop"
    /\ pidfile' = NoPid
    /\ life' = [life EXCEPT ![d].pc = "unlink", ![d].locked = FALSE]
    /\ UNCHANGED <<regVars, engines, lockIno, sock, user, commands, starts, unlinked, behind>>

\* the lock file is removed, by whichever name it now has
Unlink(d) ==
    /\ life[d].pc = "unlink"
    /\ lockIno' = 0
    /\ unlinked' = (unlinked \/ \E e \in Daemons \ {d} :
                                   life[e].ino = lockIno /\ lockIno # 0
                                   /\ life[e].pc # "down")
    /\ Exit(d)
    /\ UNCHANGED <<regVars, engines, pidfile, sock, user, commands, starts, behind>>

(***************************************************************************)
(* run and the supervisor.                                                 *)
(***************************************************************************)
Engine(r) == [id |-> r.id, path |-> r.path, ok |-> TRUE, wait |-> FALSE]

\* spawn_engines: one folder that cannot be read or opened ends the daemon
SpawnEngines(d) ==
    /\ life[d].pc = "spawn"
    /\ IF Loads /\ \A r \in reg : CanOpen(r.path)
       THEN /\ engines' = [engines EXCEPT ![d] = {Engine(r) : r \in reg}]
            /\ life' = [life EXCEPT ![d].pc = "bind"]
       ELSE /\ life' = [life EXCEPT ![d].pc = "drop"]
            /\ UNCHANGED engines
    /\ UNCHANGED <<regVars, lockIno, pidfile, sock, user, commands, starts, unlinked, behind>>

\* spawn_supervisor_ipc_server: bind replaces whatever socket it finds
Bind(d) ==
    /\ life[d].pc = "bind"
    /\ sock' = d
    /\ life' = [life EXCEPT ![d].pc = "serve"]
    /\ UNCHANGED <<regVars, engines, lockIno, pidfile, user, commands, starts, unlinked, behind>>

\* FolderEngine::tick: an engine whose loops ended is started again, and its
\* next attempt put off when the folder does not open or its port is taken
Ticked(e, bound) ==
    IF e.ok \/ e.wait THEN e
    ELSE IF bound /\ CanOpen(e.path) THEN [e EXCEPT !.ok = TRUE] ELSE [e EXCEPT !.wait = TRUE]

\* Supervisor::tick, under the mutex
Tick(d) ==
    /\ life[d].pc = "serve" /\ ~Busy(d)
    /\ \E e \in engines[d] : ~e.ok /\ ~e.wait
    /\ \E bound \in BOOLEAN : engines' = [engines EXCEPT ![d] = {Ticked(e, bound) : e \in @}]
    /\ UNCHANGED <<regVars, life, lockIno, pidfile, sock, user, commands, starts, unlinked, behind>>

\* next_restart_at has passed
BackoffPasses(d) ==
    /\ \E e \in engines[d] : e.wait
    /\ engines' = [engines EXCEPT ![d] = {[e EXCEPT !.wait = FALSE] : e \in @}]
    /\ UNCHANGED <<regVars, life, lockIno, pidfile, sock, user, commands, starts, unlinked, behind>>

\* a loop of an engine ends by itself
EngineFails(d) ==
    /\ faults < MaxFaults
    /\ \E e \in engines[d] : /\ e.ok
                             /\ engines' = [engines EXCEPT ![d] = (@ \ {e}) \union
                                                                  {[e EXCEPT !.ok = FALSE]}]
    /\ faults' = faults + 1
    /\ UNCHANGED <<reg, lockfile, proc, dirs, ids, drawn, owed, stolen, moved, life, lockIno, pidfile,
                   sock, user, commands, starts, unlinked, behind>>

\* handle_register once the registry has answered: a folder that does not open
\* stays registered
Registered(d) ==
    /\ proc[d].pc = "done" /\ proc[d].op = "register"
    /\ engines' = IF proc[d].ok /\ CanOpen(proc[d].path)
                  THEN [engines EXCEPT ![d] = @ \union {Engine(proc[d])}] ELSE engines
    /\ proc' = [proc EXCEPT ![d] = NoOp]
    /\ UNCHANGED <<reg, lockfile, dirs, ids, drawn, faults, owed, stolen, moved, life, lockIno, pidfile,
                   sock, user, commands, starts, unlinked, behind>>

\* handle_remove: the engine that has this id is stopped
Removed(d) ==
    /\ proc[d].pc = "done" /\ proc[d].op = "unregister"
    /\ engines' = IF proc[d].ok
                  THEN [engines EXCEPT ![d] = {e \in @ : e.id # proc[d].id}] ELSE engines
    /\ proc' = [proc EXCEPT ![d] = NoOp]
    /\ UNCHANGED <<reg, lockfile, dirs, ids, drawn, faults, owed, stolen, moved, life, lockIno, pidfile,
                   sock, user, commands, starts, unlinked, behind>>

\* the loop of run ends at a signal: the socket goes, a command in progress is
\* finished, the engines are shut down, and last the lock is dropped
Close(d) ==
    /\ life[d].pc = "serve" /\ life[d].term
    /\ sock' = "nobody"
    /\ life' = [life EXCEPT ![d].pc = "closing"]
    /\ UNCHANGED <<regVars, engines, lockIno, pidfile, user, commands, starts, unlinked, behind>>

Quiesce(d) ==
    /\ life[d].pc = "closing" /\ ~Busy(d)
    /\ engines' = [engines EXCEPT ![d] = {}]
    /\ life' = [life EXCEPT ![d].pc = "drop"]
    /\ UNCHANGED <<regVars, lockIno, pidfile, sock, user, commands, starts, unlinked, behind>>

\* the process is gone: the kernel releases its locks, its files stay
Dies(d) ==
    /\ Exit(d)
    /\ engines' = [engines EXCEPT ![d] = {}]
    /\ proc' = [proc EXCEPT ![d] = NoOp]
    /\ UNCHANGED <<reg, lockfile, dirs, ids, drawn, owed, stolen, moved, lockIno, starts, unlinked, behind>>

Crash(d) ==
    /\ faults < MaxFaults
    /\ life[d].pc # "down"
    /\ Dies(d)
    /\ faults' = faults + 1
    /\ UNCHANGED <<pidfile, sock, user, commands>>

(***************************************************************************)
(* Commands.                                                               *)
(***************************************************************************)
Command(c) == user[c].pc = "idle" /\ ~Busy(c) /\ commands < MaxCommands
Given == commands' = commands + 1

\* a command process that changes the registry itself
Directly(c, op) ==
    /\ proc' = [proc EXCEPT ![c] = op]
    /\ UNCHANGED <<reg, lockfile, dirs, ids, faults, owed, stolen, moved, life, engines, lockIno, pidfile,
                   sock, user, starts, unlinked, behind>>

\* a command the daemon performs for its client, under the mutex
ByDaemon(d, op) ==
    /\ ~Busy(d)
    /\ proc' = [proc EXCEPT ![d] = op]
    /\ UNCHANGED <<reg, lockfile, dirs, ids, faults, owed, stolen, moved, life, engines, lockIno, pidfile,
                   sock, user, starts, unlinked, behind>>

\* AutoBackend asks the daemon, and does it itself when nothing answers at the
\* socket it uses.  ferry ui and ferry tui use the folder's socket, behind which
\* there need be no daemon though the device's runs; a call whose connection
\* broke is repeated, here as a command of its own.
Dispatch(c, op) ==
    \/ \E d \in Daemons : Reachable(d) /\ ByDaemon(d, op)
    \/ Directly(c, op)

\* register_folder: the id is drawn at random
RegisterFolder(c, path) ==
    /\ Command(c) /\ Given
    /\ drawn' = drawn + 1
    /\ Dispatch(c, Op("register", drawn + 1, path))

\* remove_folder, of a folder the registry lists
RemoveFolder(c, id) ==
    /\ Command(c) /\ Given
    /\ Dispatch(c, Op("unregister", id, "none"))
    /\ UNCHANGED drawn

\* ferry share: the folder is registered under its own id
Share(c, path) ==
    /\ Command(c) /\ Given
    /\ CanOpen(path)
    /\ Directly(c, Op("ensure", ids[path], path))
    /\ UNCHANGED drawn

UserDone(c) ==
    /\ proc[c].pc = "done"
    /\ proc' = [proc EXCEPT ![c] = NoOp]
    /\ UNCHANGED <<reg, lockfile, dirs, ids, drawn, faults, owed, stolen, moved, life, engines, lockIno,
                   pidfile, sock, user, commands, starts, unlinked, behind>>

\* a command process is killed: its lock on the registry stays
UserCrash(c) ==
    /\ faults < MaxFaults
    /\ Busy(c)
    /\ proc' = [proc EXCEPT ![c] = NoOp]
    /\ faults' = faults + 1
    /\ UNCHANGED <<reg, lockfile, dirs, ids, drawn, owed, stolen, moved, life, engines, lockIno,
                   pidfile, sock, user, commands, starts, unlinked, behind>>

\* ensure_daemon: unless the daemon answers a ping, its socket is removed and
\* another one is started.  A daemon that runs but does not answer, because it
\* still starts or is busy with a command, is given three seconds.
EnsureDaemon(c) ==
    /\ Command(c) /\ Given
    /\ ~(IsRunning /\ \E d \in Daemons : Reachable(d) /\ ~Busy(d))
    /\ sock' = "nobody"
    /\ \E d \in Daemons : Started(d)
    /\ UNCHANGED <<regVars, engines, lockIno, pidfile, user, unlinked, behind>>

\* terminate: the signal ends a daemon that is not yet in its loop at once
StopDaemon(c) ==
    /\ Command(c) /\ Given
    /\ IF pidfile = NoPid
       THEN /\ sock' = "nobody"
            /\ UNCHANGED <<regVars, life, engines, lockIno, user, starts, unlinked, behind>>
       ELSE /\ user' = [user EXCEPT ![c] = [pc |-> "stop", pid |-> pidfile]]
            /\ LET d == pidfile[1] IN
               CASE IsRunning /\ life[d].pc \notin {"serve", "closing", "drop", "unlink"} ->
                        Dies(d) /\ UNCHANGED <<faults, sock>>
                 [] IsRunning /\ life[d].pc = "serve" ->
                        /\ life' = [life EXCEPT ![d].term = TRUE]
                        /\ UNCHANGED <<regVars, engines, lockIno, sock, starts, unlinked, behind>>
                 [] OTHER ->
                        UNCHANGED <<regVars, life, engines, lockIno, sock, starts, unlinked, behind>>
    /\ UNCHANGED pidfile

\* the process is seen dead: the pid file and the socket are removed, whoever
\* they belong to by now; or the deadline passes and they stay
StopSees(c) ==
    /\ user[c].pc = "stop"
    /\ IF Alive(user[c].pid) THEN UNCHANGED <<pidfile, sock>>
                             ELSE pidfile' = NoPid /\ sock' = "nobody"
    /\ user' = [user EXCEPT ![c] = Resting]
    /\ UNCHANGED <<regVars, life, engines, lockIno, commands, starts, unlinked, behind>>

RegistryMoves(p) ==
    /\ RegistryStep(p)
    /\ behind' = (behind \/ (p \in Users /\ proc[p].pc = "persist" /\ reg' # reg
                             /\ \E d \in Daemons : life[d].pc # "down"))
    /\ UNCHANGED daemonVars

DaemonStep(d) ==
    \/ OpenLockFile(d) \/ Flock(d) \/ SpawnEngines(d) \/ Bind(d) \/ Tick(d)
    \/ BackoffPasses(d) \/ Registered(d) \/ Removed(d)
    \/ Close(d) \/ Quiesce(d) \/ DropLock(d) \/ Unlink(d)

UserStep(c) ==
    \/ \E path \in Paths : RegisterFolder(c, path) \/ Share(c, path)
    \/ \E r \in reg : RemoveFolder(c, r.id)
    \/ UserDone(c) \/ UserCrash(c) \/ EnsureDaemon(c) \/ StopDaemon(c) \/ StopSees(c)

Next ==
    \/ \E p \in Procs : RegistryMoves(p)
    \/ \E d \in Daemons : StartDaemon(d) \/ DaemonStep(d) \/ EngineFails(d) \/ Crash(d)
    \/ \E c \in Users : UserStep(c)
    \/ (LockAges \/ \E path \in Paths : DirectoryLost(path)) /\ UNCHANGED <<daemonVars, behind>>
    \/ (\E from, to \in Paths : MoveFolder(from, to)) /\ UNCHANGED <<daemonVars, behind>>

Spec == Init /\ [][Next]_vars

-----------------------------------------------------------------------------
Pcs == {"down", "open", "flock", "spawn", "bind", "serve", "closing", "drop", "unlink"}

\* Type invariant.
TypeOK ==
    /\ \A d \in Daemons : life[d].pc \in Pcs /\ life[d].ino \in {0} \union Inodes
    /\ \A p \in Procs : proc[p].pc \in {"idle", "lock", "stat", "break", "load", "persist",
                                        "drop", "done"}
    /\ lockIno \in {0} \union Inodes
    /\ sock \in Daemons \union {"nobody"}
    /\ dirs \subseteq Paths

\* DaemonLock and the supervisor: no directory is synced by two engines, in one
\* daemon or in two, whatever is registered, removed, started, stopped and
\* crashed, as long as the lock file is not unlinked under a starting daemon, no
\* registry lock is stolen and only the daemon changes the registry while it
\* runs.
OneEngine ==
    ~unlinked /\ ~stolen /\ ~behind =>
        /\ \A d \in Daemons : \A e, f \in engines[d] :
              e # f => ~IsOverlapping(e.path, f.path)
        /\ \A c, d \in Daemons : c # d =>
              \A e \in engines[c] : \A f \in engines[d] : ~IsOverlapping(e.path, f.path)
=============================================================================

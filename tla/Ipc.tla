-------------------------------- MODULE Ipc --------------------------------
(***************************************************************************)
(* The local control channel between a front end and the folder daemon:    *)
(* the daemon's IPC server and its state watcher (ferry-daemon/src/ipc),   *)
(* and the one DaemonClient a front-end process shares between its tasks   *)
(* (ferry-ipc/src/client.rs).                                              *)
(*                                                                         *)
(* A client keeps one connection.  A task puts its Pending on one channel  *)
(* and its command on another; a writer task moves commands to the socket  *)
(* and a reader task matches each answer to the oldest Pending.  The       *)
(* server answers commands in order and, on the same socket, pushes what   *)
(* the watcher broadcasts.  Connections break when the daemon stops; a     *)
(* background supervisor, woken by the watch channel conn_gen, reconnects. *)
(*                                                                         *)
(* The daemon's state is what front ends show of it: the manifest's        *)
(* revision, the pin and the number of logged conflicts.                   *)
(***************************************************************************)
EXTENDS Naturals, Sequences, FiniteSets, Functions

CONSTANTS
    Tasks,      \* the tasks of the front-end process that may call
    MaxConns,   \* connections that exist at one time
    FeedCap,    \* capacity of the daemon's broadcast channel
    EventCap,   \* capacity of the client's event channel
    MaxFaults,  \* stops of the daemon and commands torn by a push
    MaxCalls    \* commands the user gives

ASSUME IpcAssumption ==
    /\ {MaxConns, FeedCap, EventCap, MaxFaults, MaxCalls} \subseteq Nat
    /\ MaxConns > 0 /\ FeedCap > 0 /\ EventCap > 0

VARIABLES
    daemon,  \* the daemon: up, man, pin, conf and the watcher's last_* values; left
             \* bounds the changes of its state, the faults and the user's commands
    conn,    \* connection -> both ends of it
    client,  \* slot (conn), gen (conn_gen), sup, sub, wake: the supervisor task
    call,    \* task -> its call in progress
    stream,  \* the process's subscription to the client's events
    told     \* history: the last broadcast reached a subscribed front end

ipcVars == <<daemon, conn, client, call, stream, told>>

Conns == 1..MaxConns
Attempts == 2           \* ReconnectPolicy::default

(***************************************************************************)
(* Messages.  "of" is the call an answer belongs to, << >> for a push.     *)
(***************************************************************************)
Snapshot(of) == [kind |-> "Snapshot", of |-> of, man |-> daemon.man,
                 pin |-> daemon.pin, conf |-> daemon.conf]
StateChanged == [kind |-> "StateChanged", of |-> << >>, man |-> daemon.man]
ConflictRecorded(i) == [kind |-> "ConflictRecorded", of |-> << >>, path |-> i]
Ack(of) == [kind |-> "Ack", of |-> of, conf |-> daemon.conf]
Refused(of) == [kind |-> "Error", of |-> of]
Push == {"StateChanged", "ConflictRecorded"}

(***************************************************************************)
(* Connections and calls.                                                  *)
(***************************************************************************)
NoConn == [srv |-> "none", wire |-> << >>, back |-> << >>, feed |-> << >>,
           lagged |-> FALSE, rd |-> "none", wr |-> "none", chan |-> << >>,
           queue |-> << >>, gen |-> 0, mixed |-> FALSE, skipped |-> FALSE]

NoCall == [pc |-> "idle", cmd |-> "none", att |-> 0, k |-> 0,
           res |-> [kind |-> "none"]]

Unreachable == [kind |-> "unreachable"]

Live(k) == k # 0 /\ conn[k].rd = "run"

\* a task has one call at a time: a Pending, and what answers it
Id(c) == <<c, call[c].cmd>>

Outstanding(k) == {c \in Tasks : call[c].k = k /\ call[c].pc \in {"cmd", "wait"}}

IpcInit(n) ==
    /\ daemon \in {[up |-> u, man |-> 0, pin |-> FALSE, conf |-> 0, seenMan |-> 0,
                    seenPin |-> FALSE, seenConf |-> 0, left |-> n, faults |-> 0] :
                   u \in BOOLEAN}
    /\ conn = [k \in Conns |-> NoConn]
    /\ client = [slot |-> 0, gen |-> 0, sup |-> "unborn", sub |-> FALSE, wake |-> FALSE]
    /\ stream = [st |-> "none", inbox |-> << >>, lagged |-> FALSE]
    /\ told = FALSE

(***************************************************************************)
(* A broadcast channel keeps the newest messages; a receiver that is       *)
(* overtaken is told so once and goes on from the oldest one kept.         *)
(***************************************************************************)
Offered(q, m, cap) == IF Len(q) < cap THEN Append(q, m) ELSE Append(Tail(q), m)
Overrun(q, cap) == Len(q) >= cap

\* state.broadcast: every connection that has subscribed gets the message
Broadcast(cs, m) ==
    [k \in Conns |-> IF cs[k].srv = "served"
                     THEN [cs[k] EXCEPT !.feed = Offered(@, m, FeedCap),
                                        !.lagged = @ \/ Overrun(cs[k].feed, FeedCap)]
                     ELSE cs[k]]

\* event_tx.send: lost unless the front end has subscribed
Emit(s, m) ==
    IF s.st # "live" THEN s
    ELSE [s EXCEPT !.inbox = Offered(@, m, EventCap),
                   !.lagged = @ \/ Overrun(s.inbox, EventCap)]

Overruns(s) == s.st = "live" /\ Overrun(s.inbox, EventCap)

(***************************************************************************)
(* conn_gen.send: a watch channel without a receiver keeps its old value,  *)
(* and the only receiver is the one the supervisor holds.                  *)
(***************************************************************************)
GenSent(cl, g) == IF cl.sub THEN [cl EXCEPT !.gen = g, !.wake = TRUE] ELSE cl

(***************************************************************************)
(* Connecting.                                                             *)
(***************************************************************************)
\* a connection no task refers to and whose reader has ended is dropped
Spare == {k \in Conns : /\ conn[k].rd \in {"none", "ended"}
                        /\ client.slot # k
                        /\ \A c \in Tasks : call[c].k # k}

\* connect_once, under the lock on conn: the first message is the daemon's
\* snapshot, and the supervisor task is born with the first connection.  The
\* server end has not yet subscribed to the broadcast channel.
Connected(k) ==
    LET g == client.gen + 1
        born == IF client.sup = "unborn" THEN [client EXCEPT !.sup = "subscribe"]
                                         ELSE client
    IN  /\ conn' = [conn EXCEPT ![k] = [NoConn EXCEPT !.srv = "greeted", !.rd = "run",
                                                      !.wr = "run", !.gen = g]]
        /\ stream' = Emit(stream, Snapshot(<< >>))
        /\ client' = GenSent([born EXCEPT !.slot = k], g)
        /\ told' = (told /\ ~Overruns(stream))

\* mark_conn_lost
MarkConnLost(cl, g) ==
    GenSent(IF cl.slot # 0 /\ conn[cl.slot].gen = g THEN [cl EXCEPT !.slot = 0] ELSE cl,
            g + 1)

Finish(c, res) ==
    call' = [call EXCEPT ![c] = [@ EXCEPT !.pc = "done", !.res = res, !.k = 0, !.att = 0]]

\* call: the first step, taken by the front end's code
Begun(cmd) == [NoCall EXCEPT !.pc = "connect", !.cmd = cmd, !.att = 1]
Begin(c, cmd) == [call EXCEPT ![c] = Begun(cmd)]

\* ensure_connected gives the live connection, on which the call then puts its
\* Pending, or makes one
EnsureConnected(c) ==
    /\ call[c].pc = "connect"
    /\ \/ /\ Live(client.slot)
          /\ IF call[c].cmd = "Subscribe"
             THEN /\ Finish(c, [kind |-> "ok"])
                  /\ stream' = [st |-> "live", inbox |-> << >>, lagged |-> FALSE]
                  /\ UNCHANGED conn
             ELSE /\ call' = [call EXCEPT ![c].k = client.slot, ![c].pc = "cmd"]
                  /\ conn' = [conn EXCEPT ![client.slot] =
                                 [@ EXCEPT !.chan = Append(@, Id(c)),
                                           !.mixed = @ \/ Outstanding(client.slot) # {}]]
                  /\ UNCHANGED stream
          /\ UNCHANGED <<client, told>>
       \/ /\ ~Live(client.slot)
          /\ daemon.up
          /\ \E k \in Spare : /\ k = CHOOSE j \in Spare : TRUE
                              /\ Connected(k)
          /\ UNCHANGED call
       \/ /\ ~Live(client.slot)
          /\ ~daemon.up
          /\ IF call[c].att < Attempts
             THEN call' = [call EXCEPT ![c].att = @ + 1]
             ELSE Finish(c, Unreachable)
          /\ UNCHANGED <<conn, client, stream, told>>
    /\ UNCHANGED daemon

(***************************************************************************)
(* DaemonClient::call, its second channel.  writer_task takes the command  *)
(* to the socket; it ends at the first command the socket refuses.         *)
(***************************************************************************)
SendCommand(c) ==
    LET k == call[c].k IN
    /\ call[c].pc = "cmd"
    /\ call' = [call EXCEPT ![c].pc = IF conn[k].wr = "ended" THEN "lost" ELSE "wait"]
    /\ conn' = [conn EXCEPT ![k] =
                   CASE conn[k].wr = "ended" -> @
                     [] conn[k].srv = "gone" -> [@ EXCEPT !.wr = "ended"]
                     [] OTHER -> [@ EXCEPT !.wire = Append(@, Id(c))]]
    /\ UNCHANGED <<daemon, client, stream, told>>

\* a send failed or the reply was dropped with the reader
ConnLost(c) ==
    /\ \/ call[c].pc = "lost"
       \/ /\ call[c].pc = "wait"
          /\ conn[call[c].k].rd = "ended"
    /\ client' = MarkConnLost(client, conn[call[c].k].gen)
    /\ Finish(c, Unreachable)
    /\ UNCHANGED <<daemon, conn, stream, told>>

(***************************************************************************)
(* route_message gives a push to the subscribers, and a snapshot too when  *)
(* the oldest Pending is not waiting for one; anything else answers the    *)
(* oldest Pending, whoever it came for.                                    *)
(***************************************************************************)
BadForSubscribers(m, queue) == m.kind \in Push \/ queue = << >>

ErrorForSubscribers(m, queue) ==
    \/ m.kind \in Push \union {"Error"}
    \/ queue = << >>
    \/ m.kind = "Snapshot" /\ Head(queue)[2] # "GetStatus"

ForSubscribers(m, queue) ==
    \/ m.kind \in Push
    \/ queue = << >>
    \/ m.kind = "Snapshot" /\ Head(queue)[2] # "GetStatus"

Answered(p, m) ==
    [c \in Tasks |-> IF p = Id(c) /\ call[c].pc \in {"cmd", "wait"}
                     THEN [call[c] EXCEPT !.pc = "done", !.res = m, !.att = 0]
                     ELSE call[c]]

\* the "unexpected response" of the typed wrappers in client.rs
Expected(cmd, m) == m.kind = (IF cmd = "GetStatus" THEN "Snapshot" ELSE "Ack")

\* reader_task, one message
RouteMessage(k) ==
    LET queue == conn[k].queue \o conn[k].chan
        m     == Head(conn[k].back)
    IN  /\ conn[k].rd = "run"
        /\ conn[k].back # << >>
        /\ told' = (told /\ ~(ForSubscribers(m, queue) /\ Overruns(stream)))
        /\ IF ForSubscribers(m, queue)
           THEN /\ stream' = Emit(stream, m)
                /\ conn' = [conn EXCEPT ![k] = [@ EXCEPT !.back = Tail(@), !.chan = << >>,
                                                         !.queue = queue]]
                /\ UNCHANGED call
           ELSE /\ call' = Answered(Head(queue), m)
                /\ conn' = [conn EXCEPT ![k] = [@ EXCEPT !.back = Tail(@), !.chan = << >>,
                                                         !.queue = Tail(queue)]]
                /\ UNCHANGED stream
        /\ UNCHANGED <<daemon, client>>

\* reader_task at the end of the stream: closed is set and every Pending it
\* holds is refused, then
ReaderClosed(k) ==
    LET failed == Range(conn[k].queue) \union Range(conn[k].chan)
    IN  /\ conn[k].rd = "run" /\ conn[k].back = << >> /\ conn[k].srv = "gone"
        /\ conn' = [conn EXCEPT ![k] = [@ EXCEPT !.rd = "closing", !.queue = << >>,
                                                 !.chan = << >>]]
        /\ call' = [c \in Tasks |->
                       IF Id(c) \in failed /\ call[c].k = k /\ call[c].pc \in {"cmd", "wait"}
                       THEN [call[c] EXCEPT !.pc = "done", !.res = Unreachable, !.att = 0]
                       ELSE call[c]]
        /\ UNCHANGED <<daemon, client, stream, told>>

\* under the lock the slot is cleared if it holds this generation
ReaderEnded(k) ==
    /\ conn[k].rd = "closing"
    /\ conn' = [conn EXCEPT ![k] = IF \E c \in Tasks : call[c].k = k
                                   THEN [@ EXCEPT !.rd = "ended", !.chan = << >>] ELSE NoConn]
    /\ client' = MarkConnLost(client, conn[k].gen)
    /\ UNCHANGED <<daemon, call, stream, told>>

(***************************************************************************)
(* spawn_supervisor.  It subscribes to conn_gen afresh in every round, so  *)
(* a generation sent between two rounds does not wake it.                  *)
(***************************************************************************)
SupervisorSubscribe ==
    /\ client.sup = "subscribe"
    /\ client' = [client EXCEPT !.sup = "changed", !.sub = TRUE, !.wake = FALSE]
    /\ UNCHANGED <<daemon, conn, call, stream, told>>

SupervisorWoken ==
    /\ client.sup = "changed" /\ client.wake
    /\ client' = IF Live(client.slot)
                 THEN [client EXCEPT !.sup = "subscribe", !.sub = FALSE]
                 ELSE [client EXCEPT !.sup = "connect"]
    /\ UNCHANGED <<daemon, conn, call, stream, told>>

SupervisorConnect ==
    /\ client.sup = "connect"
    /\ \/ /\ Live(client.slot)
          /\ client' = [client EXCEPT !.sup = "subscribe", !.sub = FALSE]
          /\ UNCHANGED <<conn, stream, told>>
       \/ /\ ~Live(client.slot) /\ daemon.up
          /\ \E k \in Spare : /\ k = CHOOSE j \in Spare : TRUE
                              /\ Connected(k)
    /\ UNCHANGED <<daemon, call>>

(***************************************************************************)
(* The server: handle_client_connection.                                   *)
(***************************************************************************)
\* the snapshot has gone out; only now does it subscribe
ServeSubscribe(k) ==
    /\ conn[k].srv = "greeted"
    /\ conn' = [conn EXCEPT ![k].srv = "served"]
    /\ UNCHANGED <<daemon, client, call, stream, told>>

\* PinStore::start refuses a second active pin
PinCommand(cmd) ==
    CASE cmd = "StartPin"   -> [ok |-> ~daemon.pin, pin |-> TRUE]
      [] cmd = "ReleasePin" -> [ok |-> TRUE, pin |-> FALSE]
      [] OTHER              -> [ok |-> TRUE, pin |-> daemon.pin]

\* dispatch_client_command: a pin command that succeeds is broadcast as well
DispatchClientCommand(k) ==
    LET p    == Head(conn[k].wire)
        cmd  == p[2]
        done == PinCommand(cmd)
        rest == [conn EXCEPT ![k] =
                    [@ EXCEPT !.wire = Tail(@),
                              !.back = Append(@, IF cmd = "GetStatus" THEN Snapshot(p)
                                                 ELSE IF done.ok THEN Ack(p)
                                                 ELSE Refused(p))]]
    IN  /\ conn[k].srv = "served"
        /\ conn[k].wire # << >>
        /\ daemon' = [daemon EXCEPT !.pin = done.pin]
        /\ conn' = IF cmd \in {"StartPin", "ReleasePin"} /\ done.ok
                   THEN Broadcast(rest, StateChanged) ELSE rest
        /\ told' = (told /\ ~\E j \in Conns : conn'[j].lagged)
        /\ UNCHANGED <<client, call, stream>>

\* broadcast_rx.recv: the next message, or a fresh snapshot after an overrun
ServeFeed(k) ==
    /\ conn[k].srv = "served"
    /\ \/ /\ conn[k].lagged
          /\ conn' = [conn EXCEPT ![k].lagged = FALSE,
                                  ![k].back = Append(@, Snapshot(<< >>))]
       \/ /\ ~conn[k].lagged /\ conn[k].feed # << >>
          /\ conn' = [conn EXCEPT ![k].feed = Tail(@),
                                  ![k].back = Append(@, Head(conn[k].feed))]
    /\ UNCHANGED <<daemon, client, call, stream, told>>

Fault == /\ daemon.left > 0
         /\ daemon.faults < MaxFaults

\* read_line is given up for a broadcast with a part of the line read, which is
\* lost.  The rest is answered as a bad command and the connection ends; when the
\* rest is only the end of the line, recv_raw skips it and nothing happens
\* (skipped is history).
ServeTorn(k) ==
    LET sent == [conn[k] EXCEPT !.back = Append(@, Head(conn[k].feed)), !.feed = Tail(@)]
    IN  /\ Fault
        /\ conn[k].srv = "served" /\ ~conn[k].lagged
        /\ conn[k].wire # << >> /\ conn[k].feed # << >>
        /\ daemon' = [daemon EXCEPT !.left = @ - 1, !.faults = @ + 1]
        /\ \/ /\ conn' = [conn EXCEPT ![k] =
                          [sent EXCEPT !.srv = "gone", !.wire = << >>, !.feed = << >>,
                                       !.back = Append(@, Refused(Head(conn[k].wire)))]]
              /\ told' = FALSE
           \/ /\ conn' = [conn EXCEPT ![k] = [sent EXCEPT !.wire = Tail(@), !.skipped = TRUE]]
              /\ UNCHANGED told
        /\ UNCHANGED <<client, call, stream>>

(***************************************************************************)
(* The daemon.                                                             *)
(***************************************************************************)
\* the engine's manifest moves on, a conflict is logged, or another process
\* starts or ends a pin
StateMoves ==
    /\ daemon.left > 0
    /\ \/ daemon' = [daemon EXCEPT !.left = @ - 1, !.man = @ + 1]
       \/ daemon' = [daemon EXCEPT !.left = @ - 1, !.conf = @ + 1]
       \/ daemon' = [daemon EXCEPT !.left = @ - 1, !.pin = ~@]
    /\ UNCHANGED <<conn, client, call, stream, told>>

Changed == daemon.man # daemon.seenMan \/ daemon.pin # daemon.seenPin

\* what one tick of the watcher sends, in order
TickMessages ==
    (IF Changed THEN <<StateChanged>> ELSE << >>)
    \o [i \in 1..(daemon.conf - daemon.seenConf) |-> ConflictRecorded(daemon.seenConf + i)]

BroadcastAll(cs, ms) ==
    LET one == IF Len(ms) > 0 THEN Broadcast(cs, ms[1]) ELSE cs
        two == IF Len(ms) > 1 THEN Broadcast(one, ms[2]) ELSE one
    IN  IF Len(ms) > 2 THEN Broadcast(two, ms[3]) ELSE two

\* run_state_watcher, one tick
RunStateWatcher ==
    /\ daemon.up
    /\ Changed \/ daemon.conf # daemon.seenConf
    /\ conn' = BroadcastAll(conn, TickMessages)
    /\ daemon' = [daemon EXCEPT !.seenMan = daemon.man, !.seenPin = daemon.pin,
                                !.seenConf = daemon.conf]
    /\ told' = IF Changed
               THEN /\ stream.st = "live"
                    /\ \E k \in Conns : Live(k) /\ conn[k].srv = "served"
                    /\ ~\E k \in Conns : conn'[k].lagged
               ELSE told /\ ~\E k \in Conns : conn'[k].lagged
    /\ UNCHANGED <<client, call, stream>>

\* the process ends, by IpcServerHandle::shutdown or by a crash: what it has
\* written still arrives, what it has not read is lost
DaemonStops ==
    /\ Fault /\ daemon.up
    /\ daemon' = [daemon EXCEPT !.up = FALSE, !.left = @ - 1, !.faults = @ + 1]
    /\ conn' = [k \in Conns |-> IF conn[k].srv = "none" THEN conn[k]
                                ELSE [conn[k] EXCEPT !.srv = "gone", !.wire = << >>,
                                                     !.feed = << >>, !.lagged = FALSE]]
    /\ told' = FALSE
    /\ UNCHANGED <<client, call, stream>>

\* spawn_ipc_server: the watcher starts from what it finds
SpawnIpcServer ==
    /\ ~daemon.up
    /\ daemon' = [daemon EXCEPT !.up = TRUE, !.seenMan = daemon.man,
                                !.seenPin = daemon.pin, !.seenConf = daemon.conf]
    /\ UNCHANGED <<conn, client, call, stream, told>>

ClientStep ==
    \/ \E c \in Tasks : EnsureConnected(c) \/ SendCommand(c) \/ ConnLost(c)
    \/ \E k \in Conns : RouteMessage(k) \/ ReaderClosed(k) \/ ReaderEnded(k)
    \/ SupervisorSubscribe \/ SupervisorWoken \/ SupervisorConnect

ServerStep ==
    \/ \E k \in Conns : ServeSubscribe(k) \/ DispatchClientCommand(k) \/ ServeFeed(k)
    \/ RunStateWatcher
    \/ SpawnIpcServer

Disturbance ==
    \/ \E k \in Conns : ServeTorn(k)
    \/ StateMoves
    \/ DaemonStops
=============================================================================

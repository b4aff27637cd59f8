------------------------------ MODULE Engines ------------------------------
(***************************************************************************)
(* The threads of the folder engines (SyncEngine in                        *)
(* crates/ferry-sync/src/engine.rs): an accept loop, a session thread for  *)
(* every accepted connection and a sync loop that dials, all behind one    *)
(* session lock; the transport they share (TCP, or one iroh endpoint for   *)
(* the whole device); the handshake of session.rs as far as it decides who *)
(* may sync; and the supervisor of ferry-daemon, which removes and         *)
(* restarts engines.  What a session transfers is FolderSync and Wire.     *)
(***************************************************************************)
EXTENDS Integers, Sequences, FiniteSets, FiniteSetsExt

CONSTANTS
    Device,      \* device identities, integers in the order dial_discovered_peers uses
    Folder,      \* folder identifiers
    Cases,       \* the configurations checked, with the bounds on removals and crashes
    Conn,        \* bound: connections open at the same time
    Permits,     \* MAX_CONCURRENT_SESSIONS
    None

ASSUME EnginesAssumption ==
    /\ Device \subseteq Nat /\ Permits \in Nat \ {0}
    /\ Conn \subseteq Nat \ {0} /\ IsFiniteSet(Conn)
    /\ \A c \in Cases :
          /\ c.transport \in {"iroh", "tcp"}
          /\ DOMAIN c.head \subseteq Device \X Folder
          /\ c.head \in [DOMAIN c.head -> SUBSET Device]
          /\ \A e \in DOMAIN c.head : e[1] \in c.head[e] /\ c.pairs[e] \subseteq Device

VARIABLES
    case,      \* the case chosen: transport, listening engines, explicit peers,
               \* devices paired while the engines run, folders removed, crashes
    head,      \* CONFIG_HEAD of every folder on disk: the devices it names
    endpoint,  \* the iroh endpoint of every device, shared by its engines: open?
    eng,       \* the engines
    conn,      \* the connections
    sup,       \* the supervisor's thread of every device
    crashes

vars == <<case, head, endpoint, eng, conn, sup, crashes>>

Engine == DOMAIN head
Dev(e) == e[1]
Fold(e) == e[2]
Iroh == case.transport = "iroh"

(* The session lock is free, held by the sync loop, or by the thread of a   *)
(* connection.                                                              *)
SyncLoopHolds == 0

-----------------------------------------------------------------------------
(* PeerPolicy.                                                              *)

remote_peers(policy, self) == policy \ {self}

(* expected_peer: {} refuses everybody, a singleton pins, None expects any. *)
expected_peer(policy, self) ==
    LET peers == remote_peers(policy, self)
    IN  IF Cardinality(peers) <= 1 THEN peers ELSE {None}

check_identity(got, expect) == None \in expect \/ got \in expect

AdmitsAll(policy, peer) == TRUE

admits(policy, peer) == peer \in policy

(* current_policy: only the default policy, which names nobody, is read     *)
(* from CONFIG_HEAD again.                                                  *)
current_policy(e) == IF eng[e].policy # {} THEN eng[e].policy ELSE head[e]

-----------------------------------------------------------------------------
(* Engines and connections.                                                 *)

Threads(e) == {c \in Conn : conn[c].at = {e} /\ conn[c].r \notin {"backlog", "accepted", "over"}}

FreeConn == [i |-> "over", r |-> "over", from |-> None, at |-> {},
             in |-> [I |-> <<>>, R |-> <<>>], up |-> FALSE, known |-> FALSE]

(* open_watched_folder and SyncEngine::start: the policy is read once.      *)
Started(e, st) ==
    [st |-> st, flag |-> FALSE, policy |-> head[e], lock |-> None, permits |-> Permits,
     live |-> 0, acc |-> IF e \in case.listens THEN "accept" ELSE "ended",
     sync |-> "wait", todo |-> {}, scan |-> TRUE]

\* the endpoint that a device's engines share, and its supervisor between two jobs
Bound == [d \in Device |-> Iroh]
AtRest == [pc |-> "idle", e |-> None, restart |-> FALSE]

Init ==
    /\ case \in Cases
    /\ head = case.head
    /\ endpoint = Bound
    /\ eng = [e \in Engine |-> Started(e, "up")]
    /\ conn = [c \in Conn |-> FreeConn]
    /\ sup = [d \in Device |-> AtRest]
    /\ crashes = 0

Peer(end) == IF end = "I" THEN "R" ELSE "I"

(* The record c after end sends the frames; a dropped connection loses none *)
(* that are on their way.                                                   *)
Sent(c, end, frames) ==
    IF c.up THEN [c EXCEPT !.in[Peer(end)] = @ \o frames] ELSE c

(* Once neither end uses the connection it is gone.                         *)
Settled(c) == IF c.i = "over" /\ c.r = "over" THEN FreeConn ELSE c

(* A session thread ends: the guards are dropped, the lock first.           *)
ThreadExitKeepsPermit(e, c) ==
    [e EXCEPT !.lock = IF @ = c THEN None ELSE @, !.live = @ - 1]

thread_exit(e, c) ==
    [e EXCEPT !.lock = IF @ = c THEN None ELSE @, !.permits = @ + 1, !.live = @ - 1]

-----------------------------------------------------------------------------
(* The sync loop.                                                           *)

(* sync_loop takes the session lock if it is free and dials the explicit    *)
(* peer or, one after another, the devices of the policy.                   *)
sync_loop(e) ==
    /\ eng[e].st = "up" /\ eng[e].sync = "wait" /\ ~eng[e].flag /\ eng[e].scan
    /\ eng[e].lock = None
    /\ LET peers == IF Iroh THEN remote_peers(current_policy(e), Dev(e)) ELSE {Dev(case.connect[e])}
       IN  /\ peers # {}
           /\ eng' = [eng EXCEPT ![e].lock = SyncLoopHolds, ![e].sync = "dial", ![e].todo = peers]
    /\ Iroh \/ case.connect[e] \in Engine
    /\ UNCHANGED <<case, head, endpoint, conn, sup, crashes>>

(* The loop ends when it sees the flag or the scan channel disconnected.    *)
sync_loop_ends(e) ==
    /\ eng[e].sync = "wait" /\ (eng[e].flag \/ ~eng[e].scan)
    /\ eng' = [eng EXCEPT ![e].sync = "ended"]
    /\ UNCHANGED <<case, head, endpoint, conn, sup, crashes>>

Listening(e) == eng[e].acc # "ended" /\ (Iroh => endpoint[Dev(e)])

(* The engines a dial of device p by engine e can reach.                    *)
Reachable(e, p) ==
    IF Iroh THEN IF endpoint[Dev(e)] /\ p # Dev(e)
                 THEN {x \in Engine : Dev(x) = p /\ Listening(x)} ELSE {}
            ELSE {case.connect[e]} \cap {x \in Engine : Listening(x)}

(* dial_peer, or dial: the connection waits to be accepted, over TCP by one *)
(* engine and over iroh by whichever engine of the device polls first.      *)
dial_discovered_peers(e) ==
    /\ eng[e].sync = "dial" /\ eng[e].todo # {}
    /\ LET p == Min(eng[e].todo)
       IN  \/ /\ Reachable(e, p) # {}
              /\ \E c \in Conn :
                    /\ conn[c] = FreeConn
                    /\ \A b \in Conn : conn[b] = FreeConn => c <= b
                    /\ conn' = [conn EXCEPT ![c] =
                          [i |-> "hello", r |-> "backlog", from |-> e,
                           at |-> IF Iroh THEN {x \in Engine : Dev(x) = p} ELSE {case.connect[e]},
                           in |-> [I |-> <<>>, R |-> <<"hello">>], up |-> TRUE, known |-> FALSE]]
              /\ eng' = [eng EXCEPT ![e].sync = "session", ![e].todo = @ \ {p}]
           \/ eng' = [eng EXCEPT ![e].todo = @ \ {p}] /\ UNCHANGED conn
    /\ UNCHANGED <<case, head, endpoint, sup, crashes>>

(* No peer is left: the backoff is set and the session lock released.       *)
record_dial_failure(e) ==
    /\ eng[e].sync = "dial" /\ eng[e].todo = {}
    /\ eng' = [eng EXCEPT ![e].sync = "wait", ![e].lock = None]
    /\ UNCHANGED <<case, head, endpoint, conn, sup, crashes>>

-----------------------------------------------------------------------------
(* The accept loop.                                                         *)

(* A connection of the backlog is accepted; one that is already dead is an  *)
(* error over iroh.  The shutdown flag is looked at once, here.             *)
accept(e) ==
    /\ eng[e].acc = "accept" /\ Listening(e)
    /\ \E c \in Conn :
          /\ conn[c].r = "backlog" /\ e \in conn[c].at
          /\ \/ /\ eng[e].flag \/ (Iroh /\ ~conn[c].up)
                /\ conn' = [conn EXCEPT ![c] = Settled([conn[c] EXCEPT !.r = "over", !.up = FALSE])]
                /\ eng' = [eng EXCEPT ![e].acc = IF eng[e].flag THEN "ended" ELSE @]
             \/ /\ ~eng[e].flag /\ (Iroh => conn[c].up)
                /\ conn' = [conn EXCEPT ![c].at = {e}, ![c].r = "accepted"]
                /\ eng' = [eng EXCEPT ![e].acc = "spawn"]
    /\ UNCHANGED <<case, head, endpoint, sup, crashes>>

(* It is dropped when the engine is busy, else a session thread with a      *)
(* permit and a place among the live sessions handles it.                   *)
accept_loop(e) ==
    /\ eng[e].acc = "spawn"
    /\ \E c \in Conn :
          /\ conn[c].r = "accepted" /\ conn[c].at = {e}
          /\ \/ /\ eng[e].permits = 0
                /\ conn' = [conn EXCEPT ![c] = Settled([conn[c] EXCEPT !.r = "over", !.up = FALSE])]
                /\ eng' = [eng EXCEPT ![e].acc = "accept"]
             \/ /\ eng[e].permits > 0
                /\ conn' = [conn EXCEPT ![c].r = "queued"]
                /\ eng' = [eng EXCEPT ![e].acc = "accept", ![e].permits = @ - 1, ![e].live = @ + 1]
    /\ UNCHANGED <<case, head, endpoint, sup, crashes>>

(* Accepting ends once the supervisor closed the listener, which over TCP   *)
(* wakes it by a connection of its own.                                     *)
accept_fails(e) ==
    /\ eng[e].acc = "accept" /\ eng[e].flag
    /\ IF Iroh THEN ~endpoint[Dev(e)]
               ELSE sup[Dev(e)].e = e /\ sup[Dev(e)].pc \notin {"idle", "close"}
    /\ eng' = [eng EXCEPT ![e].acc = "ended"]
    /\ UNCHANGED <<case, head, endpoint, conn, sup, crashes>>

(* A connection nobody will accept: the listener is gone.                   *)
backlog_dropped(c) ==
    /\ conn[c].r = "backlog"
    /\ \A e \in conn[c].at : ~Listening(e)
    /\ conn' = [conn EXCEPT ![c] = Settled([conn[c] EXCEPT !.r = "over", !.up = FALSE])]
    /\ UNCHANGED <<case, head, endpoint, eng, sup, crashes>>

-----------------------------------------------------------------------------
(* Sessions: run_session_v1 with handshake_core, both ends.                 *)

Responder(c) == CHOOSE e \in conn[c].at : TRUE
Initiator(c) == conn[c].from

(* The end of a session of c, rec being the connection after its last       *)
(* frames.  A dialer goes on to the next peer unless the session succeeded. *)
OverI(c, rec, ok) ==
    /\ conn' = [conn EXCEPT ![c] = Settled([rec EXCEPT !.i = "over", !.up = FALSE])]
    /\ LET e == Initiator(c)
       IN  eng' = [eng EXCEPT ![e].sync = "dial", ![e].todo = IF ok THEN {} ELSE @]

OverR(c, rec) ==
    /\ conn' = [conn EXCEPT ![c] = Settled([rec EXCEPT !.r = "over", !.up = FALSE])]
    /\ eng' = [eng EXCEPT ![Responder(c)] = thread_exit(@, c)]

(* A session thread gets the lock; it gives up when the engine shuts down   *)
(* and when the policy names no peer.                                       *)
session_thread(c) ==
    /\ conn[c].r = "queued" /\ eng[Responder(c)].lock = None
    /\ LET e == Responder(c)
       IN  IF eng[e].flag \/ expected_peer(current_policy(e), Dev(e)) = {}
           THEN OverR(c, conn[c])
           ELSE /\ eng' = [eng EXCEPT ![e].lock = c]
                /\ conn' = [conn EXCEPT ![c].r = "hello"]
    /\ UNCHANGED <<case, head, endpoint, sup, crashes>>

Front(c, end) == Head(conn[c].in[end])
Has(c, end, frame) == conn[c].in[end] # <<>> /\ Front(c, end) = frame
Took(c, end) == [conn[c] EXCEPT !.in[end] = Tail(@)]

(* The responder reads HELLO, checks the static key and answers HELLO_ACK.  *)
handshake_hello(c) ==
    /\ conn[c].r = "hello" /\ Has(c, "R", "hello")
    /\ LET e == Responder(c)
       IN  IF check_identity(Dev(Initiator(c)), expected_peer(current_policy(e), Dev(e)))
           THEN /\ conn' = [conn EXCEPT ![c] = Sent([Took(c, "R") EXCEPT !.r = "auth"], "R", <<"ack">>)]
                /\ UNCHANGED eng
           ELSE OverR(c, Sent(Took(c, "R"), "R", <<"bye">>))
    /\ UNCHANGED <<case, head, endpoint, sup, crashes>>

(* The initiator reads HELLO_ACK and proves its identity.                   *)
handshake_ack(c) ==
    /\ conn[c].i = "hello" /\ Has(c, "I", "ack")
    /\ LET e == Initiator(c)
       IN  IF check_identity(Dev(Responder(c)), expected_peer(current_policy(e), Dev(e)))
           THEN /\ conn' = [conn EXCEPT ![c] = Sent([Took(c, "I") EXCEPT !.i = "auth"], "I", <<"init">>)]
                /\ UNCHANGED eng
           ELSE OverI(c, Sent(Took(c, "I"), "I", <<"bye">>), FALSE)
    /\ UNCHANGED <<case, head, endpoint, sup, crashes>>

(* The responder has the peer's identity; a peer the policy does not admit  *)
(* gets a BYE after AUTH_CONFIRM.                                           *)
session_admits_initiator(c) ==
    /\ conn[c].r = "auth" /\ Has(c, "R", "init")
    /\ LET e == Responder(c)
       IN  IF admits(current_policy(e), Dev(Initiator(c)))
           THEN /\ conn' = [conn EXCEPT ![c] = Sent([Took(c, "R") EXCEPT !.r = "offers"], "R", <<"confirm">>)]
                /\ UNCHANGED eng
           ELSE OverR(c, Sent(Took(c, "R"), "R", <<"confirm", "bye">>))
    /\ UNCHANGED <<case, head, endpoint, sup, crashes>>

(* The same for the initiator, which then announces its folder.             *)
session_admits_responder(c) ==
    /\ conn[c].i = "auth" /\ Has(c, "I", "confirm")
    /\ LET e == Initiator(c)
       IN  IF admits(current_policy(e), Dev(Responder(c)))
           THEN /\ conn' = [conn EXCEPT ![c] = Sent([Took(c, "I") EXCEPT !.i = "offers"], "I", <<"offer">>)]
                /\ UNCHANGED eng
           ELSE OverI(c, Sent(Took(c, "I"), "I", <<"bye">>), FALSE)
    /\ UNCHANGED <<case, head, endpoint, sup, crashes>>

AnyFolder(e, x) == TRUE

known_folder(e, x) == Fold(e) = Fold(x)
(* The offer round.  Of a folder both know, what it lacks is pulled by each *)
(* end (FolderSync, Wire); the initiator then records the agreement before  *)
(* its BYE, the responder after the echo.  An unknown folder is echoed      *)
(* without a manifest: there is nothing to pull, but peer_pulls_from_us     *)
(* holds at both ends, and each serves the other, which asks for nothing.   *)
echo_announcement(c) ==
    /\ conn[c].r = "offers" /\ Has(c, "R", "offer")
    /\ LET known == known_folder(Responder(c), Initiator(c))
       IN  conn' = [conn EXCEPT ![c] = Sent([Took(c, "R") EXCEPT
               !.r = IF known THEN "bye" ELSE "serving", !.known = known], "R", <<"echo">>)]
    /\ UNCHANGED <<case, head, endpoint, eng, sup, crashes>>

(* The echo carries a manifest when the responder knows the folder.         *)
consume_echo(c) ==
    /\ conn[c].i = "offers" /\ Has(c, "I", "echo")
    /\ conn' = [conn EXCEPT ![c] =
          Sent([Took(c, "I") EXCEPT !.i = IF conn[c].known THEN "bye" ELSE "serving"], "I",
               IF conn[c].known THEN <<"bye">> ELSE <<>>)]
    /\ UNCHANGED <<case, head, endpoint, eng, sup, crashes>>

(* The responder agrees, reads the BYE and answers it.                      *)
run_v1_session(c) ==
    /\ conn[c].r = "bye" /\ Has(c, "R", "bye")
    /\ OverR(c, Sent(Took(c, "R"), "R", <<"bye">>))
    /\ UNCHANGED <<case, head, endpoint, sup, crashes>>

recv_bye(c) ==
    /\ conn[c].i = "bye" /\ Has(c, "I", "bye")
    /\ OverI(c, Took(c, "I"), TRUE)
    /\ UNCHANGED <<case, head, endpoint, sup, crashes>>

(* A read fails: the connection is down and nothing is left to read, or the *)
(* peer said BYE, or, over TCP, nothing came for five seconds.              *)
Expected == [hello |-> "ack", auth |-> "confirm", offers |-> "echo", serving |-> "request", bye |-> "bye"]
ExpectedR == [hello |-> "hello", auth |-> "init", offers |-> "offer", serving |-> "request", bye |-> "bye"]

ReadFails(c, end, want) ==
    \/ conn[c].in[end] = <<>> /\ ~conn[c].up
    \/ conn[c].in[end] # <<>> /\ Front(c, end) # want

NoReadTimeout(c, end) == FALSE

read_timeout(c, end) == ~Iroh /\ conn[c].in[end] = <<>>
session_error_dial(c) ==
    /\ conn[c].i \in DOMAIN Expected
    /\ ReadFails(c, "I", Expected[conn[c].i]) \/ read_timeout(c, "I")
    /\ OverI(c, conn[c], FALSE)
    /\ UNCHANGED <<case, head, endpoint, sup, crashes>>

session_error_accept(c) ==
    /\ conn[c].r \in DOMAIN ExpectedR
    /\ ReadFails(c, "R", ExpectedR[conn[c].r]) \/ read_timeout(c, "R")
    /\ OverR(c, conn[c])
    /\ UNCHANGED <<case, head, endpoint, sup, crashes>>

(* The network loses the connection; over TCP a read just times out.        *)
LinkBreaks(c) ==
    /\ Iroh /\ conn[c].up
    /\ conn' = [conn EXCEPT ![c].up = FALSE]
    /\ UNCHANGED <<case, head, endpoint, eng, sup, crashes>>

-----------------------------------------------------------------------------
(* The supervisor.                                                          *)

(* handle_remove unregisters the folder and shuts its engine down.          *)
handle_remove(e) ==
    /\ sup[Dev(e)].pc = "idle" /\ eng[e].st = "up" /\ e \in case.removes
    /\ sup' = [sup EXCEPT ![Dev(e)] = [pc |-> "close", e |-> e, restart |-> FALSE]]
    /\ eng' = [eng EXCEPT ![e].flag = TRUE, ![e].scan = FALSE]
    /\ UNCHANGED <<case, head, endpoint, conn, crashes>>

is_healthy(e) == ~eng[e].flag /\ eng[e].sync # "ended" /\ (e \in case.listens => eng[e].acc # "ended")

(* tick restarts an engine one of whose loops has ended, or whose restart   *)
(* failed before.                                                           *)
tick(e) ==
    /\ sup[Dev(e)].pc = "idle" /\ eng[e].st \in {"up", "failed"} /\ ~is_healthy(e)
    /\ sup' = [sup EXCEPT ![Dev(e)] = [pc |-> "close", e |-> e, restart |-> TRUE]]
    /\ eng' = [eng EXCEPT ![e].flag = TRUE, ![e].scan = FALSE]
    /\ UNCHANGED <<case, head, endpoint, conn, crashes>>

(* A shutdown that leaves the listener open.                                *)
ShutdownKeepsListener(d) ==
    /\ sup[d].pc = "close"
    /\ sup' = [sup EXCEPT ![d].pc = "joins"]
    /\ UNCHANGED <<case, head, endpoint, eng, conn, crashes>>

(* shutdown closes the listener: over iroh that closes the endpoint, and    *)
(* with it every connection of the device.                                  *)
shutdown_close(d) ==
    /\ sup[d].pc = "close"
    /\ sup' = [sup EXCEPT ![d].pc = "joins"]
    /\ IF Iroh
       THEN /\ endpoint' = [endpoint EXCEPT ![d] = FALSE]
            /\ conn' = [c \in Conn |->
                  IF conn[c].up /\ (\E e \in conn[c].at \cup {conn[c].from} : Dev(e) = d)
                  THEN [conn[c] EXCEPT !.up = FALSE] ELSE conn[c]]
       ELSE UNCHANGED <<endpoint, conn>>
    /\ UNCHANGED <<case, head, eng, crashes>>

(* It joins the session threads, then the two loops, then waits until no    *)
(* session is live and joins what the accept loop had spawned meanwhile.    *)
shutdown_joins(d) ==
    /\ sup[d].pc = "joins" /\ Threads(sup[d].e) = {}
    /\ sup' = [sup EXCEPT ![d].pc = "loops"]
    /\ UNCHANGED <<case, head, endpoint, eng, conn, crashes>>

shutdown_loops(d) ==
    /\ sup[d].pc = "loops"
    /\ eng[sup[d].e].acc = "ended" /\ eng[sup[d].e].sync = "ended"
    /\ sup' = [sup EXCEPT ![d].pc = "wait"]
    /\ UNCHANGED <<case, head, endpoint, eng, conn, crashes>>

WaitsForNone(e) == TRUE

wait_sessions_done(e) == eng[e].live = 0
shutdown_done(d) ==
    /\ sup[d].pc = "wait" /\ wait_sessions_done(sup[d].e)
    /\ LET e == sup[d].e
       IN  IF ~sup[d].restart
           THEN eng' = [eng EXCEPT ![e].st = "removed"] /\ UNCHANGED crashes
           ELSE \/ eng' = [eng EXCEPT ![e] = Started(e, "up")] /\ UNCHANGED crashes
                \/ /\ crashes < case.crashes /\ crashes' = crashes + 1
                   /\ eng' = [eng EXCEPT ![e].st = "failed"]
    /\ sup' = [sup EXCEPT ![d] = AtRest]
    /\ UNCHANGED <<case, head, endpoint, conn>>

-----------------------------------------------------------------------------
(* The environment.                                                         *)

(* Pairing adds a device to CONFIG_HEAD on disk.                            *)
append_wrap_entry(e) ==
    /\ \E p \in case.pairs[e] : p \notin head[e] /\ head' = [head EXCEPT ![e] = @ \cup {p}]
    /\ UNCHANGED <<case, endpoint, eng, conn, sup, crashes>>

(* The scan engine dies and its channel disconnects.                        *)
scan_disconnects(e) ==
    /\ eng[e].st = "up" /\ eng[e].scan /\ crashes < case.crashes
    /\ crashes' = crashes + 1
    /\ eng' = [eng EXCEPT ![e].scan = FALSE]
    /\ UNCHANGED <<case, head, endpoint, conn, sup>>

SyncLoop(e) == sync_loop(e) \/ sync_loop_ends(e) \/ dial_discovered_peers(e) \/ record_dial_failure(e)

AcceptLoop(e) == accept(e) \/ accept_loop(e) \/ accept_fails(e)

Session(c) ==
    \/ session_thread(c) \/ handshake_hello(c) \/ handshake_ack(c)
    \/ session_admits_initiator(c) \/ session_admits_responder(c)
    \/ echo_announcement(c) \/ consume_echo(c) \/ run_v1_session(c) \/ recv_bye(c)
    \/ session_error_dial(c) \/ session_error_accept(c) \/ backlog_dropped(c)

Shutdown(d) == shutdown_close(d) \/ shutdown_joins(d) \/ shutdown_loops(d) \/ shutdown_done(d)

Next ==
    \/ \E e \in Engine :
          SyncLoop(e) \/ AcceptLoop(e) \/ handle_remove(e) \/ tick(e)
          \/ append_wrap_entry(e) \/ scan_disconnects(e)
    \/ \E c \in Conn : Session(c) \/ LinkBreaks(c)
    \/ \E d \in Device : Shutdown(d)

Spec == Init /\ [][Next]_vars

AllEngines == UNION {DOMAIN c.head : c \in Cases}
Hosts == {Dev(e) : e \in AllEngines}

(* Threads run; a loop that waits for the scan channel, accept and dialing  *)
(* need not do anything.                                                    *)
Fairness ==
    /\ \A d \in Hosts : WF_vars(Shutdown(d))
    /\ \A c \in Conn : WF_vars(Session(c))
    /\ \A e \in AllEngines :
          /\ WF_vars(e \in Engine /\ (sync_loop_ends(e) \/ dial_discovered_peers(e) \/ record_dial_failure(e)))
          /\ WF_vars(e \in Engine /\ (accept_loop(e) \/ accept_fails(e)))

FairSpec == Spec /\ Fairness

-----------------------------------------------------------------------------
(* Permits come back: each of the Permits is free or held by exactly one    *)
(* session thread, however the thread ended (refused, failed, finished or   *)
(* overtaken by a shutdown), and live counts those threads.                 *)
PermitsBalance ==
    \A e \in Engine :
        /\ eng[e].live = Cardinality(Threads(e))
        /\ eng[e].permits + eng[e].live = Permits

(* Sessions are not confused: an agreement is recorded only with a device   *)
(* that this folder's CONFIG_HEAD names, and only when the other end's      *)
(* engine serves the same folder, although an incoming connection goes to   *)
(* whichever engine of the device polls the shared endpoint.                *)
AgreedPaired ==
    \A c \in Conn : conn[c].known /\ (conn[c].i = "bye" \/ conn[c].r = "bye") =>
        LET a == Initiator(c)
            b == Responder(c)
        IN  /\ Fold(a) = Fold(b)
            /\ conn[c].i = "bye" => Dev(b) \in head[a]
            /\ conn[c].r = "bye" => Dev(a) \in head[b]

(* EngineHandle::shutdown leaves nothing behind: when it has returned no    *)
(* loop and no session of the engine runs.                                  *)
Quiesced ==
    \A e \in Engine : eng[e].st \in {"removed", "failed"} =>
        eng[e].acc = "ended" /\ eng[e].sync = "ended" /\ Threads(e) = {}

(* Removing or restarting an engine ends, although sessions may be waiting  *)
(* for the session lock or for the peer when it starts.                     *)
ShutdownEnds ==
    \A d \in Hosts : (sup[d].pc # "idle") ~> (sup[d].pc = "idle")

(* Over TCP every dial ends, even when two devices dial each other at the   *)
(* same moment and each holds the lock the other's session waits for, and   *)
(* when the two ends of a session serve each other.                         *)
DialsEnd ==
    \A e \in AllEngines :
        (e \in Engine /\ ~Iroh /\ eng[e].sync = "session") ~> (e \in Engine /\ eng[e].sync # "session")

(* Removing or restarting the engine of one folder leaves the other folders *)
(* of the device reachable.                                                 *)
FoldersIsolated ==
    \A e \in Engine : Iroh /\ eng[e].st = "up" /\ ~eng[e].flag => endpoint[Dev(e)]

(* A device that pairing has added to CONFIG_HEAD is not refused by the     *)
(* folder's engine.                                                         *)
PairedNotRefused ==
    [][\A c \in Conn :
          conn[c].r \in {"queued", "hello", "auth"} /\ conn'[c].r = "over" /\ conn[c].up
            /\ ~eng[Responder(c)].flag /\ ~read_timeout(c, "R")
          => Dev(Initiator(c)) \notin head[Responder(c)]]_vars
=============================================================================

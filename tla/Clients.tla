------------------------------ MODULE Clients ------------------------------
(***************************************************************************)
(* The front ends over one DaemonClient: AutoBackend's fallback            *)
(* (ferry-ipc/src/backend.rs), the terminal UI (ferry-tui), the desktop UI *)
(* (ferry-gui) and the dashboard server (ferry-daemon/src/ui).             *)
(*                                                                         *)
(* The terminal UI is one task: it waits for a call before it looks at     *)
(* another event.  The desktop UI has three: one fetches the first status, *)
(* one forwards the event stream and one performs the user's actions.  The *)
(* dashboard has a task per event-stream request and per request.  Only    *)
(* the dashboard has a backend to fall back to, which works on the         *)
(* folder's files in its own process.                                      *)
(***************************************************************************)
EXTENDS Ipc

CONSTANTS
    Budget,       \* front end, of "tui", "gui" and "web" -> the bound daemon.left
    UserCommands  \* the commands a user may give

VARIABLES kind,    \* the front end
          prog,    \* task -> where it is in its program
          view,    \* what the front end shows
          asked    \* how many commands its user gave

vars == <<daemon, conn, client, call, stream, told, kind, prog, view, asked>>

TasksOf == [tui |-> {"main"}, gui |-> {"init", "stream", "act"}, web |-> {"sse", "http"}]

NoView == [set |-> FALSE, man |-> 0, pin |-> FALSE, conf |-> 0, paths |-> {}, on |-> FALSE]

\* what a task does first: run, the first two tasks of GuiApp::new and api_events
\* begin with a call, the others wait for their user
FirstCall(c) ==
    CASE c \in {"main", "init", "sse"} -> "GetStatus"
      [] c = "stream"                 -> "Subscribe"
      [] OTHER                        -> "none"

FirstPlace(c) ==
    CASE c = "main"   -> "booting"
      [] c = "stream" -> "subscribing"
      [] c \in {"init", "sse"} -> "fetching"
      [] OTHER        -> "loop"

Init ==
    /\ kind \in DOMAIN Budget
    /\ IpcInit(Budget[kind])
    /\ prog = [c \in Tasks |-> IF c \in TasksOf[kind] THEN FirstPlace(c) ELSE "ended"]
    /\ call = [c \in Tasks |-> IF c \in TasksOf[kind] /\ FirstCall(c) # "none"
                               THEN Begun(FirstCall(c)) ELSE NoCall]
    /\ view = [NoView EXCEPT !.on = (kind = "gui")]
    /\ asked = 0

(***************************************************************************)
(* The views.                                                              *)
(***************************************************************************)
\* the State arms: everything shown is replaced
ApplySnapshot(v, m) ==
    [v EXCEPT !.set = TRUE, !.man = m.man, !.pin = m.pin, !.conf = m.conf, !.on = TRUE]

\* a StateChanged carries the manifest, and nothing of the pin
ApplyStateChanged(v, m) == [v EXCEPT !.man = m.man, !.on = TRUE]

\* the terminal UI counts conflicts
ApplyConflictRecorded(v, m) == [v EXCEPT !.conf = @ + 1, !.on = TRUE]

\* apply_ack
ApplyAck(v, cmd, m) ==
    CASE cmd = "StartPin"      -> [v EXCEPT !.pin = TRUE]
      [] cmd = "ReleasePin"    -> [v EXCEPT !.pin = FALSE]
      [] cmd = "ListConflicts" -> [v EXCEPT !.conf = IF m.conf > @ THEN m.conf ELSE @]
      [] OTHER                 -> v

BadTuiShown(v, m) ==
    CASE m.kind = "Snapshot"         -> ApplySnapshot(v, m)
      [] m.kind = "ConflictRecorded" -> ApplyConflictRecorded(v, m)
      [] OTHER                       -> [v EXCEPT !.on = TRUE]

\* TuiApp::handle_ui_event
TuiShown(v, m) ==
    CASE m.kind = "Snapshot"         -> ApplySnapshot(v, m)
      [] m.kind = "StateChanged"     -> ApplyStateChanged(v, m)
      [] m.kind = "ConflictRecorded" -> ApplyConflictRecorded(v, m)
      [] OTHER                       -> [v EXCEPT !.on = TRUE]

\* GuiApp::handle_event: a StateChanged before the first snapshot is dropped,
\* and conflicts are listed by path
GuiShown(v, m) ==
    CASE m.kind = "Snapshot"              -> ApplySnapshot(v, m)
      [] m.kind = "StateChanged" /\ v.set -> ApplyStateChanged(v, m)
      [] m.kind = "ConflictRecorded"      -> [v EXCEPT !.paths = @ \union {m.path}, !.on = TRUE]
      [] OTHER                            -> [v EXCEPT !.on = TRUE]

\* the arms of api_events: the browser is sent what the stream gives
WebShown(v, m) ==
    CASE m.kind = "Snapshot"         -> ApplySnapshot(v, m)
      [] m.kind = "StateChanged"     -> ApplyStateChanged(v, m)
      [] m.kind = "ConflictRecorded" -> [v EXCEPT !.paths = @ \union {m.path}]
      [] OTHER                       -> v

(***************************************************************************)
(* AutoBackend.                                                            *)
(***************************************************************************)
Idle(c) == call[c].pc = "idle"

Asks(c, cmd, next) ==
    /\ call' = Begin(c, cmd)
    /\ prog' = [prog EXCEPT ![c] = next]

\* the call is over and its task goes on without another
Returns(c, next) ==
    /\ call' = [call EXCEPT ![c] = NoCall]
    /\ prog' = [prog EXCEPT ![c] = next]

\* FolderBackend answers from the folder's files, in the front end's process; it
\* does not release a pin while paths are held
FolderPin(cmd, held) ==
    IF cmd = "ReleasePin" /\ held THEN [ok |-> FALSE, pin |-> daemon.pin] ELSE PinCommand(cmd)

FolderAnswer(c, done) ==
    IF call[c].cmd = "GetStatus" THEN Snapshot(Id(c))
    ELSE IF done.ok THEN Ack(Id(c)) ELSE Refused(Id(c))

\* the stream of FsStateSource: open, with a sender that sends nothing
MuteStream == [st |-> "mute", inbox |-> << >>, lagged |-> FALSE]

\* transport_fallback: also for a command the daemon may have performed before
\* the connection broke
FsFallback(c) ==
    \E held \in BOOLEAN :
        LET done == FolderPin(call[c].cmd, held) IN
        /\ kind = "web"
        /\ call[c].pc = "done" /\ call[c].res = Unreachable
        /\ daemon' = [daemon EXCEPT !.pin = done.pin]
        /\ call' = [call EXCEPT ![c].res = FolderAnswer(c, done)]
        /\ stream' = IF call[c].cmd = "Subscribe" THEN MuteStream ELSE stream
        /\ told' = (told /\ call[c].cmd # "Subscribe")
        /\ UNCHANGED <<conn, client, kind, prog, view, asked>>

Got(c) == call[c].pc = "done" /\ ~(kind = "web" /\ call[c].res = Unreachable)

\* get_status: without a fallback an unreachable daemon is an offline folder,
\* an empty snapshot that only the terminal tells from another
Online(c) == call[c].res.kind = "Snapshot"
OfflineSnapshot == [man |-> 0, pin |-> FALSE, conf |-> 0]

\* the other calls: scanning and listing succeed without a daemon, pins do not
Succeeded(c) == \/ Expected(call[c].cmd, call[c].res)
                \/ /\ call[c].res = Unreachable
                   /\ call[c].cmd \in {"TriggerScan", "ListConflicts"}

\* subscribe_events: without a daemon it gives a stream that is already closed
DeadStream == [st |-> "dead", inbox |-> << >>, lagged |-> FALSE]
NoStream == [st |-> "none", inbox |-> << >>, lagged |-> FALSE]
SubscribedTo(c) == IF call[c].res = Unreachable THEN DeadStream ELSE stream

(***************************************************************************)
(* The terminal UI: TuiApp::run.                                           *)
(***************************************************************************)
\* the first status; only an online daemon is subscribed to
TuiBooted ==
    /\ prog["main"] = "booting" /\ Got("main")
    /\ IF Online("main")
       THEN /\ view' = ApplySnapshot(view, call["main"].res)
            /\ Asks("main", "Subscribe", "subscribing")
       ELSE /\ view' = [view EXCEPT !.on = FALSE]
            /\ Returns("main", "loop")
    /\ UNCHANGED <<daemon, conn, client, stream, told, kind, asked>>

TuiSubscribed ==
    /\ prog["main"] = "subscribing" /\ Got("main")
    /\ stream' = SubscribedTo("main")
    /\ Returns("main", "loop")
    /\ UNCHANGED <<daemon, conn, client, told, kind, view, asked>>

\* one event; an overrun of the stream only costs the events it dropped
TuiEvent ==
    /\ kind = "tui" /\ prog["main"] = "loop"
    /\ \/ /\ stream.st = "live" /\ stream.lagged
          /\ stream' = [stream EXCEPT !.lagged = FALSE]
          /\ UNCHANGED <<view, told>>
       \/ /\ stream.st = "live" /\ ~stream.lagged /\ stream.inbox # << >>
          /\ view' = TuiShown(view, Head(stream.inbox))
          /\ stream' = [stream EXCEPT !.inbox = Tail(@)]
          /\ UNCHANGED told
       \/ /\ stream.st = "dead"
          /\ view' = [view EXCEPT !.on = FALSE]
          /\ stream' = NoStream
          /\ told' = FALSE
    /\ UNCHANGED <<daemon, conn, client, call, kind, prog, asked>>

\* the back-off timer has run out: subscribe, then ask whether it is online
TuiRetry ==
    /\ prog["main"] = "loop" /\ stream.st = "none" /\ kind = "tui"
    /\ Asks("main", "Subscribe", "resubscribing")
    /\ UNCHANGED <<daemon, conn, client, stream, told, kind, view, asked>>

TuiResubscribed ==
    /\ prog["main"] = "resubscribing" /\ Got("main")
    /\ stream' = SubscribedTo("main")
    /\ Asks("main", "GetStatus", "checking")
    /\ UNCHANGED <<daemon, conn, client, told, kind, view, asked>>

BadTuiChecked ==
    /\ prog["main"] = "checking" /\ Got("main") /\ Returns("main", "loop")
    /\ view' = IF Online("main") THEN ApplySnapshot(view, call["main"].res) ELSE view
    /\ UNCHANGED <<daemon, conn, client, kind, asked, stream, told>>

TuiChecked ==
    /\ prog["main"] = "checking" /\ Got("main") /\ Returns("main", "loop")
    /\ IF Online("main")
       THEN /\ view' = ApplySnapshot(view, call["main"].res)
            /\ UNCHANGED <<stream, told>>
       ELSE /\ stream' = NoStream
            /\ told' = FALSE
            /\ UNCHANGED view
    /\ UNCHANGED <<daemon, conn, client, kind, asked>>

\* the user's commands count against the bound on disturbances
MayAsk == asked < MaxCalls /\ daemon.left > 0

\* the p key asks for the opposite of the pin that is shown
UserCommand(cmd) ==
    \/ cmd \in {"TriggerScan", "ListConflicts"}
    \/ cmd = (IF view.pin THEN "ReleasePin" ELSE "StartPin")

\* handle_key_action
TuiKey(cmd) ==
    /\ kind = "tui" /\ prog["main"] = "loop" /\ MayAsk /\ UserCommand(cmd)
    /\ Asks("main", cmd, "key")
    /\ asked' = asked + 1
    /\ daemon' = [daemon EXCEPT !.left = @ - 1]
    /\ UNCHANGED <<conn, client, stream, told, kind, view>>

TuiKeyDone ==
    /\ prog["main"] = "key" /\ Got("main") /\ Returns("main", "loop")
    /\ view' = IF Succeeded("main") /\ (\/ call["main"].cmd # "ListConflicts"
                                       \/ call["main"].res.kind = "Ack")
               THEN ApplyAck(view, call["main"].cmd, call["main"].res) ELSE view
    /\ UNCHANGED <<daemon, conn, client, stream, told, kind, asked>>

(***************************************************************************)
(* Tasks of the desktop UI and of the dashboard.                           *)
(***************************************************************************)
\* after the status GuiApp::new's first task lists the conflicts and api_events
\* subscribes
Fetched(c) ==
    /\ prog[c] = "fetching" /\ Got(c)
    /\ view' = CASE Online(c)                  -> ApplySnapshot(view, call[c].res)
                 [] call[c].res = Unreachable  -> ApplySnapshot(view, OfflineSnapshot)
                 [] OTHER                      -> view
    /\ CASE c = "init" -> Asks(c, "ListConflicts", "listing")
         [] c = "sse"  -> Asks(c, "Subscribe", "subscribing")
         [] OTHER      -> Returns(c, "loop")
    /\ UNCHANGED <<daemon, conn, client, stream, told, kind, asked>>

FetchedConflicts ==
    /\ prog["init"] = "listing" /\ Got("init")
    /\ view' = IF call["init"].res.kind = "Ack"
               THEN [view EXCEPT !.paths = @ \union 1..call["init"].res.conf] ELSE view
    /\ Returns("init", "ended")
    /\ UNCHANGED <<daemon, conn, client, stream, told, kind, asked>>

\* the second task of GuiApp::new, and api_events after the status
SubscribedEvents(c) ==
    /\ kind # "tui" /\ prog[c] = "subscribing" /\ Got(c)
    /\ stream' = SubscribedTo(c)
    /\ Returns(c, "forward")
    /\ UNCHANGED <<daemon, conn, client, told, kind, view, asked>>

\* while let Ok(event): an overrun ends the stream as its closing does
ForwardEvent(c) ==
    /\ prog[c] = "forward"
    /\ \/ /\ stream.st = "dead" \/ stream.lagged
          /\ stream' = NoStream
          /\ prog' = [prog EXCEPT ![c] = "ended"]
          /\ told' = FALSE
          /\ UNCHANGED view
       \/ /\ stream.st = "live" /\ ~stream.lagged /\ stream.inbox # << >>
          /\ view' = (IF kind = "gui" THEN GuiShown(view, Head(stream.inbox))
                                    ELSE WebShown(view, Head(stream.inbox)))
          /\ stream' = [stream EXCEPT !.inbox = Tail(@)]
          /\ UNCHANGED <<prog, told>>
    /\ UNCHANGED <<daemon, conn, client, call, kind, asked>>

\* the browser opens the event stream again, when it has ended or, reloaded by its
\* user, while nothing comes
BrowserReconnects ==
    /\ kind = "web"
    /\ prog["sse"] = "ended" \/ (prog["sse"] = "forward" /\ stream.st = "mute")
    /\ Asks("sse", "GetStatus", "fetching")
    /\ stream' = NoStream
    /\ told' = FALSE
    /\ UNCHANGED <<daemon, conn, client, kind, view, asked>>

\* the third task of GuiApp::new, and the dashboard's request handlers
UserAction(c, cmd) ==
    /\ c \in {"act", "http"} /\ prog[c] = "loop" /\ MayAsk /\ UserCommand(cmd)
    /\ Asks(c, cmd, "acting")
    /\ asked' = asked + 1
    /\ daemon' = [daemon EXCEPT !.left = @ - 1]
    /\ UNCHANGED <<conn, client, stream, told, kind, view>>

\* the desktop UI fetches the status after a pin it has changed
ActionDone(c) ==
    /\ prog[c] = "acting" /\ Got(c)
    /\ view' = IF kind = "gui" /\ call[c].cmd = "ListConflicts" /\ call[c].res.kind = "Ack"
               THEN [view EXCEPT !.paths = @ \union 1..call[c].res.conf] ELSE view
    /\ IF kind = "gui" /\ Succeeded(c) /\ call[c].cmd \in {"StartPin", "ReleasePin"}
       THEN Asks(c, "GetStatus", "fetching") ELSE Returns(c, "loop")
    /\ UNCHANGED <<daemon, conn, client, stream, told, kind, asked>>

Tui == \/ TuiBooted \/ TuiSubscribed \/ TuiEvent
       \/ TuiRetry \/ TuiResubscribed \/ TuiChecked \/ TuiKeyDone

FrontEnd(c) == \/ FsFallback(c) \/ Fetched(c) \/ SubscribedEvents(c)
               \/ ForwardEvent(c) \/ ActionDone(c)

User == \E cmd \in UserCommands : TuiKey(cmd) \/ \E c \in Tasks : UserAction(c, cmd)

Own == <<kind, prog, view, asked>>

Next ==
    \/ ClientStep /\ UNCHANGED Own
    \/ ServerStep /\ UNCHANGED Own
    \/ Disturbance /\ UNCHANGED Own
    \/ Tui
    \/ \E c \in Tasks : FrontEnd(c)
    \/ FetchedConflicts
    \/ BrowserReconnects
    \/ User

Spec == Init /\ [][Next]_vars

-----------------------------------------------------------------------------
Results == {"none", "unreachable", "ok", "Snapshot", "Ack", "Error", "StateChanged",
            "ConflictRecorded"}

\* Type invariant.
TypeOK ==
    /\ daemon.man \in Nat /\ daemon.conf \in Nat /\ daemon.left \in Nat
    /\ {daemon.up, daemon.pin, told} \subseteq BOOLEAN
    /\ client.slot \in {0} \union Conns
    /\ client.sup \in {"unborn", "subscribe", "changed", "connect"}
    /\ \A k \in Conns :
          /\ conn[k].srv \in {"none", "greeted", "served", "gone"}
          /\ conn[k].rd \in {"none", "run", "closing", "ended"}
          /\ Len(conn[k].feed) <= FeedCap
    /\ \A c \in Tasks :
          /\ call[c].pc \in {"idle", "connect", "cmd", "wait", "lost", "done"}
          /\ call[c].res.kind \in Results
    /\ stream.st \in {"none", "live", "mute", "dead"} /\ Len(stream.inbox) <= EventCap

\* route_message: on a connection whose calls never overlapped, a call that is
\* answered gets the answer to its own command, an error the server raised for
\* an earlier one, or, for a status, a snapshot the daemon pushed: never the
\* result of another command.
RightReply ==
    \A c \in Tasks :
        call[c].pc = "done" /\ call[c].k # 0 /\ call[c].res.kind \in {"Snapshot", "Ack", "Error"}
        /\ ~conn[call[c].k].mixed
        => IF call[c].cmd = "GetStatus" THEN call[c].res.kind # "Ack"
                                        ELSE call[c].res.of = Id(c) \/ call[c].res.kind = "Error"

\* all that was sent has been handled
Quiet ==
    /\ daemon.man = daemon.seenMan
    /\ stream.inbox = << >> /\ ~stream.lagged
    /\ \A c \in Tasks : Idle(c)
    /\ \A k \in Conns : conn[k].back = << >> /\ conn[k].feed = << >> /\ ~conn[k].lagged

\* run_state_watcher to the screen: when the newest change was broadcast to a
\* front end that had subscribed to the daemon's events, and all that was sent has been handled, the
\* terminal and the dashboard show that change, whatever snapshots, answers and
\* pushes crossed it.  An overrun of a channel voids the promise: the snapshot
\* that makes up for it may answer a call, ahead of older events.  A dashboard
\* that subscribed while the daemon was away has the folder's own stream, on
\* which nothing comes, and is promised nothing until it is opened again.
BroadcastShown == told /\ Quiet /\ kind # "gui" => view.man = daemon.man

\* DaemonClient::call has no timeout: a call that waits always has its command
\* or an answer for it under way, or the end of the connection ahead of it,
\* unless calls overlapped on its connection or a command on it was torn just
\* before the end of its line, which the server passes over in silence.
NobodyForgotten ==
    \A c \in Tasks :
        LET k == call[c].k IN
        call[c].pc = "wait" /\ ~conn[k].mixed /\ ~conn[k].skipped
        => \/ conn[k].srv = "gone" \/ conn[k].rd # "run"
           \/ Id(c) \in Range(conn[k].wire)
           \/ /\ Id(c) \in Range(conn[k].queue) \union Range(conn[k].chan)
              /\ \E i \in DOMAIN conn[k].back : ~ForSubscribers(conn[k].back[i], <<Id(c)>>)

\* TuiApp::run: whenever the terminal shows the daemon as away and waits for an
\* event, it has no open stream, so that its back-off timer will try again.
OfflineRetries ==
    kind = "tui" /\ prog["main"] = "loop" /\ ~view.on => stream.st # "live"
=============================================================================

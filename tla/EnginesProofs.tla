--------------------------- MODULE EnginesProofs ---------------------------
(***************************************************************************)
(* Theorems about the threads of the folder engines, for any devices,      *)
(* folders, configurations, numbers of connections and permits.            *)
(***************************************************************************)
EXTENDS Engines, FiniteSetTheorems, TLAPS

-----------------------------------------------------------------------------
(* The inductive invariant. *)

Site == Device \X Folder

EngType ==
  [st : {"up", "failed", "removed"}, flag : BOOLEAN, policy : SUBSET Device,
   lock : Conn \union {None, SyncLoopHolds}, permits : Nat, live : Nat,
   acc : {"accept", "spawn", "ended"}, sync : {"wait", "dial", "session", "ended"},
   todo : SUBSET Device, scan : BOOLEAN]

Frame == {"hello", "ack", "init", "confirm", "offer", "echo", "bye"}
Frames == Seq(Frame)

InSession == {"hello", "auth", "offers", "serving", "bye"}

ConnType ==
  [i : InSession \union {"over"}, r : InSession \union {"over", "backlog", "accepted", "queued"},
   from : Site \union {None}, at : SUBSET Site,
   in : [{"I", "R"} -> Frames], up : BOOLEAN, known : BOOLEAN]

SupType ==
  [pc : {"idle", "close", "joins", "loops", "wait"}, e : Site \union {None}, restart : BOOLEAN]

Shape ==
  /\ case \in Cases /\ DOMAIN head = DOMAIN case.head
  /\ head \in [Engine -> SUBSET Device]
  /\ eng \in [Engine -> EngType]
  /\ conn \in [Conn -> ConnType]
  /\ sup \in [Device -> SupType]

\* The cached policy was read from CONFIG_HEAD, which only grows.
Policies == \A e \in Engine : eng[e].policy \subseteq head[e]

\* One engine has the connection, out of those that could have accepted it.
Joined(x, h) == \E e \in DOMAIN h : x.at = {e}
Resp(x) == CHOOSE e \in x.at : TRUE

\* What each end of a connection has found out about the other, h being the
\* CONFIG_HEADs.
Vetted(x, h) ==
  /\ x.at \subseteq DOMAIN h
  /\ x.i # "over" \/ x.r # "over" => x.from \in DOMAIN h
  /\ x.r \notin {"over", "backlog"} => Joined(x, h)
  /\ x.in["I"] # <<>> => Joined(x, h) /\ x.r # "backlog"
  /\ x.i \in {"auth", "offers", "serving", "bye"} => Joined(x, h) /\ x.r # "backlog"
  /\ x.i \in {"offers", "serving", "bye"} => Dev(Resp(x)) \in h[x.from]
  /\ x.r \in {"offers", "serving", "bye"} => Dev(x.from) \in h[Resp(x)]
  /\ x.known => Joined(x, h) /\ x.r \in {"bye", "over"} /\ Fold(x.from) = Fold(Resp(x))

AllVetted == \A c \in Conn : Vetted(conn[c], head)

\* A sync loop is in the session of at most one connection, its own.
Dials ==
  /\ \A c \in Conn : conn[c].i # "over" => eng[Initiator(c)].sync = "session"
  /\ \A b, c \in Conn : b # c /\ conn[b].i # "over" /\ conn[c].i # "over" =>
       Initiator(b) # Initiator(c)

\* The supervisor shuts down an engine of its own device, and has seen both of
\* its loops end before it waits for the last sessions.
Supervised ==
  \A d \in Device : sup[d].pc # "idle" =>
    /\ sup[d].e \in Engine /\ Dev(sup[d].e) = d
    /\ sup[d].pc = "wait" => eng[sup[d].e].acc = "ended" /\ eng[sup[d].e].sync = "ended"

\* An engine whose shutdown has returned.
Ended == \A e \in Engine : eng[e].st \in {"removed", "failed"} =>
           eng[e].acc = "ended" /\ eng[e].sync = "ended" /\ eng[e].live = 0

Inv == Shape /\ Policies /\ AllVetted /\ Dials /\ Supervised /\ Ended /\ PermitsBalance

-----------------------------------------------------------------------------
(* The record of a connection. *)

\* Sending and reading leave the two ends where they are.
SameEnds(x, y) == x.i = y.i /\ x.r = y.r /\ x.from = y.from /\ x.at = y.at /\ x.known = y.known

\* The frames go to the other end.
LEMMA SentFacts ==
  ASSUME NEW x \in ConnType, NEW end \in {"I", "R"}, NEW fs \in Frames
  PROVE  /\ Sent(x, end, fs) \in ConnType /\ SameEnds(Sent(x, end, fs), x)
         /\ Sent(x, end, fs).in[end] = x.in[end]
<1>1. Peer(end) \in {"I", "R"} /\ Peer(end) # end
  BY DEF Peer
<1> DEFINE p == Peer(end)
<1>2. x.in \in [{"I", "R"} -> Frames] /\ x.in[p] \in Frames
  BY <1>1 DEF ConnType, Frames
<1>3. x.in[p] \o fs \in Frames
  BY <1>2 DEF Frames
<1> DEFINE n == [x.in EXCEPT ![p] = x.in[p] \o fs]
<1>4. n \in [{"I", "R"} -> Frames] /\ n[end] = x.in[end]
  BY <1>1, <1>2, <1>3
<1>5. Sent(x, end, fs) = IF x.up THEN [x EXCEPT !.in = n] ELSE x
  BY DEF Sent, ConnType
<1> HIDE DEF n, p
<1> QED
  BY <1>4, <1>5 DEF ConnType, SameEnds, Frames

\* The frame that is read is taken off its queue.
LEMMA TookFacts ==
  ASSUME NEW c \in Conn, NEW end \in {"I", "R"}, conn[c] \in ConnType, conn[c].in[end] # <<>>
  PROVE  /\ Took(c, end) \in ConnType /\ SameEnds(Took(c, end), conn[c])
         /\ \A f \in {"I", "R"} : f # end => Took(c, end).in[f] = conn[c].in[f]
<1> DEFINE x == conn[c]
<1>1. x.in \in [{"I", "R"} -> Frames] /\ x.in[end] \in Frames
  BY DEF ConnType, Frames
<1>2. Tail(x.in[end]) \in Frames
  <2>1. ASSUME NEW q \in Frames, q # <<>> PROVE Tail(q) \in Frames
    BY <2>1 DEF Frames
  <2> QED BY <1>1, <2>1
<1> DEFINE n == [x.in EXCEPT ![end] = Tail(x.in[end])]
<1>3. n \in [{"I", "R"} -> Frames] /\ \A f \in {"I", "R"} : f # end => n[f] = x.in[f]
  BY <1>1, <1>2
<1>4. Took(c, end) = [x EXCEPT !.in = n]
  BY Zenon DEF Took
<1> HIDE DEF n
<1> QED
  BY <1>3, <1>4 DEF ConnType, SameEnds, Frames

\* A connection nobody uses.
LEMMA FreeFacts ==
  /\ FreeConn \in ConnType /\ FreeConn.i = "over" /\ FreeConn.r = "over"
  /\ FreeConn.at = {} /\ ~FreeConn.known /\ FreeConn.in["I"] = <<>>
<1> DEFINE q == [I |-> <<>>, R |-> <<>>]
<1>2. <<>> \in Frames
  BY DEF Frames
<1>3. DOMAIN q = {"I", "R"} /\ q = [k \in {"I", "R"} |-> q[k]]
  OBVIOUS
<1>4. q["I"] = <<>> /\ q["R"] = <<>>
  OBVIOUS
<1>1. q \in [{"I", "R"} -> Frames]
  <2> HIDE DEF q
  <2> QED BY <1>2, <1>3, <1>4
<1> QED
  BY <1>1 DEF FreeConn, ConnType, InSession

\* The record once one end is over.
LEMMA SettledFacts ==
  ASSUME NEW x \in ConnType, NEW h
  PROVE  /\ Settled(x) \in ConnType
         /\ Settled(x).i = x.i /\ Settled(x).r = x.r
         /\ x.i # "over" => Settled(x) = x
         /\ x.r # "over" => Settled(x) = x
         /\ Vetted(x, h) => Vetted(Settled(x), h)
<1>1. Vetted(FreeConn, h)
  BY FreeFacts DEF Vetted
<1> QED
  BY <1>1, FreeFacts DEF Settled

\* A thread of engine e runs the session of the connection.
HasThread(x, e) == x.at = {e} /\ x.r \notin {"backlog", "accepted", "over"}

\* The only engine that can run it is the responder.
LEMMA OneResponder ==
  ASSUME NEW x, NEW h, Joined(x, h)
  PROVE  Resp(x) \in DOMAIN h /\ x.at = {Resp(x)}
BY DEF Joined, Resp

\* The threads of an engine, by their connections.
LEMMA ThreadsAre == \A e : Threads(e) = {c \in Conn : HasThread(conn[c], e)}
BY DEF Threads, HasThread

\* Threads after a step, read from the connections after it: the set is a
\* filter of Conn and no other variable counts.
LEMMA ThreadsAreNext == \A e : Threads(e)' = {c \in Conn : HasThread(conn'[c], e)}
BY DEF Threads, HasThread

\* CONFIG_HEADs that only grow keep what the ends know.
LEMMA VettedGrows ==
  ASSUME NEW x, NEW h, NEW g, Vetted(x, h), DOMAIN g = DOMAIN h,
         \A e \in DOMAIN h : h[e] \subseteq g[e]
  PROVE  Vetted(x, g)
<1>1. Joined(x, g) <=> Joined(x, h)
  BY DEF Joined
<1>2. x.i \in {"offers", "serving", "bye"} => x.from \in DOMAIN h
  BY DEF Vetted
<1>3. x.r \in {"offers", "serving", "bye"} => Resp(x) \in DOMAIN h
  BY OneResponder DEF Vetted
<1> QED
  BY <1>1, <1>2, <1>3 DEF Vetted

-----------------------------------------------------------------------------
(* What a step may change without disturbing the invariant. *)

\* What is known of the ends and of the loops.
LoopsInv == Policies /\ AllVetted /\ Dials /\ Supervised

\* The counts of the session threads.
CountsInv == Ended /\ PermitsBalance

\* The ends move on, and a loop that has ended stays so.
LEMMA LoopsKept ==
  ASSUME LoopsInv, head' = head, sup' = sup,
         \A e \in Engine : eng'[e].policy = eng[e].policy,
         \A e \in Engine : eng[e].acc = "ended" => eng'[e].acc = "ended",
         \A e \in Engine : eng[e].sync = "ended" => eng'[e].sync = "ended",
         \A c \in Conn : Vetted(conn'[c], head),
         \A c \in Conn : conn'[c].i # "over" =>
            conn[c].i # "over" /\ conn'[c].from = conn[c].from
              /\ eng'[conn[c].from].sync = eng[conn[c].from].sync
  PROVE  LoopsInv'
<1>1. Policies'
  BY DEF LoopsInv, Policies, Engine
<1>2. AllVetted'
  BY DEF AllVetted
<1>3. Dials'
  BY DEF LoopsInv, Dials, Initiator
<1>4. Supervised'
  BY DEF LoopsInv, Supervised, Engine
<1> QED
  BY <1>1, <1>2, <1>3, <1>4 DEF LoopsInv

\* No thread starts or ends.
LEMMA CountsKept ==
  ASSUME CountsInv, head' = head,
         \A e \in Engine : eng'[e].st = eng[e].st /\ eng'[e].live = eng[e].live
                             /\ eng'[e].permits = eng[e].permits,
         \A e \in Engine : eng[e].acc = "ended" => eng'[e].acc = "ended",
         \A e \in Engine : eng[e].sync = "ended" => eng'[e].sync = "ended",
         \A c \in Conn : \A e \in Engine : HasThread(conn'[c], e) <=> HasThread(conn[c], e)
  PROVE  CountsInv'
<1>1. Ended'
  BY DEF CountsInv, Ended, Engine
<1>2. \A e \in Engine : Threads(e)' = Threads(e)
  BY ThreadsAre, ThreadsAreNext
<1>3. PermitsBalance'
  BY <1>2 DEF CountsInv, PermitsBalance, Engine
<1> QED
  BY <1>1, <1>3 DEF CountsInv

\* The parts together.
LEMMA InvParts == Inv <=> Shape /\ LoopsInv /\ CountsInv
BY DEF Inv, LoopsInv, CountsInv

\* The same split of the invariant in the next state.
LEMMA InvPartsNext == Inv' <=> Shape' /\ LoopsInv' /\ CountsInv'
BY DEF Inv, LoopsInv, CountsInv

-----------------------------------------------------------------------------
(* One end of a session. *)

\* An end moves on while the engines stay as they are.
LEMMA EndMoves ==
  ASSUME Inv, NEW c \in Conn, NEW y \in ConnType, conn' = [conn EXCEPT ![c] = y],
         UNCHANGED <<case, head, eng, sup>>, Vetted(y, head),
         y.i # "over" => conn[c].i # "over" /\ y.from = conn[c].from,
         \A e \in Engine : HasThread(y, e) <=> HasThread(conn[c], e)
  PROVE  Inv'
<1>0. Shape /\ LoopsInv /\ CountsInv
  BY InvParts
<1>1. conn'[c] = y /\ \A b \in Conn : b # c => conn'[b] = conn[b]
  BY <1>0 DEF Shape
<1>2. Shape'
  BY <1>0 DEF Shape, Engine
<1>3. LoopsInv'
  <2>1. \A b \in Conn : Vetted(conn'[b], head)
    BY <1>0, <1>1 DEF LoopsInv, AllVetted
  <2>2. \A b \in Conn : conn'[b].i # "over" => conn[b].i # "over" /\ conn'[b].from = conn[b].from
    BY <1>1
  <2> QED
    BY <1>0, <2>1, <2>2, LoopsKept
<1>4. CountsInv'
  BY <1>0, <1>1, CountsKept
<1> QED
  BY <1>2, <1>3, <1>4, InvPartsNext

\* The dialer's end is over; its sync loop goes on.
LEMMA OverIKeeps ==
  ASSUME Inv, NEW c \in Conn, NEW rec \in ConnType, NEW ok \in BOOLEAN, OverI(c, rec, ok),
         UNCHANGED <<case, head, sup>>, conn[c].i # "over",
         SameEnds(rec, conn[c]), Vetted(rec, head)
  PROVE  Inv'
<1>0. Shape /\ LoopsInv /\ CountsInv
  BY InvParts
<1> DEFINE o == [rec EXCEPT !.i = "over", !.up = FALSE]
           a == conn[c].from
           todo == IF ok THEN {} ELSE eng[a].todo
           n == [eng[a] EXCEPT !.sync = "dial", !.todo = todo]
<1>1. o \in ConnType /\ Vetted(o, head) /\ \A e : HasThread(o, e) <=> HasThread(conn[c], e)
  <2>1. o \in ConnType /\ o.i = "over" /\ o.r = rec.r /\ o.at = rec.at /\ o.from = rec.from
          /\ o.in = rec.in /\ o.known = rec.known
    BY DEF ConnType
  <2>2. Resp(o) = Resp(rec) /\ (Joined(o, head) <=> Joined(rec, head))
    BY <2>1 DEF Resp, Joined
  <2> HIDE DEF o
  <2>3. Vetted(o, head)
    BY <2>1, <2>2 DEF Vetted
  <2>4. \A e : HasThread(o, e) <=> HasThread(conn[c], e)
    BY <2>1 DEF HasThread, SameEnds
  <2> QED BY <2>1, <2>3, <2>4
<1>2. o.i = "over"
  BY DEF ConnType
<1> DEFINE y == Settled(o)
<1> HIDE DEF o
<1>3. y \in ConnType /\ y.i = "over" /\ Vetted(y, head)
        /\ \A e : HasThread(y, e) <=> HasThread(conn[c], e)
  BY <1>1, <1>2, SettledFacts DEF HasThread
<1>4. conn' = [conn EXCEPT ![c] = y] /\ a \in Engine /\ eng[a].sync = "session" /\ a = Initiator(c)
  BY <1>0 DEF OverI, LoopsInv, AllVetted, Vetted, Dials, Initiator, Engine, o
<1> HIDE DEF y
<1>5. eng[a] \in EngType
  BY <1>0, <1>4 DEF Shape
<1>6. n \in EngType /\ n.policy = eng[a].policy /\ n.acc = eng[a].acc /\ n.sync = "dial"
        /\ n.st = eng[a].st /\ n.live = eng[a].live /\ n.permits = eng[a].permits
  <2>1. todo \in SUBSET Device
    BY <1>5 DEF EngType
  <2> HIDE DEF todo
  <2> QED BY <1>5, <2>1 DEF EngType
<1>7. eng' = [eng EXCEPT ![a] = n]
  BY <1>0, <1>4, <1>5 DEF OverI, Shape
<1> HIDE DEF n, a
<1>8. /\ conn'[c] = y /\ \A b \in Conn : b # c => conn'[b] = conn[b]
      /\ eng'[a] = n /\ \A e \in Engine : e # a => eng'[e] = eng[e]
  BY <1>0, <1>4, <1>7 DEF Shape
<1>9. Shape'
  BY <1>0, <1>3, <1>4, <1>6, <1>7 DEF Shape, Engine
<1>10. LoopsInv'
  <2>1. \A b \in Conn : Vetted(conn'[b], head)
    BY <1>0, <1>3, <1>8 DEF LoopsInv, AllVetted
  <2>2. ASSUME NEW b \in Conn, conn'[b].i # "over"
        PROVE  conn[b].i # "over" /\ conn'[b].from = conn[b].from
                 /\ eng'[conn[b].from].sync = eng[conn[b].from].sync
    <3>1. b # c /\ conn'[b] = conn[b]
      BY <1>3, <1>8, <2>2
    <3>2. conn[b].from # a /\ conn[b].from \in Engine
      BY <1>0, <3>1, <2>2 DEF LoopsInv, Dials, Initiator, AllVetted, Vetted, Engine, a
    <3> QED BY <3>1, <3>2, <2>2, <1>8
  <2>3. \A e \in Engine : /\ eng'[e].policy = eng[e].policy
                          /\ eng[e].acc = "ended" => eng'[e].acc = "ended"
                          /\ eng[e].sync = "ended" => eng'[e].sync = "ended"
    BY <1>4, <1>6, <1>8
  <2> QED
    BY <1>0, <2>1, <2>2, <2>3, LoopsKept
<1>11. CountsInv'
  <2>1. \A e \in Engine : /\ eng'[e].st = eng[e].st /\ eng'[e].live = eng[e].live
                             /\ eng'[e].permits = eng[e].permits
                          /\ eng[e].acc = "ended" => eng'[e].acc = "ended"
                          /\ eng[e].sync = "ended" => eng'[e].sync = "ended"
    BY <1>4, <1>6, <1>8
  <2> QED BY <1>0, <1>3, <1>8, <2>1, CountsKept
<1> QED
  BY <1>9, <1>10, <1>11, InvPartsNext

\* The threads of an engine are finitely many.
LEMMA ThreadsFinite ==
  ASSUME NEW e
  PROVE  IsFiniteSet(Threads(e)) /\ Cardinality(Threads(e)) \in Nat
<1>1. Threads(e) \subseteq Conn /\ IsFiniteSet(Conn)
  BY EnginesAssumption DEF Threads
<1> QED
  BY <1>1, FS_Subset, FS_CardinalityType

\* The responder's end is over: its thread gives the permit back.
LEMMA OverRKeeps ==
  ASSUME Inv, NEW c \in Conn, NEW rec \in ConnType, OverR(c, rec),
         UNCHANGED <<case, head, sup>>, conn[c].r \in InSession \union {"queued"},
         SameEnds(rec, conn[c]), Vetted(rec, head)
  PROVE  Inv'
<1>0. Shape /\ LoopsInv /\ CountsInv
  BY InvParts
<1>5. Joined(conn[c], head)
  BY <1>0 DEF LoopsInv, AllVetted, Vetted, InSession
<1>6. PICK a \in Engine : a = Resp(conn[c]) /\ conn[c].at = {a}
  BY <1>5, OneResponder DEF Engine
<1> DEFINE o == [rec EXCEPT !.r = "over", !.up = FALSE]
           lock == IF eng[a].lock = c THEN None ELSE eng[a].lock
           n == [eng[a] EXCEPT !.lock = lock, !.permits = eng[a].permits + 1,
                               !.live = eng[a].live - 1]
<1>1. o \in ConnType /\ Vetted(o, head) /\ o.i = conn[c].i /\ o.from = conn[c].from
  <2>1. o \in ConnType /\ o.r = "over" /\ o.i = rec.i /\ o.at = rec.at /\ o.from = rec.from
          /\ o.in = rec.in /\ o.known = rec.known
    BY DEF ConnType
  <2>2. Resp(o) = Resp(rec) /\ (Joined(o, head) <=> Joined(rec, head))
    BY <2>1 DEF Resp, Joined
  <2> HIDE DEF o
  <2>3. Vetted(o, head)
    BY <2>1, <2>2 DEF Vetted
  <2> QED BY <2>1, <2>3 DEF SameEnds
<1>2. o.r = "over"
  BY DEF ConnType
<1> DEFINE y == Settled(o)
<1> HIDE DEF o
<1>3. y \in ConnType /\ y.r = "over" /\ Vetted(y, head)
        /\ (y.i # "over" => conn[c].i # "over" /\ y.from = conn[c].from)
  BY <1>1, <1>2, SettledFacts
<1>4. conn' = [conn EXCEPT ![c] = y] /\ a = Responder(c)
  BY <1>6 DEF OverR, Responder, Resp, o
<1> HIDE DEF y
<1>7. eng[a] \in EngType
  BY <1>0, <1>6 DEF Shape
<1>8. c \in Threads(a) /\ eng[a].live = Cardinality(Threads(a)) /\ eng[a].live \in Nat \ {0}
  <2>1. c \in Threads(a)
    BY <1>6 DEF Threads, InSession
  <2>2. eng[a].live = Cardinality(Threads(a))
    BY <1>0, <1>6 DEF CountsInv, PermitsBalance
  <2>3. Cardinality(Threads(a)) # 0
    BY <2>1, ThreadsFinite, FS_EmptySet
  <2> QED BY <2>1, <2>2, <2>3, ThreadsFinite
<1>9. n \in EngType /\ n.policy = eng[a].policy /\ n.acc = eng[a].acc /\ n.sync = eng[a].sync
        /\ n.st = eng[a].st /\ n.live = eng[a].live - 1 /\ n.permits = eng[a].permits + 1
  <2>1. lock \in Conn \union {None, SyncLoopHolds}
    BY <1>7 DEF EngType
  <2>2. eng[a].live - 1 \in Nat /\ eng[a].permits + 1 \in Nat
    BY <1>7, <1>8 DEF EngType
  <2> HIDE DEF lock
  <2> QED BY <1>7, <2>1, <2>2 DEF EngType
<1>10. eng' = [eng EXCEPT ![a] = n]
  BY <1>0, <1>4, <1>6, <1>7 DEF OverR, Shape, thread_exit
<1> HIDE DEF n
<1>11. /\ conn'[c] = y /\ \A b \in Conn : b # c => conn'[b] = conn[b]
       /\ eng'[a] = n /\ \A e \in Engine : e # a => eng'[e] = eng[e]
  BY <1>0, <1>4, <1>6, <1>10 DEF Shape
<1>12. Shape'
  BY <1>0, <1>3, <1>4, <1>6, <1>9, <1>10 DEF Shape, Engine
<1>13. \A e \in Engine : eng'[e].policy = eng[e].policy /\ eng'[e].acc = eng[e].acc
          /\ eng'[e].sync = eng[e].sync /\ eng'[e].st = eng[e].st
  BY <1>9, <1>11
<1>14. LoopsInv'
  <2>1. \A b \in Conn : Vetted(conn'[b], head)
    BY <1>0, <1>3, <1>11 DEF LoopsInv, AllVetted
  <2>2. ASSUME NEW b \in Conn, conn'[b].i # "over"
        PROVE  conn[b].i # "over" /\ conn'[b].from = conn[b].from
                 /\ eng'[conn[b].from].sync = eng[conn[b].from].sync
    <3>1. conn[b].i # "over" /\ conn'[b].from = conn[b].from
      BY <1>3, <1>11, <2>2
    <3>2. conn[b].from \in Engine
      BY <1>0, <3>1 DEF LoopsInv, AllVetted, Vetted, Engine
    <3> QED BY <3>1, <3>2, <1>13
  <2> QED
    BY <1>0, <2>1, <2>2, <1>13, LoopsKept
<1>15. CountsInv'
  <2>1. \A e \in Engine : eng[e].st \in {"removed", "failed"} => e # a
    BY <1>0, <1>8 DEF CountsInv, Ended
  <2>2. Ended'
    BY <1>0, <2>1, <1>11, <1>13 DEF CountsInv, Ended, Engine
  <2>3. Threads(a)' = Threads(a) \ {c}
    <3>1. ~HasThread(y, a)
      BY <1>3 DEF HasThread
    <3> QED BY <3>1, <1>11, ThreadsAre, ThreadsAreNext
  <2>4. Cardinality(Threads(a)') = Cardinality(Threads(a)) - 1
    BY <2>3, <1>8, ThreadsFinite, FS_RemoveElement
  <2>5. \A e \in Engine : e # a => Threads(e)' = Threads(e)
    <3>1. \A e \in Engine : e # a => ~HasThread(y, e) /\ ~HasThread(conn[c], e)
      BY <1>3, <1>6 DEF HasThread
    <3> QED BY <3>1, <1>11, ThreadsAre, ThreadsAreNext
  <2>6. eng'[a].live = Cardinality(Threads(a)') /\ eng'[a].permits + eng'[a].live = Permits
    <3>1. eng[a].permits + eng[a].live = Permits /\ eng[a].permits \in Nat
      BY <1>0, <1>6, <1>7 DEF CountsInv, PermitsBalance, EngType
    <3> QED BY <3>1, <1>8, <1>9, <1>11, <2>4
  <2>7. ASSUME NEW e \in Engine
        PROVE  eng'[e].live = Cardinality(Threads(e)') /\ eng'[e].permits + eng'[e].live = Permits
    <3>1. CASE e = a
      BY <2>6, <3>1
    <3>2. CASE e # a
      BY <1>0, <1>11, <2>5, <3>2 DEF CountsInv, PermitsBalance
    <3> QED BY <3>1, <3>2
  <2>8. PermitsBalance'
    BY <2>7 DEF PermitsBalance, Engine
  <2> QED BY <2>2, <2>8 DEF CountsInv
<1> QED
  BY <1>12, <1>14, <1>15, InvPartsNext

-----------------------------------------------------------------------------
(* The steps of a session. *)

\* The policy an engine goes by names no device that CONFIG_HEAD does not.
LEMMA PolicyOnDisk ==
  ASSUME Inv, NEW e \in Engine
  PROVE  current_policy(e) \subseteq head[e]
BY DEF Inv, Policies, current_policy

\* What an end answers to a frame it reads.
LEMMA ReadFacts ==
  ASSUME Inv, NEW c \in Conn, NEW end \in {"I", "R"}, NEW fs \in Frames,
         conn[c].in[end] # <<>>, end = "R" => conn[c].r \in InSession
  PROVE  /\ conn[c] \in ConnType /\ Vetted(conn[c], head)
         /\ Joined(conn[c], head) /\ conn[c].r # "backlog"
         /\ Took(c, end) \in ConnType /\ SameEnds(Took(c, end), conn[c]) /\ Vetted(Took(c, end), head)
         /\ Sent(Took(c, end), end, fs) \in ConnType
         /\ SameEnds(Sent(Took(c, end), end, fs), conn[c])
         /\ Vetted(Sent(Took(c, end), end, fs), head)
<1>1. conn[c] \in ConnType /\ Vetted(conn[c], head)
  BY DEF Inv, Shape, AllVetted
<1>2. Joined(conn[c], head) /\ conn[c].r # "backlog"
  <2>1. CASE end = "I"
    BY <1>1, <2>1 DEF Vetted
  <2>2. CASE end = "R"
    BY <1>1, <2>2 DEF Vetted, InSession
  <2> QED BY <2>1, <2>2
<1>3. Took(c, end) \in ConnType /\ SameEnds(Took(c, end), conn[c])
  BY <1>1, TookFacts
<1>4. Sent(Took(c, end), end, fs) \in ConnType /\ SameEnds(Sent(Took(c, end), end, fs), Took(c, end))
  BY <1>3, SentFacts
<1>5. ASSUME NEW y, SameEnds(y, conn[c])
      PROVE  Vetted(y, head)
  <2>1. Resp(y) = Resp(conn[c]) /\ (Joined(y, head) <=> Joined(conn[c], head))
    BY <1>5 DEF SameEnds, Resp, Joined
  <2> QED BY <1>1, <1>2, <1>5, <2>1 DEF SameEnds, Vetted
<1> QED
  BY <1>1, <1>2, <1>3, <1>4, <1>5 DEF SameEnds

\* The responder goes on to its next read.
LEMMA RespMoves ==
  ASSUME Inv, NEW c \in Conn, NEW u \in ConnType, NEW fs \in Frames,
         conn' = [conn EXCEPT ![c] = Sent(u, "R", fs)], UNCHANGED <<case, head, eng, sup>>,
         conn[c].r \in InSession, u.r \in InSession, u.i = conn[c].i,
         u.from = conn[c].from, u.at = conn[c].at,
         u.r \in {"offers", "serving", "bye"} => Dev(conn[c].from) \in head[Resp(conn[c])],
         u.known => u.r = "bye" /\ Fold(conn[c].from) = Fold(Resp(conn[c]))
  PROVE  Inv'
<1> DEFINE y == Sent(u, "R", fs)
<1>1. y \in ConnType /\ SameEnds(y, u)
  BY SentFacts
<1> HIDE DEF y
<1>2. Vetted(conn[c], head)
  BY DEF Inv, AllVetted
<1>3. Resp(y) = Resp(conn[c]) /\ (Joined(y, head) <=> Joined(conn[c], head))
  BY <1>1 DEF SameEnds, Resp, Joined
<1>4. Joined(y, head) /\ y.r \notin {"backlog", "over"}
  BY <1>1, <1>2, <1>3 DEF Vetted, InSession, SameEnds
<1>5. Vetted(y, head)
  BY <1>1, <1>2, <1>3, <1>4 DEF Vetted, SameEnds, InSession
<1>6. \A e \in Engine : HasThread(y, e) <=> HasThread(conn[c], e)
  BY <1>1 DEF HasThread, SameEnds, InSession
<1>7. conn' = [conn EXCEPT ![c] = y]
  BY DEF y
<1> QED
  BY <1>1, <1>5, <1>6, <1>7, EndMoves DEF SameEnds

\* The dialer goes on to its next read.
LEMMA InitMoves ==
  ASSUME Inv, NEW c \in Conn, NEW u \in ConnType, NEW fs \in Frames,
         conn' = [conn EXCEPT ![c] = Sent(u, "I", fs)], UNCHANGED <<case, head, eng, sup>>,
         conn[c].i # "over", u.r = conn[c].r, u.from = conn[c].from, u.at = conn[c].at,
         u.known = conn[c].known, Joined(conn[c], head), conn[c].r # "backlog",
         u.i \in {"offers", "serving", "bye"} => Dev(Resp(conn[c])) \in head[conn[c].from]
  PROVE  Inv'
<1> DEFINE y == Sent(u, "I", fs)
<1>1. y \in ConnType /\ SameEnds(y, u)
  BY SentFacts
<1> HIDE DEF y
<1>2. Vetted(conn[c], head)
  BY DEF Inv, AllVetted
<1>3. Resp(y) = Resp(conn[c]) /\ (Joined(y, head) <=> Joined(conn[c], head))
  BY <1>1 DEF SameEnds, Resp, Joined
<1>5. Vetted(y, head)
  BY <1>1, <1>2, <1>3 DEF Vetted, SameEnds
<1>6. \A e \in Engine : HasThread(y, e) <=> HasThread(conn[c], e)
  BY <1>1 DEF HasThread, SameEnds
<1>7. conn' = [conn EXCEPT ![c] = y]
  BY DEF y
<1> QED
  BY <1>1, <1>5, <1>6, <1>7, EndMoves DEF SameEnds

\* The frames the ends send.
LEMMA FramesAre ==
  /\ <<"ack">> \in Frames /\ <<"init">> \in Frames /\ <<"confirm">> \in Frames
  /\ <<"confirm", "bye">> \in Frames /\ <<"bye">> \in Frames /\ <<"offer">> \in Frames
  /\ <<"echo">> \in Frames /\ <<>> \in Frames
<1>1. ASSUME NEW S, NEW a \in S, NEW b \in S
      PROVE  <<a>> \in Seq(S) /\ <<a, b>> \in Seq(S) /\ <<>> \in Seq(S)
  OBVIOUS
<1> QED
  BY <1>1 DEF Frames, Frame

\* A reader's new stage.
LEMMA NextStage ==
  ASSUME NEW t \in ConnType, NEW s \in InSession
  PROVE  /\ [t EXCEPT !.r = s] \in ConnType /\ [t EXCEPT !.i = s] \in ConnType
         /\ [t EXCEPT !.r = s].r = s /\ [t EXCEPT !.i = s].i = s
         /\ [t EXCEPT !.r = s].i = t.i /\ [t EXCEPT !.i = s].r = t.r
         /\ [t EXCEPT !.r = s].from = t.from /\ [t EXCEPT !.i = s].from = t.from
         /\ [t EXCEPT !.r = s].at = t.at /\ [t EXCEPT !.i = s].at = t.at
         /\ [t EXCEPT !.r = s].known = t.known /\ [t EXCEPT !.i = s].known = t.known
BY DEF ConnType

\* Unknown until the offers have been exchanged.
LEMMA NotYetKnown ==
  ASSUME Inv, NEW c \in Conn, conn[c].r \in {"hello", "auth", "offers"}
  PROVE  ~conn[c].known
BY DEF Inv, AllVetted, Vetted

\* The responder reads HELLO: it answers, or its thread ends and returns the permit.
LEMMA HelloKeeps ==
  ASSUME Inv, NEW c \in Conn, handshake_hello(c)
  PROVE  Inv'
<1>1. conn[c].r = "hello" /\ conn[c].in["R"] # <<>>
  BY DEF handshake_hello, Has
<1>2. conn[c].r \in InSession /\ "auth" \in InSession
  BY <1>1 DEF InSession
<1> DEFINE t == Took(c, "R")
<1>3. t \in ConnType /\ SameEnds(t, conn[c])
  BY <1>1, <1>2, ReadFacts, FramesAre
<1>4. UNCHANGED <<case, head, sup>>
  BY DEF handshake_hello
<1>5. CASE /\ conn' = [conn EXCEPT ![c] = Sent([t EXCEPT !.r = "auth"], "R", <<"ack">>)]
           /\ UNCHANGED eng
  <2>1. ~t.known
    BY <1>1, <1>3, NotYetKnown DEF SameEnds
  <2> HIDE DEF t
  <2> DEFINE u == [t EXCEPT !.r = "auth"]
  <2>2. u \in ConnType /\ u.r = "auth" /\ u.i = t.i /\ u.from = t.from /\ u.at = t.at /\ ~u.known
    BY <1>2, <1>3, <2>1, NextStage
  <2>3. conn' = [conn EXCEPT ![c] = Sent(u, "R", <<"ack">>)] /\ UNCHANGED <<case, head, eng, sup>>
    BY <1>4, <1>5
  <2> HIDE DEF u
  <2> QED
    BY <1>2, <1>3, <2>2, <2>3, FramesAre, RespMoves DEF SameEnds
<1>6. CASE OverR(c, Sent(t, "R", <<"bye">>))
  BY <1>1, <1>2, <1>4, <1>6, ReadFacts, FramesAre, OverRKeeps
<1> QED
  BY <1>5, <1>6 DEF handshake_hello

\* The initiator reads HELLO_ACK: it goes on, or its loop goes on to the next peer.
LEMMA AckKeeps ==
  ASSUME Inv, NEW c \in Conn, handshake_ack(c)
  PROVE  Inv'
<1>1. conn[c].i = "hello" /\ conn[c].in["I"] # <<>>
  BY DEF handshake_ack, Has
<1> DEFINE t == Took(c, "I")
<1>3. t \in ConnType /\ SameEnds(t, conn[c]) /\ Joined(conn[c], head) /\ conn[c].r # "backlog"
  BY <1>1, ReadFacts, FramesAre
<1>4. UNCHANGED <<case, head, sup>>
  BY DEF handshake_ack
<1>5. CASE /\ conn' = [conn EXCEPT ![c] = Sent([t EXCEPT !.i = "auth"], "I", <<"init">>)]
           /\ UNCHANGED eng
  <2> HIDE DEF t
  <2> DEFINE u == [t EXCEPT !.i = "auth"]
  <2>2. u \in ConnType /\ u.i = "auth" /\ u.r = t.r /\ u.from = t.from /\ u.at = t.at
          /\ u.known = t.known
    BY <1>3, NextStage DEF InSession
  <2>3. conn' = [conn EXCEPT ![c] = Sent(u, "I", <<"init">>)] /\ UNCHANGED <<case, head, eng, sup>>
    BY <1>4, <1>5
  <2> HIDE DEF u
  <2> QED
    BY <1>1, <1>3, <2>2, <2>3, FramesAre, InitMoves DEF SameEnds
<1>6. CASE OverI(c, Sent(t, "I", <<"bye">>), FALSE)
  BY <1>1, <1>4, <1>6, ReadFacts, FramesAre, OverIKeeps
<1> QED
  BY <1>5, <1>6 DEF handshake_ack

\* The responder admits only devices of its policy, which CONFIG_HEAD names; a
\* refusal ends the thread.
LEMMA AdmitsInitiatorKeeps ==
  ASSUME Inv, NEW c \in Conn, session_admits_initiator(c)
  PROVE  Inv'
<1>1. conn[c].r = "auth" /\ conn[c].in["R"] # <<>>
  BY DEF session_admits_initiator, Has
<1>2. conn[c].r \in InSession /\ "offers" \in InSession
  BY <1>1 DEF InSession
<1> DEFINE t == Took(c, "R")
<1>3. t \in ConnType /\ SameEnds(t, conn[c]) /\ Joined(conn[c], head)
  BY <1>1, <1>2, ReadFacts, FramesAre
<1>4. UNCHANGED <<case, head, sup>>
  BY DEF session_admits_initiator
<1>5. CASE /\ admits(current_policy(Responder(c)), Dev(Initiator(c)))
           /\ conn' = [conn EXCEPT ![c] = Sent([t EXCEPT !.r = "offers"], "R", <<"confirm">>)]
           /\ UNCHANGED eng
  <2>1. ~t.known
    BY <1>1, <1>3, NotYetKnown DEF SameEnds
  <2>4. Resp(conn[c]) \in Engine /\ Responder(c) = Resp(conn[c])
    BY <1>3, OneResponder DEF Engine, Responder, Resp
  <2>5. Dev(conn[c].from) \in head[Resp(conn[c])]
    BY <1>5, <2>4, PolicyOnDisk DEF admits, Initiator
  <2> HIDE DEF t
  <2> DEFINE u == [t EXCEPT !.r = "offers"]
  <2>2. u \in ConnType /\ u.r = "offers" /\ u.i = t.i /\ u.from = t.from /\ u.at = t.at /\ ~u.known
    BY <1>2, <1>3, <2>1, NextStage
  <2>3. conn' = [conn EXCEPT ![c] = Sent(u, "R", <<"confirm">>)] /\ UNCHANGED <<case, head, eng, sup>>
    BY <1>4, <1>5
  <2> HIDE DEF u
  <2> QED
    BY <1>2, <1>3, <2>2, <2>3, <2>5, FramesAre, RespMoves DEF SameEnds
<1>6. CASE OverR(c, Sent(t, "R", <<"confirm", "bye">>))
  BY <1>1, <1>2, <1>4, <1>6, ReadFacts, FramesAre, OverRKeeps
<1> QED
  BY <1>5, <1>6 DEF session_admits_initiator

\* The same for the initiator, whose loop keeps the session lock either way.
LEMMA AdmitsResponderKeeps ==
  ASSUME Inv, NEW c \in Conn, session_admits_responder(c)
  PROVE  Inv'
<1>1. conn[c].i = "auth" /\ conn[c].in["I"] # <<>>
  BY DEF session_admits_responder, Has
<1> DEFINE t == Took(c, "I")
<1>3. t \in ConnType /\ SameEnds(t, conn[c]) /\ Joined(conn[c], head) /\ conn[c].r # "backlog"
  BY <1>1, ReadFacts, FramesAre
<1>4. UNCHANGED <<case, head, sup>>
  BY DEF session_admits_responder
<1>5. CASE /\ admits(current_policy(Initiator(c)), Dev(Responder(c)))
           /\ conn' = [conn EXCEPT ![c] = Sent([t EXCEPT !.i = "offers"], "I", <<"offer">>)]
           /\ UNCHANGED eng
  <2>4. conn[c].from \in Engine /\ Initiator(c) = conn[c].from
    BY <1>1 DEF Inv, AllVetted, Vetted, Engine, Initiator
  <2>5. Dev(Resp(conn[c])) \in head[conn[c].from]
    BY <1>5, <2>4, PolicyOnDisk DEF admits, Responder, Resp
  <2> HIDE DEF t
  <2> DEFINE u == [t EXCEPT !.i = "offers"]
  <2>2. u \in ConnType /\ u.i = "offers" /\ u.r = t.r /\ u.from = t.from /\ u.at = t.at
          /\ u.known = t.known
    BY <1>3, NextStage DEF InSession
  <2>3. conn' = [conn EXCEPT ![c] = Sent(u, "I", <<"offer">>)] /\ UNCHANGED <<case, head, eng, sup>>
    BY <1>4, <1>5
  <2> HIDE DEF u
  <2> QED
    BY <1>1, <1>3, <2>2, <2>3, <2>5, FramesAre, InitMoves DEF SameEnds
<1>6. CASE OverI(c, Sent(t, "I", <<"bye">>), FALSE)
  BY <1>1, <1>4, <1>6, ReadFacts, FramesAre, OverIKeeps
<1> QED
  BY <1>5, <1>6 DEF session_admits_responder

\* Each end goes over to its BYE, or serves the other when the folder is unknown.
LEMMA OffersKeep ==
  ASSUME Inv, NEW c \in Conn, echo_announcement(c) \/ consume_echo(c)
  PROVE  Inv'
<1>1. CASE echo_announcement(c)
  <2>1. conn[c].r = "offers" /\ conn[c].in["R"] # <<>> /\ UNCHANGED <<case, head, eng, sup>>
    BY <1>1 DEF echo_announcement, Has
  <2> DEFINE t == Took(c, "R")
             k == known_folder(Responder(c), Initiator(c))
             n == IF k THEN "bye" ELSE "serving"
             u == [t EXCEPT !.r = n, !.known = k]
  <2>2. conn[c].r \in InSession /\ n \in InSession /\ (k => n = "bye")
    BY <2>1 DEF InSession
  <2>3. t \in ConnType /\ SameEnds(t, conn[c])
    BY <2>1, <2>2, ReadFacts, FramesAre
  <2>4. k \in BOOLEAN /\ (k => Fold(conn[c].from) = Fold(Resp(conn[c])))
    BY DEF known_folder, Responder, Initiator, Resp
  <2>5. conn' = [conn EXCEPT ![c] = Sent(u, "R", <<"echo">>)]
    BY <1>1 DEF echo_announcement
  <2> HIDE DEF t, k, n
  <2>6. u \in ConnType /\ u.r = n /\ u.i = t.i /\ u.from = t.from /\ u.at = t.at /\ u.known = k
    BY <2>2, <2>3, <2>4 DEF ConnType
  <2>7. Dev(conn[c].from) \in head[Resp(conn[c])]
    BY <2>1 DEF Inv, AllVetted, Vetted
  <2> HIDE DEF u
  <2> QED
    BY <2>1, <2>2, <2>3, <2>4, <2>5, <2>6, <2>7, FramesAre, RespMoves DEF SameEnds
<1>2. CASE consume_echo(c)
  <2>1. conn[c].i = "offers" /\ conn[c].in["I"] # <<>> /\ UNCHANGED <<case, head, eng, sup>>
    BY <1>2 DEF consume_echo, Has
  <2> DEFINE t == Took(c, "I")
             n == IF conn[c].known THEN "bye" ELSE "serving"
             fs == IF conn[c].known THEN <<"bye">> ELSE <<>>
             u == [t EXCEPT !.i = n]
  <2>3. t \in ConnType /\ SameEnds(t, conn[c]) /\ Joined(conn[c], head) /\ conn[c].r # "backlog"
    BY <2>1, ReadFacts, FramesAre
  <2>4. n \in InSession /\ fs \in Frames
    BY FramesAre DEF InSession
  <2>5. conn' = [conn EXCEPT ![c] = Sent(u, "I", fs)]
    BY <1>2 DEF consume_echo
  <2> HIDE DEF t, n, fs
  <2>6. u \in ConnType /\ u.i = n /\ u.r = t.r /\ u.from = t.from /\ u.at = t.at
          /\ u.known = t.known
    BY <2>3, <2>4, NextStage
  <2>7. Dev(Resp(conn[c])) \in head[conn[c].from]
    BY <2>1 DEF Inv, AllVetted, Vetted
  <2> HIDE DEF u
  <2> QED
    BY <2>1, <2>3, <2>4, <2>5, <2>6, <2>7, InitMoves DEF SameEnds
<1> QED
  BY <1>1, <1>2

\* A session ends with the last BYE, or with an error.
LEMMA EndsKeep ==
  ASSUME Inv, NEW c \in Conn,
         \/ run_v1_session(c) \/ recv_bye(c)
         \/ session_error_dial(c) \/ session_error_accept(c)
  PROVE  Inv'
<1>0. conn[c] \in ConnType /\ Vetted(conn[c], head) /\ SameEnds(conn[c], conn[c])
  BY DEF Inv, Shape, AllVetted, SameEnds
<1>1. CASE run_v1_session(c)
  <2>1. conn[c].r = "bye" /\ conn[c].in["R"] # <<>> /\ UNCHANGED <<case, head, sup>>
          /\ OverR(c, Sent(Took(c, "R"), "R", <<"bye">>)) /\ conn[c].r \in InSession
    BY <1>1 DEF run_v1_session, Has, InSession
  <2> QED BY <2>1, ReadFacts, FramesAre, OverRKeeps
<1>2. CASE recv_bye(c)
  <2>1. conn[c].i = "bye" /\ conn[c].in["I"] # <<>> /\ UNCHANGED <<case, head, sup>>
          /\ OverI(c, Took(c, "I"), TRUE)
    BY <1>2 DEF recv_bye, Has
  <2> QED BY <2>1, ReadFacts, FramesAre, OverIKeeps
<1>3. CASE session_error_dial(c)
  <2>1. conn[c].i # "over" /\ UNCHANGED <<case, head, sup>> /\ OverI(c, conn[c], FALSE)
    BY <1>3 DEF session_error_dial, Expected
  <2> QED BY <1>0, <2>1, OverIKeeps
<1>4. CASE session_error_accept(c)
  <2>1. conn[c].r \in InSession /\ UNCHANGED <<case, head, sup>> /\ OverR(c, conn[c])
    BY <1>4 DEF session_error_accept, ExpectedR, InSession
  <2> QED BY <1>0, <2>1, OverRKeeps
<1> QED
  BY <1>1, <1>2, <1>3, <1>4

-----------------------------------------------------------------------------
(* The steps of an engine's threads. *)

\* A connection goes on without a thread starting or ending.
GoesOn(x, y) ==
  /\ Vetted(y, head) /\ (y.i # "over" => x.i # "over" /\ y.from = x.from)
  /\ \A e \in Engine : HasThread(y, e) <=> HasThread(x, e)

\* An engine's step that starts and ends no session.
LEMMA EngineMoves ==
  ASSUME Inv, NEW e \in Engine, NEW n \in EngType, eng' = [eng EXCEPT ![e] = n],
         UNCHANGED <<case, head, sup>>,
         n.policy = eng[e].policy, n.st = eng[e].st, n.live = eng[e].live,
         n.permits = eng[e].permits, eng[e].acc = "ended" => n.acc = "ended",
         n.sync = eng[e].sync \/ eng[e].sync \notin {"session", "ended"},
         conn' \in [Conn -> ConnType],
         \A c \in Conn : conn'[c] = conn[c] \/ GoesOn(conn[c], conn'[c])
  PROVE  Inv'
<1>0. Shape /\ LoopsInv /\ CountsInv
  BY InvParts
<1>1. eng'[e] = n /\ \A a \in Engine : a # e => eng'[a] = eng[a]
  BY <1>0 DEF Shape
<1>2. Shape'
  BY <1>0 DEF Shape, Engine
<1>3. \A c \in Conn : GoesOn(conn[c], conn'[c])
  BY <1>0 DEF GoesOn, LoopsInv, AllVetted
<1>4. \A a \in Engine : /\ eng'[a].policy = eng[a].policy /\ eng'[a].st = eng[a].st
                        /\ eng'[a].live = eng[a].live /\ eng'[a].permits = eng[a].permits
                        /\ eng[a].acc = "ended" => eng'[a].acc = "ended"
                        /\ eng[a].sync = "ended" => eng'[a].sync = "ended"
                        /\ eng[a].sync = "session" => eng'[a].sync = "session"
  BY <1>1
<1>5. LoopsInv'
  <2>1. ASSUME NEW c \in Conn, conn'[c].i # "over"
        PROVE  conn[c].i # "over" /\ conn'[c].from = conn[c].from
                 /\ eng'[conn[c].from].sync = eng[conn[c].from].sync
    <3>1. conn[c].i # "over" /\ conn'[c].from = conn[c].from
      BY <1>3, <2>1 DEF GoesOn
    <3>2. conn[c].from \in Engine /\ eng[conn[c].from].sync = "session"
      BY <1>0, <3>1 DEF LoopsInv, AllVetted, Vetted, Engine, Dials, Initiator
    <3> QED BY <3>1, <3>2, <1>4
  <2> QED BY <1>0, <1>3, <1>4, <2>1, LoopsKept DEF GoesOn
<1>6. CountsInv'
  BY <1>0, <1>3, <1>4, CountsKept DEF GoesOn
<1> QED
  BY <1>2, <1>5, <1>6, InvPartsNext

\* The fields of an engine.
LEMMA EngFacts ==
  ASSUME Inv, NEW e \in Engine
  PROVE  eng[e] \in EngType /\ conn \in [Conn -> ConnType] /\ DOMAIN eng = Engine
BY DEF Inv, Shape

\* The sync loop, apart from a dial that gets through.
LEMMA SyncLoopKeeps ==
  ASSUME Inv, NEW e \in Engine,
         sync_loop(e) \/ sync_loop_ends(e) \/ record_dial_failure(e)
  PROVE  Inv'
<1>0. eng[e] \in EngType /\ conn \in [Conn -> ConnType]
  BY EngFacts
<1>1. CASE sync_loop(e)
  <2> DEFINE peers == IF Iroh THEN remote_peers(current_policy(e), Dev(e))
                      ELSE {Dev(case.connect[e])}
             n == [eng[e] EXCEPT !.lock = SyncLoopHolds, !.sync = "dial", !.todo = peers]
  <2>1. UNCHANGED <<case, head, sup, conn>> /\ eng[e].sync = "wait"
    BY <1>1 DEF sync_loop
  <2>2. eng' = [eng EXCEPT ![e] = n]
    BY <1>0, <1>1 DEF sync_loop
  <2>3. peers \in SUBSET Device
    <3>1. CASE Iroh
      <4>1. current_policy(e) \subseteq Device
        BY PolicyOnDisk DEF Inv, Shape
      <4> QED BY <3>1, <4>1 DEF remote_peers
    <3>2. CASE ~Iroh
      <4>1. case.connect[e] \in Engine
        BY <1>1, <3>2 DEF sync_loop
      <4>2. case.connect[e] \in Device \X Folder
        BY <4>1, EnginesAssumption DEF Inv, Shape, Engine
      <4> QED BY <3>2, <4>2 DEF Dev
    <3> QED BY <3>1, <3>2
  <2> HIDE DEF peers
  <2>4. n \in EngType /\ n.policy = eng[e].policy /\ n.st = eng[e].st /\ n.live = eng[e].live
          /\ n.permits = eng[e].permits /\ n.acc = eng[e].acc
    BY <1>0, <2>3 DEF EngType
  <2> HIDE DEF n
  <2> QED BY <1>0, <2>1, <2>2, <2>4, EngineMoves
<1>2. CASE sync_loop_ends(e)
  <2> DEFINE n == [eng[e] EXCEPT !.sync = "ended"]
  <2>1. UNCHANGED <<case, head, sup, conn>> /\ eng[e].sync = "wait"
    BY <1>2 DEF sync_loop_ends
  <2>2. eng' = [eng EXCEPT ![e] = n]
    BY <1>0, <1>2 DEF sync_loop_ends
  <2>4. n \in EngType /\ n.policy = eng[e].policy /\ n.st = eng[e].st /\ n.live = eng[e].live
          /\ n.permits = eng[e].permits /\ n.acc = eng[e].acc
    BY <1>0 DEF EngType
  <2> HIDE DEF n
  <2> QED BY <1>0, <2>1, <2>2, <2>4, EngineMoves
<1>3. CASE record_dial_failure(e)
  <2> DEFINE n == [eng[e] EXCEPT !.sync = "wait", !.lock = None]
  <2>1. UNCHANGED <<case, head, sup, conn>> /\ eng[e].sync = "dial"
    BY <1>3 DEF record_dial_failure
  <2>2. eng' = [eng EXCEPT ![e] = n]
    BY <1>0, <1>3 DEF record_dial_failure
  <2>4. n \in EngType /\ n.policy = eng[e].policy /\ n.st = eng[e].st /\ n.live = eng[e].live
          /\ n.permits = eng[e].permits /\ n.acc = eng[e].acc
    BY <1>0 DEF EngType
  <2> HIDE DEF n
  <2> QED BY <1>0, <2>1, <2>2, <2>4, EngineMoves
<1> QED
  BY <1>1, <1>2, <1>3

\* A connection that is dropped before a thread has it.
LEMMA DropFacts ==
  ASSUME Inv, NEW c \in Conn, conn[c].r \in {"backlog", "accepted"}
  PROVE  LET y == Settled([conn[c] EXCEPT !.r = "over", !.up = FALSE])
         IN  y \in ConnType /\ GoesOn(conn[c], y)
<1> DEFINE o == [conn[c] EXCEPT !.r = "over", !.up = FALSE]
<1>1. conn[c] \in ConnType /\ Vetted(conn[c], head)
  BY DEF Inv, Shape, AllVetted
<1>2. o \in ConnType /\ o.r = "over" /\ o.i = conn[c].i /\ o.at = conn[c].at
        /\ o.from = conn[c].from /\ o.in = conn[c].in /\ o.known = conn[c].known
  BY <1>1 DEF ConnType
<1>3. Resp(o) = Resp(conn[c]) /\ (Joined(o, head) <=> Joined(conn[c], head))
  BY <1>2 DEF Resp, Joined
<1> HIDE DEF o
<1>4. Vetted(o, head)
  BY <1>1, <1>2, <1>3 DEF Vetted
<1> DEFINE y == Settled(o)
<1>5. y \in ConnType /\ y.r = "over" /\ Vetted(y, head)
        /\ (y.i # "over" => conn[c].i # "over" /\ y.from = conn[c].from)
  BY <1>2, <1>4, SettledFacts
<1> HIDE DEF y
<1>6. \A e : ~HasThread(y, e) /\ ~HasThread(conn[c], e)
  BY <1>5 DEF HasThread
<1>7. y \in ConnType /\ GoesOn(conn[c], y)
  BY <1>5, <1>6 DEF GoesOn
<1> QED
  BY <1>7 DEF y, o

\* A connection that nobody has accepted is dropped: it has no thread yet.
LEMMA BacklogDroppedKeeps ==
  ASSUME Inv, NEW c \in Conn, backlog_dropped(c)
  PROVE  Inv'
<1> DEFINE y == Settled([conn[c] EXCEPT !.r = "over", !.up = FALSE])
<1>1. y \in ConnType /\ GoesOn(conn[c], y)
  BY DropFacts DEF backlog_dropped
<1>2. conn' = [conn EXCEPT ![c] = y] /\ UNCHANGED <<case, head, eng, sup>>
  BY DEF backlog_dropped
<1> HIDE DEF y
<1> QED
  BY <1>1, <1>2, EndMoves DEF GoesOn

\* The network, and the close of a listener, take the connection down.
LEMMA DownFacts ==
  ASSUME Inv, NEW c \in Conn
  PROVE  LET y == [conn[c] EXCEPT !.up = FALSE] IN y \in ConnType /\ GoesOn(conn[c], y)
<1> DEFINE y == [conn[c] EXCEPT !.up = FALSE]
<1>1. conn[c] \in ConnType /\ Vetted(conn[c], head)
  BY DEF Inv, Shape, AllVetted
<1>2. y \in ConnType /\ y.r = conn[c].r /\ y.i = conn[c].i /\ y.at = conn[c].at
        /\ y.from = conn[c].from /\ y.in = conn[c].in /\ y.known = conn[c].known
  BY <1>1 DEF ConnType
<1>3. Resp(y) = Resp(conn[c]) /\ (Joined(y, head) <=> Joined(conn[c], head))
  BY <1>2 DEF Resp, Joined
<1> HIDE DEF y
<1>4. Vetted(y, head)
  BY <1>1, <1>2, <1>3 DEF Vetted
<1>5. y \in ConnType /\ GoesOn(conn[c], y)
  BY <1>2, <1>4 DEF GoesOn, HasThread
<1> QED
  BY <1>5 DEF y

\* A broken link changes neither loops nor threads.
LEMMA LinkBreaksKeeps ==
  ASSUME Inv, NEW c \in Conn, LinkBreaks(c)
  PROVE  Inv'
<1> DEFINE y == [conn[c] EXCEPT !.up = FALSE]
<1>1. y \in ConnType /\ GoesOn(conn[c], y)
  BY DownFacts
<1>2. conn' = [conn EXCEPT ![c] = y] /\ UNCHANGED <<case, head, eng, sup>>
  BY DEF LinkBreaks
<1> HIDE DEF y
<1> QED
  BY <1>1, <1>2, EndMoves DEF GoesOn

\* A session thread takes the free lock, or ends and returns its permit.
LEMMA SessionThreadKeeps ==
  ASSUME Inv, NEW c \in Conn, session_thread(c)
  PROVE  Inv'
<1>0. conn[c] \in ConnType /\ Vetted(conn[c], head) /\ SameEnds(conn[c], conn[c])
  BY DEF Inv, Shape, AllVetted, SameEnds
<1>1. conn[c].r = "queued" /\ UNCHANGED <<case, head, sup>>
  BY DEF session_thread
<1>2. CASE OverR(c, conn[c])
  BY <1>0, <1>1, <1>2, OverRKeeps
<1>3. CASE /\ eng' = [eng EXCEPT ![Responder(c)].lock = c]
           /\ conn' = [conn EXCEPT ![c].r = "hello"]
  <2>1. Joined(conn[c], head)
    BY <1>0, <1>1 DEF Vetted
  <2>2. PICK a \in Engine : a = Resp(conn[c]) /\ a = Responder(c)
    BY <2>1, OneResponder DEF Engine, Responder, Resp
  <2>3. eng[a] \in EngType /\ conn \in [Conn -> ConnType]
    BY EngFacts
  <2> DEFINE n == [eng[a] EXCEPT !.lock = c]
             y == [conn[c] EXCEPT !.r = "hello"]
  <2>4. eng' = [eng EXCEPT ![a] = n] /\ conn' = [conn EXCEPT ![c] = y]
    BY <1>3, <2>2
  <2>5. n \in EngType /\ n.policy = eng[a].policy /\ n.st = eng[a].st /\ n.live = eng[a].live
          /\ n.permits = eng[a].permits /\ n.acc = eng[a].acc /\ n.sync = eng[a].sync
    BY <2>3 DEF EngType
  <2>6. y \in ConnType /\ y.r = "hello" /\ y.i = conn[c].i /\ y.from = conn[c].from
          /\ y.at = conn[c].at /\ y.known = conn[c].known /\ y.in = conn[c].in
    BY <1>0 DEF ConnType, InSession
  <2> HIDE DEF n, y
  <2>7. Resp(y) = Resp(conn[c]) /\ (Joined(y, head) <=> Joined(conn[c], head))
    BY <2>6 DEF Resp, Joined
  <2>8. Vetted(y, head)
    BY <1>0, <1>1, <2>1, <2>6, <2>7 DEF Vetted
  <2>9. \A e : HasThread(y, e) <=> HasThread(conn[c], e)
    BY <1>1, <2>6 DEF HasThread
  <2>10. GoesOn(conn[c], y)
    BY <2>6, <2>8, <2>9 DEF GoesOn
  <2>11. conn' \in [Conn -> ConnType] /\ \A b \in Conn : conn'[b] = conn[b] \/ GoesOn(conn[b], conn'[b])
    BY <2>3, <2>4, <2>6, <2>10
  <2> QED
    BY <1>1, <2>4, <2>5, <2>11, EngineMoves
<1> QED
  BY <1>2, <1>3 DEF session_thread

\* The loop takes a connection from the backlog, or drops it.
LEMMA AcceptKeeps ==
  ASSUME Inv, NEW e \in Engine, accept(e)
  PROVE  Inv'
<1>0. eng[e] \in EngType /\ conn \in [Conn -> ConnType]
  BY EngFacts
<1>1. UNCHANGED <<case, head, sup>> /\ eng[e].acc = "accept"
  BY DEF accept
<1>2. PICK c \in Conn :
        /\ conn[c].r = "backlog" /\ e \in conn[c].at
        /\ \/ /\ conn' = [conn EXCEPT ![c] = Settled([conn[c] EXCEPT !.r = "over", !.up = FALSE])]
              /\ eng' = [eng EXCEPT ![e].acc = IF eng[e].flag THEN "ended" ELSE @]
           \/ /\ conn' = [conn EXCEPT ![c].at = {e}, ![c].r = "accepted"]
              /\ eng' = [eng EXCEPT ![e].acc = "spawn"]
  BY DEF accept
<1>3. conn[c] \in ConnType /\ Vetted(conn[c], head)
  BY DEF Inv, Shape, AllVetted
<1>4. ASSUME NEW s \in {"accept", "spawn", "ended"}, eng' = [eng EXCEPT ![e].acc = s],
             NEW y \in ConnType, conn' = [conn EXCEPT ![c] = y], GoesOn(conn[c], y)
      PROVE  Inv'
  <2> DEFINE n == [eng[e] EXCEPT !.acc = s]
  <2>1. eng' = [eng EXCEPT ![e] = n]
    BY <1>4
  <2>2. n \in EngType /\ n.policy = eng[e].policy /\ n.st = eng[e].st /\ n.live = eng[e].live
          /\ n.permits = eng[e].permits /\ n.sync = eng[e].sync
    BY <1>0 DEF EngType
  <2> HIDE DEF n
  <2>3. conn' \in [Conn -> ConnType] /\ \A b \in Conn : conn'[b] = conn[b] \/ GoesOn(conn[b], conn'[b])
    BY <1>0, <1>4
  <2> QED
    BY <1>1, <2>1, <2>2, <2>3, EngineMoves
<1>5. CASE /\ conn' = [conn EXCEPT ![c] = Settled([conn[c] EXCEPT !.r = "over", !.up = FALSE])]
           /\ eng' = [eng EXCEPT ![e].acc = IF eng[e].flag THEN "ended" ELSE @]
  <2> DEFINE y == Settled([conn[c] EXCEPT !.r = "over", !.up = FALSE])
             s == IF eng[e].flag THEN "ended" ELSE eng[e].acc
  <2>1. y \in ConnType /\ GoesOn(conn[c], y)
    BY <1>2, DropFacts
  <2>2. s \in {"accept", "spawn", "ended"} /\ eng' = [eng EXCEPT ![e].acc = s]
    BY <1>1, <1>5
  <2>3. conn' = [conn EXCEPT ![c] = y]
    BY <1>5
  <2> HIDE DEF y, s
  <2> QED BY <1>4, <2>1, <2>2, <2>3
<1>6. CASE /\ conn' = [conn EXCEPT ![c].at = {e}, ![c].r = "accepted"]
           /\ eng' = [eng EXCEPT ![e].acc = "spawn"]
  <2> DEFINE y == [conn[c] EXCEPT !.at = {e}, !.r = "accepted"]
  <2>1. conn' = [conn EXCEPT ![c] = y]
    BY <1>0, <1>6
  <2>2. e \in Site
    BY EnginesAssumption DEF Inv, Shape, Engine, Site
  <2>3. y \in ConnType /\ y.at = {e} /\ y.r = "accepted" /\ y.i = conn[c].i /\ y.in = conn[c].in
          /\ y.from = conn[c].from /\ y.known = conn[c].known
    BY <1>3, <2>2 DEF ConnType
  <2> HIDE DEF y
  <2>4. Joined(y, head) /\ e \in DOMAIN head
    BY <2>3 DEF Joined, Engine
  <2>5. Vetted(y, head)
    BY <1>2, <1>3, <2>3, <2>4 DEF Vetted
  <2>6. \A a : ~HasThread(y, a) /\ ~HasThread(conn[c], a)
    BY <1>2, <2>3 DEF HasThread
  <2>7. GoesOn(conn[c], y)
    BY <2>3, <2>5, <2>6 DEF GoesOn
  <2> QED BY <1>4, <1>6, <2>1, <2>3, <2>7
<1> QED
  BY <1>2, <1>5, <1>6

\* The accept loop ends, which it does only while the engine is shut down.
LEMMA AcceptFailsKeeps ==
  ASSUME Inv, NEW e \in Engine, accept_fails(e)
  PROVE  Inv'
<1>0. eng[e] \in EngType /\ conn \in [Conn -> ConnType]
  BY EngFacts
<1> DEFINE n == [eng[e] EXCEPT !.acc = "ended"]
<1>1. UNCHANGED <<case, head, sup, conn>> /\ eng' = [eng EXCEPT ![e] = n]
  BY DEF accept_fails
<1>2. n \in EngType /\ n.policy = eng[e].policy /\ n.st = eng[e].st /\ n.live = eng[e].live
        /\ n.permits = eng[e].permits /\ n.acc = "ended" /\ n.sync = eng[e].sync
  BY <1>0 DEF EngType
<1> HIDE DEF n
<1> QED
  BY <1>0, <1>1, <1>2, EngineMoves

\* The accepted connection gets a thread, and the thread a permit, or none is
\* left.
LEMMA AcceptLoopKeeps ==
  ASSUME Inv, NEW e \in Engine, accept_loop(e)
  PROVE  Inv'
<1>0. eng[e] \in EngType /\ conn \in [Conn -> ConnType] /\ Shape /\ LoopsInv /\ CountsInv
  BY EngFacts, InvParts
<1>1. UNCHANGED <<case, head, sup>> /\ eng[e].acc = "spawn"
  BY DEF accept_loop
<1>2. PICK c \in Conn :
        /\ conn[c].r = "accepted" /\ conn[c].at = {e}
        /\ \/ /\ conn' = [conn EXCEPT ![c] = Settled([conn[c] EXCEPT !.r = "over", !.up = FALSE])]
              /\ eng' = [eng EXCEPT ![e].acc = "accept"]
           \/ /\ eng[e].permits > 0
              /\ conn' = [conn EXCEPT ![c].r = "queued"]
              /\ eng' = [eng EXCEPT ![e].acc = "accept", ![e].permits = @ - 1, ![e].live = @ + 1]
  BY DEF accept_loop
<1>3. conn[c] \in ConnType /\ Vetted(conn[c], head)
  BY DEF Inv, Shape, AllVetted
<1>4. CASE /\ conn' = [conn EXCEPT ![c] = Settled([conn[c] EXCEPT !.r = "over", !.up = FALSE])]
           /\ eng' = [eng EXCEPT ![e].acc = "accept"]
  <2> DEFINE y == Settled([conn[c] EXCEPT !.r = "over", !.up = FALSE])
             n == [eng[e] EXCEPT !.acc = "accept"]
  <2>1. y \in ConnType /\ GoesOn(conn[c], y)
    BY <1>2, DropFacts
  <2>2. eng' = [eng EXCEPT ![e] = n] /\ conn' = [conn EXCEPT ![c] = y]
    BY <1>4
  <2>3. n \in EngType /\ n.policy = eng[e].policy /\ n.st = eng[e].st /\ n.live = eng[e].live
          /\ n.permits = eng[e].permits /\ n.sync = eng[e].sync
    BY <1>0 DEF EngType
  <2> HIDE DEF y, n
  <2>4. conn' \in [Conn -> ConnType] /\ \A b \in Conn : conn'[b] = conn[b] \/ GoesOn(conn[b], conn'[b])
    BY <1>0, <2>1, <2>2
  <2> QED BY <1>1, <2>2, <2>3, <2>4, EngineMoves
<1>5. CASE /\ eng[e].permits > 0
           /\ conn' = [conn EXCEPT ![c].r = "queued"]
           /\ eng' = [eng EXCEPT ![e].acc = "accept", ![e].permits = @ - 1, ![e].live = @ + 1]
  <2> DEFINE y == [conn[c] EXCEPT !.r = "queued"]
             n == [eng[e] EXCEPT !.acc = "accept", !.permits = eng[e].permits - 1,
                                 !.live = eng[e].live + 1]
  <2>1. eng' = [eng EXCEPT ![e] = n] /\ conn' = [conn EXCEPT ![c] = y]
    BY <1>0, <1>5 DEF Shape
  <2>2. eng[e].permits - 1 \in Nat /\ eng[e].live + 1 \in Nat
    BY <1>0, <1>5 DEF EngType
  <2>3. n \in EngType /\ n.policy = eng[e].policy /\ n.st = eng[e].st /\ n.acc = "accept"
          /\ n.live = eng[e].live + 1 /\ n.permits = eng[e].permits - 1 /\ n.sync = eng[e].sync
    BY <1>0, <2>2 DEF EngType
  <2>4. y \in ConnType /\ y.at = {e} /\ y.r = "queued" /\ y.i = conn[c].i /\ y.in = conn[c].in
          /\ y.from = conn[c].from /\ y.known = conn[c].known
    BY <1>2, <1>3 DEF ConnType
  <2> HIDE DEF y, n
  <2>5. Joined(y, head) /\ Joined(conn[c], head)
    BY <1>2, <2>4 DEF Joined, Engine
  <2>6. Vetted(y, head)
    <3>1. Resp(y) = Resp(conn[c])
      BY <1>2, <2>4 DEF Resp
    <3> QED BY <1>2, <1>3, <2>4, <2>5, <3>1 DEF Vetted
  <2>7. /\ conn'[c] = y /\ \A b \in Conn : b # c => conn'[b] = conn[b]
        /\ eng'[e] = n /\ \A a \in Engine : a # e => eng'[a] = eng[a]
    BY <1>0, <2>1 DEF Shape
  <2>8. Shape'
    BY <1>0, <1>1, <2>1, <2>3, <2>4 DEF Shape, Engine
  <2>9. \A a \in Engine : /\ eng'[a].policy = eng[a].policy /\ eng'[a].st = eng[a].st
                          /\ eng'[a].sync = eng[a].sync
                          /\ eng[a].acc = "ended" => eng'[a].acc = "ended"
    BY <1>1, <2>3, <2>7
  <2>10. LoopsInv'
    <3>1. \A b \in Conn : Vetted(conn'[b], head)
      BY <1>0, <2>6, <2>7 DEF LoopsInv, AllVetted
    <3>2. ASSUME NEW b \in Conn, conn'[b].i # "over"
          PROVE  conn[b].i # "over" /\ conn'[b].from = conn[b].from
                   /\ eng'[conn[b].from].sync = eng[conn[b].from].sync
      <4>1. conn[b].i # "over" /\ conn'[b].from = conn[b].from
        BY <2>4, <2>7, <3>2
      <4>2. conn[b].from \in Engine
        BY <1>0, <4>1 DEF LoopsInv, AllVetted, Vetted, Engine
      <4> QED BY <4>1, <4>2, <2>9
    <3> QED BY <1>0, <1>1, <2>9, <3>1, <3>2, LoopsKept
  <2>11. CountsInv'
    <3>1. Ended'
      <4>1. eng[e].st \notin {"removed", "failed"}
        BY <1>0, <1>1 DEF CountsInv, Ended
      <4> QED BY <1>0, <1>1, <2>7, <2>9, <4>1 DEF CountsInv, Ended, Engine
    <3>2. Threads(e)' = Threads(e) \union {c} /\ c \notin Threads(e)
      <4>1. HasThread(y, e) /\ ~HasThread(conn[c], e)
        BY <1>2, <2>4 DEF HasThread
      <4> QED BY <4>1, <2>7, ThreadsAre, ThreadsAreNext
    <3>3. Cardinality(Threads(e)') = Cardinality(Threads(e)) + 1
      BY <3>2, ThreadsFinite, FS_AddElement
    <3>4. \A a \in Engine : a # e => Threads(a)' = Threads(a)
      <4>1. \A a \in Engine : a # e => ~HasThread(y, a) /\ ~HasThread(conn[c], a)
        BY <1>2, <2>4 DEF HasThread
      <4> QED BY <4>1, <2>7, ThreadsAre, ThreadsAreNext
    <3>5. eng'[e].live = Cardinality(Threads(e)') /\ eng'[e].permits + eng'[e].live = Permits
      <4>1. eng[e].permits + eng[e].live = Permits /\ eng[e].live = Cardinality(Threads(e))
              /\ eng[e].permits \in Nat /\ eng[e].live \in Nat
        BY <1>0 DEF CountsInv, PermitsBalance, EngType
      <4> QED BY <4>1, <2>3, <2>7, <3>3
    <3>6. ASSUME NEW a \in Engine
          PROVE  eng'[a].live = Cardinality(Threads(a)') /\ eng'[a].permits + eng'[a].live = Permits
      <4>1. CASE a = e
        BY <3>5, <4>1
      <4>2. CASE a # e
        BY <1>0, <2>7, <3>4, <4>2 DEF CountsInv, PermitsBalance
      <4> QED BY <4>1, <4>2
    <3>7. PermitsBalance'
      BY <1>1, <3>6 DEF PermitsBalance, Engine
    <3> QED BY <3>1, <3>7 DEF CountsInv
  <2> QED BY <2>8, <2>10, <2>11, InvPartsNext
<1> QED
  BY <1>2, <1>4, <1>5

\* A dial that nobody answers, or that opens a connection.
LEMMA DialKeeps ==
  ASSUME Inv, NEW e \in Engine, dial_discovered_peers(e)
  PROVE  Inv'
<1>0. eng[e] \in EngType /\ conn \in [Conn -> ConnType] /\ Shape /\ LoopsInv /\ CountsInv
  BY EngFacts, InvParts
<1> DEFINE p == Min(eng[e].todo)
           todo == eng[e].todo \ {p}
           at == IF Iroh THEN {x \in Engine : Dev(x) = p} ELSE {case.connect[e]}
<1>1. UNCHANGED <<case, head, sup>> /\ eng[e].sync = "dial" /\ todo \in SUBSET Device
  BY <1>0 DEF dial_discovered_peers, EngType
<1>2. CASE eng' = [eng EXCEPT ![e].todo = @ \ {p}] /\ UNCHANGED conn
  <2> DEFINE n == [eng[e] EXCEPT !.todo = todo]
  <2>1. eng' = [eng EXCEPT ![e] = n]
    BY <1>2
  <2> HIDE DEF todo
  <2>2. n \in EngType /\ n.policy = eng[e].policy /\ n.st = eng[e].st /\ n.live = eng[e].live
          /\ n.permits = eng[e].permits /\ n.acc = eng[e].acc /\ n.sync = eng[e].sync
    BY <1>0, <1>1 DEF EngType
  <2> HIDE DEF n
  <2> QED BY <1>0, <1>1, <1>2, <2>1, <2>2, EngineMoves
<1>3. ASSUME NEW c \in Conn, conn[c] = FreeConn, Reachable(e, p) # {},
             conn' = [conn EXCEPT ![c] =
               [i |-> "hello", r |-> "backlog", from |-> e, at |-> at,
                in |-> [I |-> <<>>, R |-> <<"hello">>], up |-> TRUE, known |-> FALSE]],
             eng' = [eng EXCEPT ![e].sync = "session", ![e].todo = @ \ {p}]
      PROVE  Inv'
  <2> DEFINE q == [I |-> <<>>, R |-> <<"hello">>]
             y == [i |-> "hello", r |-> "backlog", from |-> e, at |-> at,
                   in |-> q, up |-> TRUE, known |-> FALSE]
             n == [eng[e] EXCEPT !.sync = "session", !.todo = todo]
  <2>1. conn' = [conn EXCEPT ![c] = y] /\ eng' = [eng EXCEPT ![e] = n]
    BY <1>0, <1>3 DEF Shape
  <2>2. q \in [{"I", "R"} -> Frames] /\ q["I"] = <<>>
    <3>1. <<>> \in Frames /\ <<"hello">> \in Frames
      BY DEF Frames, Frame
    <3>2. DOMAIN q = {"I", "R"} /\ q = [k \in {"I", "R"} |-> q[k]]
      OBVIOUS
    <3>3. q["I"] = <<>> /\ q["R"] = <<"hello">>
      OBVIOUS
    <3> HIDE DEF q
    <3> QED BY <3>1, <3>2, <3>3
  <2>3. at \subseteq Engine
    BY <1>3 DEF Reachable
  <2>4. Engine \subseteq Site /\ e \in DOMAIN head
    BY <1>0, EnginesAssumption DEF Shape, Engine, Site
  <2> HIDE DEF q, at, todo, p
  <2>5. y \in ConnType /\ y.i = "hello" /\ y.r = "backlog" /\ y.from = e /\ y.at = at
          /\ y.in["I"] = <<>> /\ ~y.known
    BY <2>2, <2>3, <2>4 DEF ConnType, InSession
  <2>6. n \in EngType /\ n.policy = eng[e].policy /\ n.st = eng[e].st /\ n.live = eng[e].live
          /\ n.permits = eng[e].permits /\ n.acc = eng[e].acc /\ n.sync = "session"
    BY <1>0, <1>1 DEF EngType
  <2> HIDE DEF y, n
  <2>7. Vetted(y, head)
    BY <2>3, <2>4, <2>5 DEF Vetted, Engine
  <2>8. \A a : ~HasThread(y, a) /\ ~HasThread(conn[c], a)
    BY <1>3, <2>5, FreeFacts DEF HasThread
  <2>9. /\ conn'[c] = y /\ \A b \in Conn : b # c => conn'[b] = conn[b]
        /\ eng'[e] = n /\ \A a \in Engine : a # e => eng'[a] = eng[a]
    BY <1>0, <2>1 DEF Shape
  <2>10. Shape'
    BY <1>0, <1>1, <2>1, <2>5, <2>6 DEF Shape, Engine
  <2>11. \A a \in Engine : /\ eng'[a].policy = eng[a].policy /\ eng'[a].acc = eng[a].acc
                           /\ eng'[a].st = eng[a].st /\ eng'[a].live = eng[a].live
                           /\ eng'[a].permits = eng[a].permits
                           /\ eng[a].sync = "ended" => eng'[a].sync = "ended"
    BY <1>1, <2>6, <2>9
  <2>12. LoopsInv'
    <3>1. Policies'
      BY <1>0, <1>1, <2>11 DEF LoopsInv, Policies, Engine
    <3>2. AllVetted'
      BY <1>0, <1>1, <2>7, <2>9 DEF LoopsInv, AllVetted
    <3>3. \A b \in Conn : b # c /\ conn'[b].i # "over" =>
             conn'[b].from \in Engine /\ conn'[b].from # e /\ eng[conn'[b].from].sync = "session"
               /\ conn'[b] = conn[b]
      BY <1>0, <1>1, <2>9 DEF LoopsInv, AllVetted, Vetted, Engine, Dials, Initiator
    <3>4. Dials'
      <4>1. \A b \in Conn : conn'[b].i # "over" => eng'[conn'[b].from].sync = "session"
        BY <2>5, <2>6, <2>9, <3>3
      <4>2. ASSUME NEW b \in Conn, NEW d \in Conn, b # d, conn'[b].i # "over", conn'[d].i # "over"
            PROVE  conn'[b].from # conn'[d].from
        <5>1. CASE b = c
          BY <5>1, <4>2, <3>3, <2>5, <2>9
        <5>2. CASE d = c
          BY <5>2, <4>2, <3>3, <2>5, <2>9
        <5>3. CASE b # c /\ d # c
          BY <5>3, <4>2, <3>3, <1>0 DEF LoopsInv, Dials, Initiator
        <5> QED BY <5>1, <5>2, <5>3
      <4> QED BY <4>1, <4>2 DEF Dials, Initiator
    <3>5. Supervised'
      BY <1>0, <1>1, <2>11 DEF LoopsInv, Supervised, Engine
    <3> QED BY <3>1, <3>2, <3>4, <3>5 DEF LoopsInv
  <2>13. CountsInv'
    <3>1. \A b \in Conn : \A a \in Engine : HasThread(conn'[b], a) <=> HasThread(conn[b], a)
      BY <2>8, <2>9
    <3> QED BY <1>0, <1>1, <2>11, <3>1, CountsKept
  <2> QED BY <2>10, <2>12, <2>13, InvPartsNext
<1> QED
  BY <1>2, <1>3 DEF dial_discovered_peers

-----------------------------------------------------------------------------
(* The supervisor. *)

\* The supervisor goes on with the shutdown of its engine.
LEMMA ShutdownMoves ==
  ASSUME Inv, NEW d \in Device, sup[d].pc # "idle",
         NEW s \in {"joins", "loops", "wait"}, sup' = [sup EXCEPT ![d].pc = s],
         s = "wait" => eng[sup[d].e].acc = "ended" /\ eng[sup[d].e].sync = "ended",
         UNCHANGED <<case, head, eng>>, conn' \in [Conn -> ConnType],
         \A c \in Conn : conn'[c] = conn[c] \/ GoesOn(conn[c], conn'[c])
  PROVE  Inv'
<1>0. Shape /\ LoopsInv /\ CountsInv
  BY InvParts
<1> DEFINE n == [sup[d] EXCEPT !.pc = s]
<1>1. sup[d] \in SupType /\ sup' = [sup EXCEPT ![d] = n]
  BY <1>0 DEF Shape
<1>2. n \in SupType /\ n.pc = s /\ n.e = sup[d].e
  BY <1>1 DEF SupType
<1> HIDE DEF n
<1>3. sup'[d] = n /\ \A x \in Device : x # d => sup'[x] = sup[x]
  BY <1>0, <1>1 DEF Shape
<1>4. Shape'
  BY <1>0, <1>1, <1>2 DEF Shape, Engine
<1>5. \A c \in Conn : GoesOn(conn[c], conn'[c])
  BY <1>0 DEF GoesOn, LoopsInv, AllVetted
<1>6. LoopsInv'
  <2>1. Policies' /\ AllVetted'
    BY <1>0, <1>5 DEF LoopsInv, Policies, Engine, AllVetted, GoesOn
  <2>2. Dials'
    BY <1>0, <1>5 DEF LoopsInv, Dials, Initiator, GoesOn
  <2>3. Supervised'
    BY <1>0, <1>2, <1>3 DEF LoopsInv, Supervised, Engine
  <2> QED BY <2>1, <2>2, <2>3 DEF LoopsInv
<1>7. CountsInv'
  BY <1>0, <1>5, CountsKept DEF GoesOn
<1> QED
  BY <1>4, <1>6, <1>7, InvPartsNext

\* The first three stages of a shutdown: the listener is closed, the session
\* threads and then the loops are joined.
LEMMA ShutdownKeeps ==
  ASSUME Inv, NEW d \in Device, shutdown_close(d) \/ shutdown_joins(d) \/ shutdown_loops(d)
  PROVE  Inv'
<1>0. conn \in [Conn -> ConnType]
  BY DEF Inv, Shape
<1>1. CASE shutdown_close(d)
  <2>1. sup[d].pc # "idle" /\ sup' = [sup EXCEPT ![d].pc = "joins"] /\ UNCHANGED <<case, head, eng>>
    BY <1>1 DEF shutdown_close
  <2>2. conn' \in [Conn -> ConnType]
          /\ \A c \in Conn : conn'[c] = conn[c] \/ GoesOn(conn[c], conn'[c])
    <3>1. CASE Iroh
      <4>1. conn' = [c \in Conn |->
              IF conn[c].up /\ (\E e \in conn[c].at \cup {conn[c].from} : Dev(e) = d)
              THEN [conn[c] EXCEPT !.up = FALSE] ELSE conn[c]]
        BY <1>1, <3>1 DEF shutdown_close
      <4>2. \A c \in Conn : conn'[c] = conn[c] \/ conn'[c] = [conn[c] EXCEPT !.up = FALSE]
        BY <4>1
      <4>3. \A c \in Conn : conn'[c] \in ConnType /\ (conn'[c] = conn[c] \/ GoesOn(conn[c], conn'[c]))
        BY <1>0, <4>2, DownFacts
      <4>4. conn' = [c \in Conn |-> conn'[c]]
        BY <4>1
      <4> QED BY <4>3, <4>4
    <3>2. CASE ~Iroh
      BY <1>0, <1>1, <3>2 DEF shutdown_close
    <3> QED BY <3>1, <3>2
  <2> QED BY <2>1, <2>2, ShutdownMoves
<1>2. CASE shutdown_joins(d)
  <2>1. sup[d].pc # "idle" /\ sup' = [sup EXCEPT ![d].pc = "loops"]
          /\ UNCHANGED <<case, head, eng, conn>>
    BY <1>2 DEF shutdown_joins
  <2> QED BY <1>0, <2>1, ShutdownMoves
<1>3. CASE shutdown_loops(d)
  <2>1. sup[d].pc # "idle" /\ sup' = [sup EXCEPT ![d].pc = "wait"]
          /\ UNCHANGED <<case, head, eng, conn>>
          /\ eng[sup[d].e].acc = "ended" /\ eng[sup[d].e].sync = "ended"
    BY <1>3 DEF shutdown_loops
  <2> QED BY <1>0, <2>1, ShutdownMoves
<1> QED
  BY <1>1, <1>2, <1>3

\* The supervisor takes a job: it raises the flag of the engine it shuts down.
LEMMA ShutdownBegins ==
  ASSUME Inv, NEW e \in Engine, handle_remove(e) \/ tick(e)
  PROVE  Inv'
<1>0. eng[e] \in EngType /\ Shape /\ LoopsInv /\ CountsInv
  BY EngFacts, InvParts
<1>1. UNCHANGED <<case, head, conn>> /\ eng' = [eng EXCEPT ![e].flag = TRUE, ![e].scan = FALSE]
  BY DEF handle_remove, tick
<1>2. PICK j \in BOOLEAN : sup' = [sup EXCEPT ![Dev(e)] = [pc |-> "close", e |-> e, restart |-> j]]
  BY DEF handle_remove, tick
<1>3. e \in Site
  BY <1>0, EnginesAssumption DEF Shape, Engine, Site
<1>12. PICK v \in Device : v = Dev(e)
  BY <1>3 DEF Site, Dev
<1> DEFINE n == [eng[e] EXCEPT !.flag = TRUE, !.scan = FALSE]
           k == [pc |-> "close", e |-> e, restart |-> j]
<1>4. eng' = [eng EXCEPT ![e] = n] /\ sup' = [sup EXCEPT ![v] = k]
  BY <1>0, <1>1, <1>2, <1>12 DEF Shape
<1>5. n \in EngType /\ n.policy = eng[e].policy /\ n.st = eng[e].st /\ n.live = eng[e].live
        /\ n.permits = eng[e].permits /\ n.acc = eng[e].acc /\ n.sync = eng[e].sync
  BY <1>0 DEF EngType
<1>6. k \in SupType /\ k.pc = "close" /\ k.e = e
  BY <1>3 DEF SupType
<1> HIDE DEF n, k
<1>7. /\ eng'[e] = n /\ \A a \in Engine : a # e => eng'[a] = eng[a]
      /\ sup'[v] = k /\ \A x \in Device : x # v => sup'[x] = sup[x]
  BY <1>0, <1>3, <1>4 DEF Shape
<1>8. Shape'
  <2>1. sup' \in [Device -> SupType] /\ eng' \in [Engine -> EngType]
    BY <1>0, <1>4, <1>5, <1>6 DEF Shape
  <2> QED BY <1>0, <1>1, <2>1 DEF Shape, Engine
<1>9. \A a \in Engine : /\ eng'[a].policy = eng[a].policy /\ eng'[a].acc = eng[a].acc
                        /\ eng'[a].st = eng[a].st /\ eng'[a].live = eng[a].live
                        /\ eng'[a].permits = eng[a].permits /\ eng'[a].sync = eng[a].sync
  BY <1>5, <1>7
<1>10. LoopsInv'
  <2>1. Policies' /\ AllVetted'
    BY <1>0, <1>1, <1>9 DEF LoopsInv, Policies, Engine, AllVetted
  <2>2. Dials'
    <3>1. \A c \in Conn : conn[c].i # "over" => conn[c].from \in Engine
      BY <1>0 DEF LoopsInv, AllVetted, Vetted, Engine
    <3> QED BY <1>0, <1>1, <1>9, <3>1 DEF LoopsInv, Dials, Initiator
  <2>3. Supervised'
    <3>1. ASSUME NEW d \in Device, sup'[d].pc # "idle"
          PROVE  /\ sup'[d].e \in Engine /\ Dev(sup'[d].e) = d
                 /\ sup'[d].pc = "wait" => eng'[sup'[d].e].acc = "ended" /\ eng'[sup'[d].e].sync = "ended"
      <4>1. CASE d = v
        BY <1>6, <1>7, <1>12, <4>1
      <4>2. CASE d # v
        <5>1. sup'[d] = sup[d]
          BY <1>7, <4>2
        <5> QED BY <1>0, <1>9, <3>1, <5>1 DEF LoopsInv, Supervised
      <4> QED BY <4>1, <4>2
    <3> QED BY <1>1, <3>1 DEF Supervised, Engine
  <2> QED BY <2>1, <2>2, <2>3 DEF LoopsInv
<1>11. CountsInv'
  BY <1>0, <1>1, <1>9, CountsKept
<1> QED
  BY <1>8, <1>10, <1>11, InvPartsNext

\* There are permits.
LEMMA PermitsNat == Permits \in Nat
BY EnginesAssumption

\* The shutdown has returned; the engine is gone, or starts again.
LEMMA ShutdownDoneKeeps ==
  ASSUME Inv, NEW d \in Device, shutdown_done(d)
  PROVE  Inv'
<1>0. Shape /\ LoopsInv /\ CountsInv
  BY InvParts
<1>1. sup[d].pc = "wait" /\ UNCHANGED <<case, head, conn>> /\ sup' = [sup EXCEPT ![d] = AtRest]
  BY DEF shutdown_done
<1>2. PICK e \in Engine : e = sup[d].e /\ Dev(e) = d /\ eng[e].acc = "ended" /\ eng[e].sync = "ended"
  BY <1>0, <1>1 DEF LoopsInv, Supervised
<1>3. eng[e].live = 0 /\ eng[e] \in EngType /\ Threads(e) = {} /\ eng[e].permits = Permits
  <2>1. eng[e].live = 0 /\ eng[e] \in EngType
    BY <1>0, <1>2 DEF shutdown_done, wait_sessions_done, Shape
  <2>2. Cardinality(Threads(e)) = 0 /\ eng[e].permits + eng[e].live = Permits
    BY <1>0, <2>1 DEF CountsInv, PermitsBalance
  <2> QED BY <2>1, <2>2, ThreadsFinite, FS_EmptySet DEF EngType
<1>4. PICK n \in EngType : /\ eng' = [eng EXCEPT ![e] = n]
                           /\ n.policy \subseteq head[e] /\ n.live = 0 /\ n.permits = Permits
                           /\ n.st \in {"removed", "failed"} => n.acc = "ended" /\ n.sync = "ended"
  <2>1. CASE \E s \in {"removed", "failed"} : eng' = [eng EXCEPT ![e].st = s]
    <3>0. PICK s \in {"removed", "failed"} : eng' = [eng EXCEPT ![e].st = s]
      BY <2>1
    <3> DEFINE n == [eng[e] EXCEPT !.st = s]
    <3>1. eng' = [eng EXCEPT ![e] = n]
      BY <3>0
    <3>2. n \in EngType /\ n.policy = eng[e].policy /\ n.live = 0 /\ n.permits = Permits
            /\ n.acc = "ended" /\ n.sync = "ended"
      BY <1>2, <1>3 DEF EngType
    <3>3. eng[e].policy \subseteq head[e]
      BY <1>0 DEF LoopsInv, Policies
    <3> HIDE DEF n
    <3> QED BY <3>1, <3>2, <3>3
  <2>2. CASE eng' = [eng EXCEPT ![e] = Started(e, "up")]
    <3> DEFINE n == Started(e, "up")
    <3>1. n \in EngType /\ n.policy = head[e] /\ n.live = 0 /\ n.permits = Permits /\ n.st = "up"
      <4>1. head[e] \in SUBSET Device /\ Permits \in Nat
        BY <1>0, EnginesAssumption DEF Shape
      <4> QED BY <4>1 DEF Started, EngType
    <3>2. eng' = [eng EXCEPT ![e] = n]
      BY <2>2
    <3> HIDE DEF n
    <3> QED BY <3>1, <3>2
  <2>3. \/ eng' = [eng EXCEPT ![e] = Started(e, "up")]
        \/ \E s \in {"removed", "failed"} : eng' = [eng EXCEPT ![e].st = s]
    BY <1>2, Zenon DEF shutdown_done
  <2> QED BY <2>1, <2>2, <2>3
<1>5. /\ eng'[e] = n /\ \A a \in Engine : a # e => eng'[a] = eng[a]
      /\ sup'[d].pc = "idle" /\ \A x \in Device : x # d => sup'[x] = sup[x]
  BY <1>0, <1>1, <1>4 DEF Shape, AtRest
<1>6. Shape'
  <2>1. AtRest \in SupType
    BY DEF AtRest, SupType
  <2>2. sup' \in [Device -> SupType] /\ eng' \in [Engine -> EngType]
    BY <1>0, <1>1, <1>4, <2>1 DEF Shape
  <2> QED BY <1>0, <1>1, <2>2 DEF Shape, Engine
<1>7. LoopsInv'
  <2>1. Policies' /\ AllVetted'
    BY <1>0, <1>1, <1>4, <1>5 DEF LoopsInv, Policies, Engine, AllVetted
  <2>2. Dials'
    <3>1. \A c \in Conn : conn[c].i # "over" => conn[c].from \in Engine /\ conn[c].from # e
      BY <1>0, <1>2 DEF LoopsInv, AllVetted, Vetted, Engine, Dials, Initiator
    <3> QED BY <1>0, <1>1, <1>5, <3>1 DEF LoopsInv, Dials, Initiator
  <2>3. ASSUME NEW x \in Device, sup'[x].pc # "idle"
        PROVE  /\ sup'[x].e \in Engine /\ Dev(sup'[x].e) = x
               /\ sup'[x].pc = "wait" => eng'[sup'[x].e].acc = "ended" /\ eng'[sup'[x].e].sync = "ended"
    <3>1. x # d /\ sup'[x] = sup[x]
      BY <1>5, <2>3
    <3>2. sup[x].e \in Engine /\ Dev(sup[x].e) = x /\ sup[x].e # e
      BY <1>0, <1>2, <2>3, <3>1 DEF LoopsInv, Supervised
    <3> QED BY <1>0, <1>5, <2>3, <3>1, <3>2 DEF LoopsInv, Supervised
  <2>4. Supervised'
    BY <1>1, <2>3 DEF Supervised, Engine
  <2> QED BY <2>1, <2>2, <2>4 DEF LoopsInv
<1>8. CountsInv'
  <2>1. Ended'
    BY <1>0, <1>1, <1>4, <1>5 DEF CountsInv, Ended, Engine
  <2>2. \A a \in Engine : Threads(a)' = Threads(a)
    BY <1>1, ThreadsAre, ThreadsAreNext
  <2>3. ASSUME NEW a \in Engine
        PROVE  eng'[a].live = Cardinality(Threads(a)') /\ eng'[a].permits + eng'[a].live = Permits
    <3>1. CASE a = e
      <4>1. Threads(a)' = {} /\ eng'[a] = n
        BY <1>3, <1>5, <2>2, <3>1
      <4> QED BY <1>4, <4>1, FS_EmptySet, PermitsNat
    <3>2. CASE a # e
      BY <1>0, <1>5, <2>2, <3>2 DEF CountsInv, PermitsBalance
    <3> QED BY <3>1, <3>2
  <2>4. PermitsBalance'
    BY <1>1, <2>3 DEF PermitsBalance, Engine
  <2> QED BY <2>1, <2>4 DEF CountsInv
<1> QED
  BY <1>6, <1>7, <1>8, InvPartsNext

-----------------------------------------------------------------------------
(* The environment, and the steps together. *)

\* Pairing only adds to CONFIG_HEAD, so whoever was admitted is still named.
LEMMA PairingKeeps ==
  ASSUME Inv, NEW e \in Engine, append_wrap_entry(e)
  PROVE  Inv'
<1>0. Shape /\ LoopsInv /\ CountsInv
  BY InvParts
<1>1. UNCHANGED <<case, eng, conn, sup>>
  BY DEF append_wrap_entry
<1>2. PICK p \in case.pairs[e] : head' = [head EXCEPT ![e] = @ \cup {p}]
  BY DEF append_wrap_entry
<1>3. p \in Device
  BY <1>0, EnginesAssumption DEF Shape, Engine
<1>4. head' \in [Engine -> SUBSET Device] /\ DOMAIN head' = DOMAIN head
        /\ \A a \in DOMAIN head : head[a] \subseteq head'[a]
  BY <1>0, <1>2, <1>3 DEF Shape, Engine
<1>5. Shape'
  BY <1>0, <1>1, <1>4 DEF Shape, Engine
<1>6. LoopsInv'
  <2>1. Policies'
    BY <1>0, <1>1, <1>4 DEF LoopsInv, Policies, Engine
  <2>2. AllVetted'
    BY <1>0, <1>1, <1>4, VettedGrows DEF LoopsInv, AllVetted
  <2>3. Dials'
    BY <1>0, <1>1 DEF LoopsInv, Dials, Initiator
  <2>4. Supervised'
    BY <1>0, <1>1, <1>4 DEF LoopsInv, Supervised, Engine
  <2> QED BY <2>1, <2>2, <2>3, <2>4 DEF LoopsInv
<1>7. CountsInv'
  <2>1. Ended'
    BY <1>0, <1>1, <1>4 DEF CountsInv, Ended, Engine
  <2>2. \A a : Threads(a)' = Threads(a)
    BY <1>1, ThreadsAre, ThreadsAreNext
  <2>3. PermitsBalance'
    BY <1>0, <1>1, <1>4, <2>2 DEF CountsInv, PermitsBalance, Engine
  <2> QED BY <2>1, <2>3 DEF CountsInv
<1> QED
  BY <1>5, <1>6, <1>7, InvPartsNext

\* The scan channel closes, which ends no loop and no thread by itself.
LEMMA ScanDisconnectsKeeps ==
  ASSUME Inv, NEW e \in Engine, scan_disconnects(e)
  PROVE  Inv'
<1>0. eng[e] \in EngType /\ conn \in [Conn -> ConnType]
  BY EngFacts
<1> DEFINE n == [eng[e] EXCEPT !.scan = FALSE]
<1>1. UNCHANGED <<case, head, sup, conn>> /\ eng' = [eng EXCEPT ![e] = n]
  BY DEF scan_disconnects
<1>2. n \in EngType /\ n.policy = eng[e].policy /\ n.st = eng[e].st /\ n.live = eng[e].live
        /\ n.permits = eng[e].permits /\ n.acc = eng[e].acc /\ n.sync = eng[e].sync
  BY <1>0 DEF EngType
<1> HIDE DEF n
<1> QED
  BY <1>0, <1>1, <1>2, EngineMoves

\* The engines start with every permit and no connection.
LEMMA InitInv == Init => Inv
<1> SUFFICES ASSUME Init PROVE Inv
  OBVIOUS
<1>1. case \in Cases /\ head = case.head /\ eng = [e \in Engine |-> Started(e, "up")]
        /\ conn = [c \in Conn |-> FreeConn] /\ sup = [d \in Device |-> AtRest]
  BY DEF Init
<1>2. head \in [Engine -> SUBSET Device]
  <2>1. \A e \in DOMAIN head : head[e] \subseteq Device
    BY <1>1, EnginesAssumption
  <2>2. head = [e \in DOMAIN head |-> head[e]]
    BY <1>1, EnginesAssumption
  <2> QED BY <2>1, <2>2 DEF Engine
<1>3. \A e \in Engine : eng[e] = Started(e, "up") /\ eng[e] \in EngType /\ eng[e].policy = head[e]
         /\ eng[e].live = 0 /\ eng[e].permits = Permits /\ eng[e].st = "up"
  BY <1>1, <1>2, EnginesAssumption DEF Started, EngType
<1>4. Shape
  <2>1. AtRest \in SupType
    BY DEF AtRest, SupType
  <2> QED BY <1>1, <1>2, <1>3, <2>1, FreeFacts DEF Shape
<1>5. Policies /\ AllVetted /\ Dials /\ Supervised
  <2>1. \A c \in Conn : conn[c] = FreeConn
    BY <1>1
  <2>2. AllVetted
    BY <2>1, FreeFacts DEF AllVetted, Vetted
  <2>3. Dials
    BY <2>1, FreeFacts DEF Dials
  <2>4. Supervised
    BY <1>1 DEF Supervised, AtRest
  <2>5. Policies
    BY <1>3 DEF Policies
  <2> QED BY <2>2, <2>3, <2>4, <2>5
<1>6. Ended
  BY <1>3 DEF Ended
<1>7. PermitsBalance
  <2>1. \A e : Threads(e) = {}
    BY <1>1, ThreadsAre, FreeFacts DEF HasThread
  <2> QED BY <1>3, <2>1, FS_EmptySet, PermitsNat DEF PermitsBalance
<1> QED
  BY <1>4, <1>5, <1>6, <1>7 DEF Inv

\* Every step of the engines keeps the invariant.
LEMMA NextInv ==
  ASSUME Inv, [Next]_vars
  PROVE  Inv'
<1>1. ASSUME NEW e \in Engine,
             SyncLoop(e) \/ AcceptLoop(e) \/ handle_remove(e) \/ tick(e)
             \/ append_wrap_entry(e) \/ scan_disconnects(e)
      PROVE  Inv'
  BY <1>1, SyncLoopKeeps, DialKeeps, AcceptKeeps, AcceptLoopKeeps, AcceptFailsKeeps,
     ShutdownBegins, PairingKeeps, ScanDisconnectsKeeps DEF SyncLoop, AcceptLoop
<1>2. ASSUME NEW c \in Conn, Session(c) \/ LinkBreaks(c)
      PROVE  Inv'
  BY <1>2, SessionThreadKeeps, HelloKeeps, AckKeeps, AdmitsInitiatorKeeps,
     AdmitsResponderKeeps, OffersKeep, EndsKeep, BacklogDroppedKeeps, LinkBreaksKeeps DEF Session
<1>3. ASSUME NEW d \in Device, Shutdown(d)
      PROVE  Inv'
  BY <1>3, ShutdownKeeps, ShutdownDoneKeeps DEF Shutdown
<1>4. CASE UNCHANGED vars
  <2>1. \A a : Threads(a)' = Threads(a)
    BY <1>4, ThreadsAre, ThreadsAreNext DEF vars
  <2> QED BY <1>4, <2>1 DEF vars, Inv, Shape, Policies, AllVetted, Dials, Initiator, Supervised,
       Ended, PermitsBalance, Engine
<1> QED
  BY <1>1, <1>2, <1>3, <1>4 DEF Next

-----------------------------------------------------------------------------
(* The theorems. *)

\* The invariant holds throughout, whatever the folders are paired with, removed
\* from or restarted by.
THEOREM EnginesInvariance == Spec => []Inv
<1>1. Init => Inv
  BY InitInv
<1>2. Inv /\ [Next]_vars => Inv'
  BY NextInv
<1> QED
  BY <1>1, <1>2, PTL DEF Spec

\* Each of an engine's permits is free or held by exactly one session thread, and
\* live counts the threads, however sessions are refused, fail, finish or are
\* overtaken by a shutdown.
THEOREM PermitsComeBack == Spec => []PermitsBalance
<1>1. Inv => PermitsBalance
  BY DEF Inv
<1> QED
  BY <1>1, EnginesInvariance, PTL

\* An agreement is recorded only between engines of the same folder, each on a
\* device that the other's CONFIG_HEAD names.
THEOREM SessionsNotConfused == Spec => []AgreedPaired
<1>1. Inv => AgreedPaired
  <2> SUFFICES ASSUME Inv, NEW c \in Conn, conn[c].known, conn[c].i = "bye" \/ conn[c].r = "bye"
               PROVE  /\ Fold(Initiator(c)) = Fold(Responder(c))
                      /\ conn[c].i = "bye" => Dev(Responder(c)) \in head[Initiator(c)]
                      /\ conn[c].r = "bye" => Dev(Initiator(c)) \in head[Responder(c)]
    BY DEF AgreedPaired
  <2>1. Vetted(conn[c], head)
    BY DEF Inv, AllVetted
  <2> QED BY <2>1 DEF Vetted, Initiator, Responder, Resp
<1> QED
  BY <1>1, EnginesInvariance, PTL

\* When shutdown has returned no loop and no session thread of the engine runs.
THEOREM ShutdownQuiesces == Spec => []Quiesced
<1>1. Inv => Quiesced
  <2> SUFFICES ASSUME Inv, NEW e \in Engine, eng[e].st \in {"removed", "failed"}
               PROVE  eng[e].acc = "ended" /\ eng[e].sync = "ended" /\ Threads(e) = {}
    BY DEF Quiesced
  <2>1. eng[e].acc = "ended" /\ eng[e].sync = "ended" /\ eng[e].live = 0
    BY DEF Inv, Ended
  <2>2. Cardinality(Threads(e)) = 0
    BY <2>1 DEF Inv, PermitsBalance
  <2> QED BY <2>1, <2>2, ThreadsFinite, FS_EmptySet
<1> QED
  BY <1>1, EnginesInvariance, PTL
=============================================================================

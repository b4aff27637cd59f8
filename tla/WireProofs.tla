----------------------------- MODULE WireProofs -----------------------------
(***************************************************************************)
(* Theorems about module Wire, whatever was changed on the way and whenever *)
(* the connection broke:                                                    *)
(*  - two ends that are both through the handshake are in one session       *)
(*    (invariant Inv), and what either accepts sealed was sealed under the  *)
(*    keys of both (invariant Wrapped, at the end);                         *)
(*  - what the ends record as agreed the other has too, an end that came    *)
(*    without a manifest has all that it needs, and two ends that are done  *)
(*    have recorded the same (invariant Exchanged, the rest).               *)
(* For the second, what an end does with a frame is summed up as a turn     *)
(* (Turn): the offers it read, the offers it writes, its place before and   *)
(* after.  Pair says how two ends and the offers on their way fit together, *)
(* and every turn of either end keeps it.                                   *)
(***************************************************************************)
EXTENDS Wire, FiniteSetTheorems, WellFoundedInduction, TLAPS

\* The fields of an end's locals, and of what it does next.
Local == {"me", "pc", "err", "round", "version", "peerMax", "peerFlags", "hellos", "auth", "keys", "sealing",
          "tx", "rx", "at", "todo", "offer", "rows", "count", "peerf", "adv", "remote", "after", "pulls", "phase",
          "want", "left", "got", "tries", "enq", "chunks", "put", "rejections"}
IsEnd(x) == x = [k \in Local |-> x[k]]
IsDeed(d) == d = [k \in {"x", "out", "agree"} |-> d[k]]

\* Where an end is after the handshake.
Open == {"offer", "echo", "offer_advert", "echo_advert", "serve", "batch", "packs", "bye", "done", "failed"}

\* What the handshake left is as it was.
Same(x, y) ==
  /\ IsEnd(y) /\ y.me = x.me /\ y.keys = x.keys /\ y.hellos = x.hellos
  /\ y.version = x.version /\ y.sealing = x.sealing

\* An end past the handshake goes on.
Keeps(x, d) == IsDeed(d) /\ Same(x, d.x) /\ d.x.pc \in Open

IsSeq(q) == \E S : q \in Seq(S)
IsFrame(f) == f = [k \in {"type", "v", "sealed", "seq", "bad"} |-> f[k]]
IsStream(q) == IsSeq(q) /\ \A i \in 1 .. Len(q) : IsFrame(q[i])

\* Both ends have their locals.
Ends ==
  /\ s = [e \in End |-> s[e]] /\ chan = [e \in End |-> chan[e]]
  /\ \A e \in End : /\ IsEnd(s[e]) /\ s[e].me = e
                    /\ s[e].keys # <<>> => s[e].pc \in Open

\* The proofs, as their senders made them; the frames around them may have been
\* changed.
Init2R == SealAuth("I", "i2r", s["I"].hellos)
Confirm == SealAuth("R", "r2i", s["R"].hellos)

\* What an end knows of the session it is in.
Hellos ==
  /\ s["I"].hellos # <<>> => s["I"].hellos[2].v.agreed = s["I"].version
  /\ s["R"].hellos # <<>> => s["R"].hellos[2].v.agreed = s["R"].version
  /\ s["R"].pc = "auth" => s["R"].hellos # <<>>

\* A responder with keys has seen the initiator's own proof.
RespondsTo ==
  s["R"].keys # <<>> =>
    /\ s["I"].hellos # <<>> /\ s["R"].hellos = s["I"].hellos
    /\ KdfHandshake("R", s["R"].hellos) = KdfHandshake("I", s["I"].hellos)
    /\ s["R"].keys.prk = KdfHandshake("R", s["R"].hellos)
    /\ cfg.expect["R"] = cfg.id["I"]

\* An initiator with keys has seen the responder's.
Initiates ==
  s["I"].keys # <<>> =>
    /\ s["R"].keys # <<>>
    /\ s["I"].keys.prk = KdfHandshake("I", s["I"].hellos)
    /\ cfg.expect["I"] = cfg.id["R"]

\* Until the initiator has keys, nothing but the handshake is on its way to the
\* responder, and nothing but a goodbye after the initiator's proof.
ToR ==
  LET q == chan["R"] IN
  /\ IsStream(q)
  /\ \A i \in 1 .. Len(q) :
       /\ q[i].type \in {"hello", "auth_init", "bye"}
       /\ q[i].type = "auth_init" =>
            /\ s["I"].hellos # <<>> /\ s["R"].keys = <<>>
            /\ ~q[i].bad => q[i].v.proof = Init2R
            /\ \A j \in 1 .. Len(q) : i < j => q[j].type = "bye"
       /\ s["R"].keys # <<>> => q[i].type = "bye"

\* Until then, a proof that arrives unchanged is the one the responder made.
ToI ==
  LET q == chan["I"] IN
  /\ IsStream(q)
  /\ \A i \in 1 .. Len(q) : q[i].type = "auth_confirm" /\ ~q[i].bad => s["R"].keys # <<>> /\ q[i].v.proof = Confirm

\* The handshake, as long as the initiator has no keys.
Shaking ==
  s["I"].keys = <<>> =>
    /\ s["I"].pc \in {"ack", "confirm", "failed"} /\ (s["I"].pc = "ack" => s["I"].hellos = <<>>)
    /\ s["I"].pc = "confirm" => s["I"].hellos # <<>>
    /\ s["R"].keys = <<>> => s["R"].pc \in {"hello", "auth", "failed"}
    /\ s["R"].keys # <<>> => s["R"].pc \in {"offer", "failed"}
    /\ ToR /\ ToI

Inv == Ends /\ Hellos /\ RespondsTo /\ Initiates /\ Shaking

-----------------------------------------------------------------------------
(* After the handshake: no operator touches what it left.                   *)

\* Going on from a later state of the same end.
LEMMA KeepsOn ==
  ASSUME NEW x, NEW y, NEW d, Same(x, y), Keeps(y, d)
  PROVE  Keeps(x, d)
BY DEF Same, Keeps

\* What an end does, said with Does.
LEMMA DoesKeeps ==
  ASSUME NEW x, NEW y, NEW out, Same(x, y), y.pc \in Open
  PROVE  Keeps(x, Does(y, out))
<1>1. IsDeed(Does(y, out)) /\ Does(y, out).x = y
  BY DEF IsDeed, Does
<1> QED
  BY <1>1 DEF Keeps

\* More frames before the others.
LEMMA OutKeeps ==
  ASSUME NEW x, NEW d, NEW out, Keeps(x, d)
  PROVE  Keeps(x, [d EXCEPT !.out = out]) /\ Keeps(x, [d EXCEPT !.agree = out])
<1>1. /\ IsDeed([d EXCEPT !.out = out]) /\ [d EXCEPT !.out = out].x = d.x
      /\ IsDeed([d EXCEPT !.agree = out]) /\ [d EXCEPT !.agree = out].x = d.x
  BY DEF Keeps, IsDeed
<1> QED
  BY <1>1 DEF Keeps

\* An error.
LEMMA FailKeeps ==
  ASSUME NEW x, IsEnd(x), NEW err
  PROVE  Keeps(x, Fails(x, err)) /\ Keeps(x, Abort(x, err))
<1> DEFINE y == [x EXCEPT !.pc = "failed", !.err = err]
<1>1. Same(x, y) /\ y.pc = "failed"
  BY DEF Same, IsEnd, Local
<1>2. Keeps(x, Fails(x, err))
  BY <1>1, DoesKeeps DEF Fails, Open
<1>3. PICK out : Abort(x, err) = [Fails(x, err) EXCEPT !.out = out]
  BY Zenon DEF Abort
<1>4. Keeps(x, [Fails(x, err) EXCEPT !.out = out])
  BY <1>2, OutKeeps
<1> QED
  BY <1>2, <1>3, <1>4

\* fetch_blobs asks.
LEMMA AskKeeps ==
  ASSUME NEW x, IsEnd(x)
  PROVE  Keeps(x, Ask(x))
<1>1. ASSUME NEW l PROVE Same(x, [x EXCEPT !.pc = "batch", !.left = l]) /\ [x EXCEPT !.pc = "batch", !.left = l].pc = "batch"
  BY DEF Same, IsEnd, Local
<1>2. \E l, out : Ask(x) = Does([x EXCEPT !.pc = "batch", !.left = l], out)
  BY Zenon DEF Ask
<1> QED
  BY <1>1, <1>2, DoesKeeps DEF Open

\* A fetch begins.
LEMMA FetchIs ==
  ASSUME NEW x, IsEnd(x), NEW ph, NEW w
  PROVE  Same(x, Fetch(x, ph, w)) /\ IsEnd(Fetch(x, ph, w)) /\ Fetch(x, ph, w).pc = x.pc
BY DEF Fetch, Same, IsEnd, Local

\* The next folder is announced.
LEMMA NextKeeps ==
  ASSUME NEW x, IsEnd(x)
  PROVE  Keeps(x, AnnounceNext(x))
<1>1. ASSUME NEW f, NEW t
      PROVE  LET y == [x EXCEPT !.pc = "echo", !.at = f, !.todo = t] IN Same(x, y) /\ y.pc = "echo"
  BY DEF Same, IsEnd, Local
<1>2. \E f, t, out : AnnounceNext(x) = Does([x EXCEPT !.pc = "echo", !.at = f, !.todo = t], out)
  BY Zenon DEF AnnounceNext
<1> QED
  BY <1>1, <1>2, DoesKeeps DEF Open

\* exchange_offers begins.
LEMMA RoundKeeps ==
  ASSUME NEW x, IsEnd(x), NEW r
  PROVE  Keeps(x, StartRound(x, r))
<1> DEFINE y == [x EXCEPT !.round = r, !.peerf = <<>>, !.todo = ToSet(cfg.folders[x.me])]
<1>1. Same(x, y) /\ IsEnd(y)
  BY DEF Same, IsEnd, Local
<1>2. Same(x, [y EXCEPT !.pc = "offer"]) /\ [y EXCEPT !.pc = "offer"].pc = "offer"
  <2> HIDE DEF y
  <2> QED BY <1>1 DEF Same, IsEnd, Local
<1>3. StartRound(x, r) = AnnounceNext(y) \/ \E out : StartRound(x, r) = Does([y EXCEPT !.pc = "offer"], out)
  BY Zenon DEF StartRound
<1> HIDE DEF y
<1>4. Keeps(x, AnnounceNext(y))
  BY <1>1, NextKeeps, KeepsOn
<1> QED
  BY <1>2, <1>3, <1>4, DoesKeeps DEF Open

\* The stage goes on.
LEMMA StageKeeps ==
  ASSUME NEW x, IsEnd(x)
  PROVE  Keeps(x, RunStage(x))
<1>1. CASE x.pulls # {}
  <2>1. ASSUME NEW f, NEW p PROVE LET y == [x EXCEPT !.at = f, !.pulls = p] IN Same(x, y) /\ IsEnd(y)
    BY DEF Same, IsEnd, Local
  <2>2. PICK f, p, w : RunStage(x) = Ask(Fetch([x EXCEPT !.at = f, !.pulls = p], "manifest", w))
    BY <1>1, Zenon DEF RunStage
  <2> DEFINE y == [x EXCEPT !.at = f, !.pulls = p]
  <2>3. Same(x, y) /\ IsEnd(y)
    BY <2>1
  <2> HIDE DEF y
  <2>4. Keeps(x, Ask(Fetch(y, "manifest", w)))
    BY <2>3, AskKeeps, FetchIs, KeepsOn
  <2> QED BY <2>2, <2>4 DEF y
<1>2. CASE x.pulls = {}
  <2>1. Same(x, [x EXCEPT !.pc = "serve"]) /\ [x EXCEPT !.pc = "serve"].pc = "serve"
    BY DEF Same, IsEnd, Local
  <2>2. Keeps(x, Does([x EXCEPT !.pc = "serve"], <<>>)) /\ Keeps(x, StartRound(x, 2))
    BY <2>1, DoesKeeps, RoundKeeps DEF Open
  <2>3. PICK d, out : /\ d = Does([x EXCEPT !.pc = "serve"], <<>>) \/ d = StartRound(x, 2)
                      /\ RunStage(x) = [d EXCEPT !.out = out]
    <3> DEFINE next == IF x.me = "I" /\ StageNeeded(x, "R") # {}
                       THEN Does([x EXCEPT !.pc = "serve"], <<>>) ELSE StartRound(x, 2)
    <3>1. RunStage(x) = [next EXCEPT !.out = <<RequestItems(NoFolder, {})>> \o @]
      BY <1>2, Zenon DEF RunStage
    <3>2. next = Does([x EXCEPT !.pc = "serve"], <<>>) \/ next = StartRound(x, 2)
      OBVIOUS
    <3> HIDE DEF next
    <3>3. [next EXCEPT !.out = <<RequestItems(NoFolder, {})>> \o @]
            = [next EXCEPT !.out = <<RequestItems(NoFolder, {})>> \o next.out]
      OBVIOUS
    <3> QED BY <3>1, <3>2, <3>3
  <2>4. Keeps(x, [d EXCEPT !.out = out])
    BY <2>2, <2>3, OutKeeps
  <2> QED BY <2>3, <2>4
<1> QED
  BY <1>1, <1>2

\* After the first offers, after serving, and after a folder.
LEMMA PhasesKeep ==
  ASSUME NEW x, IsEnd(x)
  PROVE  Keeps(x, FolderPhases(x)) /\ Keeps(x, Served(x)) /\ Keeps(x, FolderPulled(x))
<1>1. ASSUME NEW p PROVE Same(x, [x EXCEPT !.pulls = p]) /\ IsEnd([x EXCEPT !.pulls = p])
  BY DEF Same, IsEnd, Local
<1>2. ASSUME NEW p PROVE Keeps(x, RunStage([x EXCEPT !.pulls = p]))
  BY <1>1, StageKeeps, KeepsOn
<1>3. Same(x, [x EXCEPT !.pc = "serve"]) /\ [x EXCEPT !.pc = "serve"].pc = "serve"
  BY DEF Same, IsEnd, Local
<1>4. Keeps(x, Does([x EXCEPT !.pc = "serve"], <<>>)) /\ Keeps(x, StartRound(x, 2))
  BY <1>3, DoesKeeps, RoundKeeps DEF Open
<1>5. Keeps(x, FolderPhases(x))
  BY <1>2, <1>4 DEF FolderPhases
<1>6. Keeps(x, Served(x))
  BY <1>2, <1>4 DEF Served
<1>7. Keeps(x, FolderPulled(x))
  <2>1. ASSUME NEW a
        PROVE  Same(x, [x EXCEPT !.after = a]) /\ IsEnd([x EXCEPT !.after = a])
    BY DEF Same, IsEnd, Local
  <2>2. \E a : FolderPulled(x) = RunStage([x EXCEPT !.after = a])
    BY DEF FolderPulled
  <2> QED BY <2>1, <2>2, StageKeeps, KeepsOn
<1> QED
  BY <1>5, <1>6, <1>7

\* The chunks of a folder, by items or by packs.
LEMMA ChunksKeep ==
  ASSUME NEW x, IsEnd(x), NEW want
  PROVE  Keeps(x, FetchChunks(x, want)) /\ Keeps(x, FetchViaPacks(x, want))
<1>1. Keeps(x, FetchChunks(x, want))
  BY PhasesKeep, AskKeeps, FetchIs, KeepsOn DEF FetchChunks
<1> DEFINE y == Fetch(x, "packs", want)
<1>2. Same(x, y) /\ IsEnd(y)
  BY FetchIs
<1>3. Same(x, [y EXCEPT !.pc = "packs"]) /\ [y EXCEPT !.pc = "packs"].pc = "packs"
  <2> HIDE DEF y
  <2> QED BY <1>2 DEF Same, IsEnd, Local
<1>4. \A out : Keeps(x, Does([y EXCEPT !.pc = "packs"], out))
  BY <1>3, DoesKeeps DEF Open
<1>5. Keeps(x, FetchViaPacks(x, want))
  BY <1>1, <1>4, Zenon DEF FetchViaPacks
<1> QED
  BY <1>1, <1>5

\* pull_folder goes on with what the blobs name.
LEMMA PullKeeps ==
  ASSUME NEW x, IsEnd(x)
  PROVE  Keeps(x, PullFolder(x))
<1>1. ASSUME NEW a, NEW b
      PROVE  Same(x, [x EXCEPT !.enq = a, !.chunks = b]) /\ IsEnd([x EXCEPT !.enq = a, !.chunks = b])
  BY DEF Same, IsEnd, Local
<1>2. ASSUME NEW y, IsEnd(y), Same(x, y), NEW w PROVE Keeps(x, FetchViaPacks(y, w))
  BY <1>2, ChunksKeep, KeepsOn
<1>3. ASSUME NEW y, IsEnd(y), Same(x, y), NEW w PROVE Keeps(x, Ask(Fetch(y, "nodes", w)))
  <2>1. Keeps(Fetch(y, "nodes", w), Ask(Fetch(y, "nodes", w))) /\ Same(y, Fetch(y, "nodes", w))
    BY <1>3, AskKeeps, FetchIs
  <2> QED BY <1>3, <2>1, KeepsOn
<1>4. ASSUME NEW w, NEW a, NEW b PROVE Keeps(x, Ask([Fetch(x, "nodes", w) EXCEPT !.enq = a, !.chunks = b]))
  <2> DEFINE y == Fetch(x, "nodes", w)
  <2>1. Same(x, y) /\ IsEnd(y)
    BY FetchIs
  <2>2. Same(x, [y EXCEPT !.enq = a, !.chunks = b]) /\ IsEnd([y EXCEPT !.enq = a, !.chunks = b])
    <3> HIDE DEF y
    <3> QED BY <2>1 DEF Same, IsEnd, Local
  <2> HIDE DEF y
  <2>3. Keeps(x, Ask([y EXCEPT !.enq = a, !.chunks = b]))
    BY <2>2, AskKeeps, KeepsOn
  <2> QED BY <2>3 DEF y
<1>5. Keeps(x, FolderPulled(x))
  BY PhasesKeep
<1>6. \/ \E w, a, b : PullFolder(x) = Ask([Fetch(x, "nodes", w) EXCEPT !.enq = a, !.chunks = b])
      \/ \E w, a, b : PullFolder(x) = Ask(Fetch([x EXCEPT !.enq = a, !.chunks = b], "nodes", w))
      \/ \E w, a, b : PullFolder(x) = FetchViaPacks([x EXCEPT !.enq = a, !.chunks = b], w)
      \/ PullFolder(x) = FolderPulled(x)
  BY DEF PullFolder
<1> QED
  BY <1>1, <1>2, <1>3, <1>4, <1>5, <1>6

\* The end of an answer in fetch_blobs.
LEMMA BlobsKeep ==
  ASSUME NEW x, IsEnd(x)
  PROVE  Keeps(x, FetchBlobs(x))
<1>1. ASSUME NEW l, NEW t PROVE Keeps(x, Ask([x EXCEPT !.left = l, !.tries = t]))
  <2>1. Same(x, [x EXCEPT !.left = l, !.tries = t]) /\ IsEnd([x EXCEPT !.left = l, !.tries = t])
    BY DEF Same, IsEnd, Local
  <2> QED BY <2>1, AskKeeps, KeepsOn
<1>2. Keeps(x, Ask(x)) /\ Keeps(x, PullFolder(x)) /\ Keeps(x, Abort(x, "missing"))
  BY AskKeeps, PullKeeps, FailKeeps
<1>3. \/ FetchBlobs(x) \in {Ask(x), PullFolder(x), Abort(x, "missing")}
      \/ FetchBlobs(x) = Ask([x EXCEPT !.left = x.want \ x.got, !.tries = x.tries + 1])
  BY DEF FetchBlobs
<1> QED
  BY <1>1, <1>2, <1>3

\* What arrived is noted.
LEMMA ReadIs ==
  ASSUME NEW x, IsEnd(x), NEW v
  PROVE  /\ Same(x, ReadItems(x, v)) /\ ReadItems(x, v).pc = x.pc
         /\ Same(x, ReadPack(x, v)) /\ ReadPack(x, v).pc = x.pc
<1>1. PICK a, b, c : ReadItems(x, v) = [x EXCEPT !.put = a, !.got = b, !.rejections = c]
  BY DEF ReadItems
<1>2. PICK a1, b1, c1 : \/ ReadPack(x, v) = [x EXCEPT !.rejections = c1]
                        \/ ReadPack(x, v) = [x EXCEPT !.put = a1, !.got = b1]
  BY DEF ReadPack
<1>3. /\ Same(x, [x EXCEPT !.put = a, !.got = b, !.rejections = c])
      /\ [x EXCEPT !.put = a, !.got = b, !.rejections = c].pc = x.pc
  BY DEF Same, IsEnd, Local
<1>4. /\ Same(x, [x EXCEPT !.rejections = c1]) /\ [x EXCEPT !.rejections = c1].pc = x.pc
      /\ Same(x, [x EXCEPT !.put = a1, !.got = b1]) /\ [x EXCEPT !.put = a1, !.got = b1].pc = x.pc
  BY DEF Same, IsEnd, Local
<1> QED
  BY <1>1, <1>2, <1>3, <1>4

\* The end of a round.
LEMMA EndKeeps ==
  ASSUME NEW x, IsEnd(x)
  PROVE  Keeps(x, EndRound(x))
<1>1. Keeps(x, FinishAfterSync(x))
  <2>1. Same(x, [x EXCEPT !.pc = "bye"]) /\ [x EXCEPT !.pc = "bye"].pc = "bye"
    BY DEF Same, IsEnd, Local
  <2>2. PICK out, a : FinishAfterSync(x) = [Does([x EXCEPT !.pc = "bye"], out) EXCEPT !.agree = a]
    BY Zenon DEF FinishAfterSync
  <2>3. Keeps(x, Does([x EXCEPT !.pc = "bye"], out))
    BY <2>1, DoesKeeps DEF Open
  <2>4. Keeps(x, [Does([x EXCEPT !.pc = "bye"], out) EXCEPT !.agree = a])
    BY <2>3, OutKeeps
  <2> QED BY <2>2, <2>4
<1>2. Same(x, [x EXCEPT !.remote = x.peerf]) /\ IsEnd([x EXCEPT !.remote = x.peerf])
  BY DEF Same, IsEnd, Local
<1>3. Keeps(x, FolderPhases([x EXCEPT !.remote = x.peerf]))
  BY <1>2, PhasesKeep, KeepsOn
<1> QED
  BY <1>1, <1>3 DEF EndRound

\* The next announcement.
LEMMA OffersKeep ==
  ASSUME NEW x, IsEnd(x)
  PROVE  Keeps(x, OffersLeft(x))
<1>1. ASSUME NEW out PROVE Keeps(x, Does([x EXCEPT !.pc = "offer"], out)) /\ Keeps(x, AnnounceNext(x))
  <2>1. Same(x, [x EXCEPT !.pc = "offer"]) /\ [x EXCEPT !.pc = "offer"].pc = "offer"
    BY DEF Same, IsEnd, Local
  <2> QED BY <2>1, DoesKeeps, NextKeeps DEF Open
<1>2. Keeps(x, [EndRound(x) EXCEPT !.out = <<Sentinel>> \o EndRound(x).out])
  BY EndKeeps, OutKeeps
<1>3. [EndRound(x) EXCEPT !.out = <<Sentinel>> \o @] = [EndRound(x) EXCEPT !.out = <<Sentinel>> \o EndRound(x).out]
  OBVIOUS
<1> QED
  BY <1>1, <1>2, <1>3 DEF OffersLeft

\* An offer is consumed.
LEMMA ConsumeKeeps ==
  ASSUME NEW x, IsEnd(x)
  PROVE  Keeps(x, Consume(x))
<1>1. Same(x, Noted(x)) /\ IsEnd(Noted(x))
  <2>1. ASSUME NEW a, NEW b
        PROVE  Same(x, [x EXCEPT !.peerf = a, !.adv = b]) /\ IsEnd([x EXCEPT !.peerf = a, !.adv = b])
    BY DEF Same, IsEnd, Local
  <2>2. PICK a, b : Noted(x) = [x EXCEPT !.peerf = a, !.adv = b]
    BY Zenon DEF Noted
  <2>3. Same(x, [x EXCEPT !.peerf = a, !.adv = b]) /\ IsEnd([x EXCEPT !.peerf = a, !.adv = b])
    BY <2>1
  <2> QED BY <2>2, <2>3
<1>2. Keeps(x, ConsumeAnnouncement(x))
  <2>1. Same(x, [Noted(x) EXCEPT !.pc = "offer"]) /\ [Noted(x) EXCEPT !.pc = "offer"].pc = "offer"
    BY <1>1 DEF Same, IsEnd, Local
  <2> QED BY <2>1, DoesKeeps DEF ConsumeAnnouncement, Open
<1>3. Keeps(x, ConsumeEcho(x))
  BY <1>1, OffersKeep, KeepsOn DEF ConsumeEcho
<1> QED
  BY <1>2, <1>3 DEF Consume

\* An offer and its rows arrive.
LEMMA OnOfferKeeps ==
  ASSUME NEW x, IsEnd(x), NEW v
  PROVE  Keeps(x, OnOffer(x, v))
<1> DEFINE y == [x EXCEPT !.offer = v, !.rows = {}, !.count = 0]
<1>1. Same(x, y) /\ IsEnd(y)
  BY DEF Same, IsEnd, Local
<1>2. Keeps(x, EndRound(x))
  BY EndKeeps
<1>3. Same(x, [x EXCEPT !.todo = Unseen(x)]) /\ IsEnd([x EXCEPT !.todo = Unseen(x)])
  BY DEF Same, IsEnd, Local
<1>4. Keeps(x, OffersLeft([x EXCEPT !.todo = Unseen(x)]))
  BY <1>3, OffersKeep, KeepsOn
<1>5. ASSUME NEW q \in {"echo_advert", "offer_advert"} PROVE Keeps(x, Does([y EXCEPT !.pc = q], <<>>))
  <2> HIDE DEF y
  <2>1. Same(x, [y EXCEPT !.pc = q]) /\ [y EXCEPT !.pc = q].pc = q
    BY <1>1 DEF Same, IsEnd, Local
  <2> QED BY <2>1, DoesKeeps DEF Open
<1>6. Keeps(x, Consume(y))
  <2> HIDE DEF y
  <2> QED BY <1>1, ConsumeKeeps, KeepsOn
<1>7. \/ OnOffer(x, v) = EndRound(x) \/ OnOffer(x, v) = OffersLeft([x EXCEPT !.todo = Unseen(x)])
      \/ \E q \in {"echo_advert", "offer_advert"} : OnOffer(x, v) = Does([y EXCEPT !.pc = q], <<>>)
      \/ OnOffer(x, v) = Consume(y)
  BY Zenon DEF OnOffer
<1> HIDE DEF y
<1> QED
  BY <1>2, <1>4, <1>5, <1>6, <1>7

\* More rows of the location table.
LEMMA OnAdvertKeeps ==
  ASSUME NEW x, IsEnd(x), x.pc \in Open, NEW v
  PROVE  Keeps(x, OnAdvert(x, v))
<1> DEFINE y == [x EXCEPT !.rows = @ \cup v.rows, !.count = @ + Cardinality(v.rows)]
<1>1. Same(x, y) /\ IsEnd(y) /\ y.pc = x.pc
  BY DEF Same, IsEnd, Local
<1>2. OnAdvert(x, v) \in {Abort(x, "limit"), Does(y, <<>>), Consume(y)}
  BY DEF OnAdvert
<1> HIDE DEF y
<1> QED
  BY <1>1, <1>2, FailKeeps, DoesKeeps, ConsumeKeeps, KeepsOn

\* Requests, packs and goodbyes.
LEMMA OthersKeep ==
  ASSUME NEW x, IsEnd(x), x.pc \in Open, NEW f
  PROVE  Keeps(x, OnRequest(x, f)) /\ Keeps(x, OnPacks(x, f)) /\ Keeps(x, OnBye(x, f))
<1>1. Same(x, x) /\ \A out : Keeps(x, Does(x, out))
  BY DoesKeeps DEF Same
<1>2. Keeps(x, OnRequest(x, f))
  BY <1>1, PhasesKeep, FailKeeps DEF OnRequest
<1>3. Keeps(x, OnPacks(x, f))
  <2>1. Keeps(x, Does(ReadPack(x, f.v), <<>>))
    BY ReadIs, DoesKeeps
  <2> QED BY <2>1, ChunksKeep, FailKeeps DEF OnPacks
<1>4. Keeps(x, OnBye(x, f))
  <2>1. Same(x, [x EXCEPT !.pc = "done"]) /\ [x EXCEPT !.pc = "done"].pc = "done"
    BY DEF Same, IsEnd, Local
  <2>2. \A out : Keeps(x, Does([x EXCEPT !.pc = "done"], out))
    BY <2>1, DoesKeeps DEF Open
  <2> QED BY <2>2, FailKeeps, Zenon DEF OnBye
<1> QED
  BY <1>2, <1>3, <1>4

\* Every frame after the handshake.
LEMMA HandleKeeps ==
  ASSUME NEW x, IsEnd(x), x.pc \in Open \ {"done", "failed"}, NEW f
  PROVE  Keeps(x, Handle(x, f))
<1>1. Same(x, x) /\ Keeps(x, Does(x, <<>>)) /\ \A err : Keeps(x, Abort(x, err))
  BY DoesKeeps, FailKeeps DEF Same
<1>2. Keeps(x, OnOffer(x, f.v)) /\ Keeps(x, OnAdvert(x, f.v)) /\ Keeps(x, FetchBlobs(x))
  BY OnOfferKeeps, OnAdvertKeeps, BlobsKeep
<1>3. Keeps(x, OnRequest(x, f)) /\ Keeps(x, OnPacks(x, f)) /\ Keeps(x, OnBye(x, f))
  BY OthersKeep
<1>4. Keeps(x, Does(ReadItems(x, f.v), <<>>))
  BY ReadIs, DoesKeeps
<1>5. f.type \in Expected(x) =>
        f.type \in {"offer", "advert", "bye"} \/ x.pc \in {"serve", "batch", "packs"}
  BY DEF Expected, Open
<1> QED
  BY <1>1, <1>2, <1>3, <1>4, <1>5 DEF Handle

-----------------------------------------------------------------------------
(* Frames and streams.                                                      *)

\* A sequence of a larger set.
LEMMA WiderSeq ==
  ASSUME NEW S, NEW T, S \subseteq T, NEW q \in Seq(S)
  PROVE  q \in Seq(T)
<1>1. PICK n \in Nat : q \in [1 .. n -> S]
  OBVIOUS
<1>2. q \in [1 .. n -> T]
  BY <1>1
<1> QED
  BY <1>2

\* A frame has been read.
LEMMA StreamTail ==
  ASSUME NEW q, IsStream(q), q # <<>>
  PROVE  /\ 1 \in 1 .. Len(q) /\ Head(q) = q[1] /\ IsFrame(Head(q))
         /\ IsStream(Tail(q)) /\ \A i \in 1 .. Len(Tail(q)) : i + 1 \in 1 .. Len(q) /\ Tail(q)[i] = q[i + 1]
<1>1. PICK S : q \in Seq(S)
  BY DEF IsStream, IsSeq
<1>2. Len(q) \in Nat \ {0} /\ Head(q) = q[1] /\ Tail(q) \in Seq(S) /\ Len(Tail(q)) = Len(q) - 1
  BY <1>1
<1>3. \A i \in 1 .. Len(Tail(q)) : i + 1 \in 1 .. Len(q) /\ Tail(q)[i] = q[i + 1]
  BY <1>1, <1>2
<1> QED
  BY <1>2, <1>3 DEF IsStream, IsSeq

\* A frame has been changed.
LEMMA StreamPut ==
  ASSUME NEW q, IsStream(q), q # <<>>, NEW f, IsFrame(f)
  PROVE  /\ IsStream(<<f>> \o Tail(q)) /\ Len(<<f>> \o Tail(q)) = Len(q)
         /\ (<<f>> \o Tail(q))[1] = f
         /\ \A i \in 1 .. Len(q) : i # 1 => (<<f>> \o Tail(q))[i] = q[i]
<1>1. PICK S : q \in Seq(S)
  BY DEF IsStream, IsSeq
<1> DEFINE T == S \cup {f}
<1>2. q \in Seq(T) /\ <<f>> \in Seq(T)
  <2>1. S \subseteq T /\ f \in T
    OBVIOUS
  <2> HIDE DEF T
  <2> QED BY <1>1, <2>1, WiderSeq
<1> HIDE DEF T
<1>3. Tail(q) \in Seq(T) /\ Len(q) \in Nat \ {0} /\ Len(Tail(q)) = Len(q) - 1
      /\ \A i \in 1 .. Len(q) - 1 : Tail(q)[i] = q[i + 1]
  BY <1>2
<1>4. <<f>> \o Tail(q) \in Seq(T) /\ Len(<<f>> \o Tail(q)) = Len(q)
  BY <1>2, <1>3
<1>5. (<<f>> \o Tail(q))[1] = f
  BY <1>2, <1>3
<1>6. ASSUME NEW i \in 1 .. Len(q), i # 1 PROVE (<<f>> \o Tail(q))[i] = q[i]
  <2>1. i - 1 \in 1 .. Len(q) - 1 /\ Tail(q)[i - 1] = q[i]
    BY <1>3, <1>6
  <2>2. (<<f>> \o Tail(q))[i] = Tail(q)[i - 1]
    BY <1>2, <1>3, <1>6, <2>1
  <2> QED BY <2>1, <2>2
<1> QED
  BY <1>4, <1>5, <1>6 DEF IsStream, IsSeq

\* A frame has been sent.
LEMMA StreamAdd ==
  ASSUME NEW q, IsStream(q), NEW f, IsFrame(f)
  PROVE  /\ IsStream(q \o <<f>>) /\ Len(q) \in Nat /\ Len(q \o <<f>>) = Len(q) + 1
         /\ (q \o <<f>>)[Len(q) + 1] = f
         /\ \A i \in 1 .. Len(q) : (q \o <<f>>)[i] = q[i]
<1>1. PICK S : q \in Seq(S)
  BY DEF IsStream, IsSeq
<1> DEFINE T == S \cup {f}
<1>2. q \in Seq(T) /\ <<f>> \in Seq(T)
  <2>1. S \subseteq T /\ f \in T
    OBVIOUS
  <2> HIDE DEF T
  <2> QED BY <1>1, <2>1, WiderSeq
<1> HIDE DEF T
<1>3. q \o <<f>> \in Seq(T) /\ Len(q) \in Nat /\ Len(q \o <<f>>) = Len(q) + 1
  BY <1>2
<1>4. (q \o <<f>>)[Len(q) + 1] = f /\ \A i \in 1 .. Len(q) : (q \o <<f>>)[i] = q[i]
  BY <1>2, <1>3
<1>5. ASSUME NEW i \in 1 .. Len(q \o <<f>>) PROVE IsFrame((q \o <<f>>)[i])
  BY <1>3, <1>4 DEF IsStream
<1> QED
  BY <1>3, <1>4, <1>5 DEF IsStream, IsSeq

\* The rest is lost.
LEMMA StreamCut ==
  ASSUME NEW q, IsStream(q), NEW n \in 0 .. Len(q)
  PROVE  /\ IsStream(SubSeq(q, 1, n))
         /\ \A i \in 1 .. Len(SubSeq(q, 1, n)) : i \in 1 .. Len(q) /\ SubSeq(q, 1, n)[i] = q[i]
<1>1. PICK S : q \in Seq(S)
  BY DEF IsStream, IsSeq
<1>2. SubSeq(q, 1, n) \in Seq(S) /\ Len(SubSeq(q, 1, n)) = n /\ Len(q) \in Nat
  BY <1>1
<1>3. \A i \in 1 .. n : i \in 1 .. Len(q) /\ SubSeq(q, 1, n)[i] = q[i]
  BY <1>1, <1>2
<1> QED
  BY <1>2, <1>3 DEF IsStream, IsSeq

\* Nothing on its way.
LEMMA StreamNone == IsStream(<<>>) /\ Len(<<>>) = 0
<1>1. <<>> \in Seq({}) /\ Len(<<>>) = 0
  OBVIOUS
<1> QED
  BY <1>1 DEF IsStream, IsSeq

\* The frame that goes out.
SealOne(x, f) == IF PreAuth(f) THEN f ELSE [f EXCEPT !.sealed = Cipher(x), !.seq = x.tx + 1 - 1]

\* Frames are sealed, the ones of the handshake are not.
LEMMA Seals ==
  ASSUME NEW x, NEW f, IsFrame(f)
  PROVE  /\ SealFrames(x, <<f>>) = <<SealOne(x, f)>>
         /\ IsFrame(SealOne(x, f)) /\ SealOne(x, f).type = f.type
         /\ PreAuth(f) => SealOne(x, f) = f
<1> DEFINE G(i) == IF PreAuth(<<f>>[i]) THEN <<f>>[i]
                   ELSE [<<f>>[i] EXCEPT !.sealed = Cipher(x), !.seq = x.tx + i - 1]
<1>1. SealFrames(x, <<f>>) = [i \in DOMAIN <<f>> |-> G(i)]
  BY Zenon DEF SealFrames
<1>2. DOMAIN <<f>> = {1} /\ G(1) = SealOne(x, f)
  BY DEF SealOne
<1>3. SealFrames(x, <<f>>) = <<SealOne(x, f)>>
  <2> HIDE DEF G
  <2> QED BY <1>1, <1>2
<1>4. IsFrame(SealOne(x, f)) /\ SealOne(x, f).type = f.type /\ (PreAuth(f) => SealOne(x, f) = f)
  BY DEF IsFrame, SealOne
<1> QED
  BY <1>3, <1>4

\* No frames.
LEMMA SealsNone ==
  ASSUME NEW x
  PROVE  SealFrames(x, <<>>) = <<>>
BY DEF SealFrames

\* The frames an end makes.
LEMMA FramesAre ==
  ASSUME NEW t, NEW v
  PROVE  IsFrame(Frame(t, v)) /\ Frame(t, v).type = t /\ Frame(t, v).v = v
BY DEF Frame, IsFrame

\* Keys are keys.
LEMMA KeysAre ==
  ASSUME NEW e, NEW h, NEW a
  PROVE  TrafficKeys(e, h, a) # <<>>
<1>1. "prk" \in DOMAIN TrafficKeys(e, h, a)
  BY DEF TrafficKeys
<1> QED BY <1>1

-----------------------------------------------------------------------------
(* Steps.                                                                   *)

\* What an end does takes effect.
LEMMA Acts ==
  ASSUME Ends, NEW e \in End, NEW d, NEW rest, IsDeed(d), IsEnd(d.x), Act(e, d, rest)
  PROVE  /\ s' = [a \in End |-> s'[a]] /\ chan' = [a \in End |-> chan'[a]]
         /\ \A a \in End : a # e => s'[a] = s[a] /\ a = Other(e)
         /\ Same(d.x, s'[e]) /\ s'[e].pc = d.x.pc
         /\ chan'[e] = rest
         /\ \/ chan'[Other(e)] = chan[Other(e)]
            \/ chan'[Other(e)] = chan[Other(e)] \o SealFrames(d.x, d.out)
<1> DEFINE n == d.x.tx + Sealed(d.out)
           y == [d.x EXCEPT !.tx = n, !.put = {}]
           more == IF broken THEN chan[Other(e)] ELSE chan[Other(e)] \o SealFrames(d.x, d.out)
<1>1. s' = [s EXCEPT ![e] = y]
  BY DEF Act
<1>2. Same(d.x, y) /\ y.pc = d.x.pc
  <2> HIDE DEF n
  <2> QED BY DEF Same, IsEnd, Local
<1>3. Other(e) \in End /\ Other(e) # e /\ \A a \in End : a # e => a = Other(e)
  BY DEF End, Other
<1>4. chan' = [[chan EXCEPT ![e] = rest] EXCEPT ![Other(e)] = more]
  <2>1. [chan EXCEPT ![e] = rest][Other(e)] = chan[Other(e)]
    BY <1>3 DEF Ends
  <2> QED BY <2>1 DEF Act
<1> HIDE DEF y, more, n
<1>5. s' = [a \in End |-> IF a = e THEN y ELSE s[a]]
  BY <1>1 DEF Ends
<1>6. chan' = [a \in End |-> IF a = Other(e) THEN more ELSE IF a = e THEN rest ELSE chan[a]]
  BY <1>3, <1>4 DEF Ends
<1>7. s'[e] = y /\ chan'[e] = rest /\ chan'[Other(e)] = more
  BY <1>3, <1>5, <1>6
<1>8. s' = [a \in End |-> s'[a]] /\ chan' = [a \in End |-> chan'[a]]
  BY <1>5, <1>6
<1>9. \A a \in End : a # e => s'[a] = s[a] /\ a = Other(e)
  BY <1>3, <1>5
<1> QED
  BY <1>2, <1>7, <1>8, <1>9 DEF more

\* What the handshake left carries over.
LEMMA Carried ==
  ASSUME Inv, UNCHANGED cfg, s' = [a \in End |-> s'[a]], chan' = [a \in End |-> chan'[a]],
         \A e \in End : /\ Same(s[e], s'[e])
                        /\ s[e].keys # <<>> => s'[e].pc \in Open
                        /\ s'[e].pc = "auth" => s[e].pc = "auth"
  PROVE  /\ Ends' /\ Hellos' /\ RespondsTo' /\ Initiates'
         /\ Init2R' = Init2R /\ Confirm' = Confirm
<1>1. Same(s["I"], s'["I"]) /\ Same(s["R"], s'["R"]) /\ (s'["R"].pc = "auth" => s["R"].pc = "auth")
  BY DEF End
<1>2. Ends'
  BY DEF Inv, Ends, Same
<1>3. Init2R' = Init2R /\ Confirm' = Confirm
  BY <1>1 DEF Same, Init2R, Confirm, SealAuth, KdfHandshake
<1>4. Hellos'
  BY <1>1, <1>3 DEF Inv, Hellos, Same
<1>5. RespondsTo'
  BY <1>1, <1>3 DEF Inv, RespondsTo, Same, TrafficKeys, KdfHandshake
<1>6. Initiates'
  BY <1>1, <1>3 DEF Inv, Initiates, Same, TrafficKeys, KdfHandshake
<1> QED
  BY <1>2, <1>3, <1>4, <1>5, <1>6

\* Once the initiator has keys, there is nothing more to say.
LEMMA KeyedStep ==
  ASSUME Inv, s["I"].keys # <<>>, UNCHANGED cfg, s' = [a \in End |-> s'[a]], chan' = [a \in End |-> chan'[a]],
         \A e \in End : Same(s[e], s'[e]) /\ s'[e].pc \in Open
  PROVE  Inv'
<1>1. Ends' /\ Hellos' /\ RespondsTo' /\ Initiates'
  BY Carried DEF Open
<1>2. s'["I"].keys # <<>>
  BY DEF Same, End
<1> QED
  BY <1>1, <1>2 DEF Inv, Shaking

\* Fewer frames, or changed ones, on their way to the responder.
LEMMA ToRLess ==
  ASSUME ToR, NEW n \in Nat, IsStream(chan'["R"]), Init2R' = Init2R,
         s'["I"].hellos = s["I"].hellos, s'["R"].keys = s["R"].keys,
         \A i \in 1 .. Len(chan'["R"]) :
           /\ i + n \in 1 .. Len(chan["R"]) /\ chan'["R"][i].type = chan["R"][i + n].type
           /\ \/ chan'["R"][i].bad \/ chan'["R"][i].type # "auth_init"
              \/ chan'["R"][i].v.proof = chan["R"][i + n].v.proof /\ chan'["R"][i].bad = chan["R"][i + n].bad
  PROVE  ToR'
<1> DEFINE q == chan["R"]
           r == chan'["R"]
<1>1. SUFFICES ASSUME NEW i \in 1 .. Len(r)
               PROVE  /\ r[i].type \in {"hello", "auth_init", "bye"}
                      /\ r[i].type = "auth_init" =>
                           /\ s["I"].hellos # <<>> /\ s["R"].keys = <<>>
                           /\ ~r[i].bad => r[i].v.proof = Init2R
                           /\ \A j \in 1 .. Len(r) : i < j => r[j].type = "bye"
                      /\ s["R"].keys # <<>> => r[i].type = "bye"
  BY DEF ToR
<1>2. i + n \in 1 .. Len(q) /\ r[i].type = q[i + n].type
  OBVIOUS
<1>3. ASSUME r[i].type = "auth_init", NEW j \in 1 .. Len(r), i < j PROVE r[j].type = "bye"
  <2>1. i + n < j + n /\ j + n \in 1 .. Len(q) /\ r[j].type = q[j + n].type
    BY <1>3
  <2> QED BY <1>2, <1>3, <2>1 DEF ToR
<1> QED
  BY <1>2, <1>3 DEF ToR

\* A goodbye to the responder.
LEMMA ToRBye ==
  ASSUME ToR, NEW g, IsFrame(g), g.type = "bye", chan'["R"] = chan["R"] \o <<g>>, Init2R' = Init2R,
         s'["I"].hellos = s["I"].hellos, s'["R"].keys = s["R"].keys
  PROVE  ToR'
<1> DEFINE q == chan["R"]
           r == chan'["R"]
<1>1. /\ IsStream(r) /\ Len(q) \in Nat /\ Len(r) = Len(q) + 1 /\ r[Len(q) + 1] = g
      /\ \A i \in 1 .. Len(q) : r[i] = q[i]
  <2>1. IsStream(q)
    BY DEF ToR
  <2>2. r = q \o <<g>>
    OBVIOUS
  <2> HIDE DEF q, r
  <2>3. /\ IsStream(q \o <<g>>) /\ Len(q) \in Nat /\ Len(q \o <<g>>) = Len(q) + 1
        /\ (q \o <<g>>)[Len(q) + 1] = g /\ \A i \in 1 .. Len(q) : (q \o <<g>>)[i] = q[i]
    BY <2>1, StreamAdd
  <2> QED BY <2>2, <2>3
<1>2. \A i \in 1 .. Len(r) : i = Len(q) + 1 \/ i \in 1 .. Len(q)
  BY <1>1
<1> HIDE DEF r
<1>3. SUFFICES ASSUME NEW i \in 1 .. Len(r)
               PROVE  /\ r[i].type \in {"hello", "auth_init", "bye"}
                      /\ r[i].type = "auth_init" =>
                           /\ s["I"].hellos # <<>> /\ s["R"].keys = <<>>
                           /\ ~r[i].bad => r[i].v.proof = Init2R
                           /\ \A j \in 1 .. Len(r) : i < j => r[j].type = "bye"
                      /\ s["R"].keys # <<>> => r[i].type = "bye"
  BY <1>1 DEF ToR, r
<1>4. CASE i = Len(q) + 1
  BY <1>1, <1>4
<1>5. CASE i \in 1 .. Len(q)
  <2>1. r[i] = q[i]
    BY <1>1, <1>5
  <2>2. \A j \in 1 .. Len(r) : i < j => r[j].type = "bye" \/ (j \in 1 .. Len(q) /\ r[j] = q[j])
    BY <1>1, <1>2
  <2> QED BY <1>5, <2>1, <2>2 DEF ToR
<1> QED
  BY <1>2, <1>4, <1>5

\* Frames to the initiator: old ones, changed ones, or other than a proof.
LEMMA ToIStep ==
  ASSUME ToI, IsStream(chan'["I"]), Confirm' = Confirm, s["R"].keys # <<>> => s'["R"].keys # <<>>,
         \A i \in 1 .. Len(chan'["I"]) :
           \/ chan'["I"][i].bad \/ chan'["I"][i].type # "auth_confirm"
           \/ \E j \in 1 .. Len(chan["I"]) :
                /\ chan'["I"][i].type = chan["I"][j].type /\ chan'["I"][i].bad = chan["I"][j].bad
                /\ chan'["I"][i].v.proof = chan["I"][j].v.proof
  PROVE  ToI'
BY DEF ToI

\* At most a goodbye, on its way from q to p.
OneBye(out) == out = <<>> \/ \E r : out = <<Bye(r)>>
SentBye(q, p) == p = q \/ \E g : IsFrame(g) /\ g.type = "bye" /\ p = q \o <<g>>

\* A goodbye is sent, or not.
LEMMA ByeSent ==
  ASSUME NEW q, IsStream(q), NEW x, NEW out, OneBye(out), NEW p, p = q \/ p = q \o SealFrames(x, out)
  PROVE  SentBye(q, p)
<1>1. q \o <<>> = q
  <2>1. PICK S : q \in Seq(S)
    BY DEF IsStream, IsSeq
  <2> QED BY <2>1
<1>2. CASE out = <<>>
  BY <1>1, <1>2, SealsNone DEF SentBye
<1>3. CASE \E r : out = <<Bye(r)>>
  <2>1. PICK r : out = <<Bye(r)>>
    BY <1>3
  <2>2. IsFrame(Bye(r)) /\ Bye(r).type = "bye"
    BY FramesAre DEF Bye
  <2>3. /\ SealFrames(x, <<Bye(r)>>) = <<SealOne(x, Bye(r))>>
        /\ IsFrame(SealOne(x, Bye(r))) /\ SealOne(x, Bye(r)).type = "bye"
    BY <2>2, Seals
  <2> QED BY <2>1, <2>3 DEF SentBye
<1> QED
  BY <1>2, <1>3 DEF OneBye

\* An end fails.
LEMMA DeadStep ==
  ASSUME Inv, UNCHANGED cfg, NEW e \in End, NEW d, IsDeed(d), Same(s[e], d.x), d.x.pc = "failed",
         OneBye(d.out),
         NEW rest, (chan[e] = <<>> /\ rest = <<>>) \/ (chan[e] # <<>> /\ rest = Tail(chan[e])),
         Act(e, d, rest)
  PROVE  Inv'
<1>1. Ends /\ IsEnd(d.x)
  BY DEF Inv, Same
<1>2. /\ s' = [a \in End |-> s'[a]] /\ chan' = [a \in End |-> chan'[a]]
      /\ \A a \in End : a # e => s'[a] = s[a] /\ a = Other(e)
      /\ Same(d.x, s'[e]) /\ s'[e].pc = "failed"
      /\ chan'[e] = rest
      /\ \/ chan'[Other(e)] = chan[Other(e)]
         \/ chan'[Other(e)] = chan[Other(e)] \o SealFrames(d.x, d.out)
  BY <1>1, Acts
<1>3. \A a \in End : Same(s[a], s'[a]) /\ (s'[a].pc = "failed" \/ s'[a].pc = s[a].pc)
  <2>1. ASSUME NEW a \in End PROVE Same(s[a], s[a])
    BY <1>1 DEF Ends, Same
  <2>2. Same(s[e], s'[e])
    BY <1>2 DEF Same
  <2> QED BY <1>2, <2>1, <2>2
<1>4. /\ Ends' /\ Hellos' /\ RespondsTo' /\ Initiates'
      /\ Init2R' = Init2R /\ Confirm' = Confirm
  <2>1. \A a \in End : /\ s[a].keys # <<>> => s'[a].pc \in Open
                       /\ s'[a].pc = "auth" => s[a].pc = "auth"
    BY <1>1, <1>3 DEF Ends, Open
  <2> QED BY <1>2, <1>3, <2>1, Carried
<1>5. Shaking'
  <2>1. /\ s'["I"].keys = s["I"].keys /\ s'["R"].keys = s["R"].keys /\ s'["I"].hellos = s["I"].hellos
        /\ "I" \in End /\ "R" \in End
    BY <1>3 DEF Same, End
  <2>2. SUFFICES ASSUME s["I"].keys = <<>> PROVE Shaking'
    BY <2>1 DEF Shaking
  <2>3. ToR /\ ToI /\ IsStream(chan["I"]) /\ IsStream(chan["R"])
    BY <2>2 DEF Inv, Shaking, ToR, ToI
  <2>4. IsStream(rest) /\ \E n \in Nat : \A i \in 1 .. Len(rest) : i + n \in 1 .. Len(chan[e]) /\ rest[i] = chan[e][i + n]
    <3>1. CASE rest = <<>>
      BY <3>1, StreamNone
    <3>2. CASE chan[e] # <<>> /\ rest = Tail(chan[e])
      <4>1. IsStream(chan[e])
        BY <2>3 DEF End
      <4>2. IsStream(Tail(chan[e])) /\ \A i \in 1 .. Len(Tail(chan[e])) : i + 1 \in 1 .. Len(chan[e]) /\ Tail(chan[e])[i] = chan[e][i + 1]
        BY <3>2, <4>1, StreamTail
      <4> QED BY <3>2, <4>2
    <3> QED BY <3>1, <3>2
  <2>5. SentBye(chan[Other(e)], chan'[Other(e)])
    <3>1. IsStream(chan[Other(e)])
      BY <2>3 DEF Other
    <3>2. chan'[Other(e)] = chan[Other(e)] \/ chan'[Other(e)] = chan[Other(e)] \o SealFrames(d.x, d.out)
      BY <1>2
    <3> DEFINE q == chan[Other(e)]
               p == chan'[Other(e)]
               x == d.x
               out == d.out
    <3>3. IsStream(q) /\ OneBye(out) /\ (p = q \/ p = q \o SealFrames(x, out))
      BY <3>1, <3>2
    <3> HIDE DEF p, q, x, out
    <3>4. SentBye(q, p)
      BY <3>3, ByeSent
    <3> QED BY <3>4 DEF p, q
  <2>6. CASE e = "I"
    <3>1. ToR'
      <4>1. CASE chan'["R"] = chan["R"]
        <5>1. Len(chan["R"]) \in Nat
          BY <2>3 DEF IsStream, IsSeq
        <5>2. \A i \in 1 .. Len(chan'["R"]) : i + 0 \in 1 .. Len(chan["R"]) /\ chan'["R"][i] = chan["R"][i + 0]
          BY <4>1, <5>1
        <5> QED BY <1>4, <2>1, <2>3, <4>1, <5>2, ToRLess
      <4>2. CASE chan'["R"] # chan["R"]
        BY <1>4, <2>1, <2>3, <2>5, <2>6, <4>2, ToRBye DEF Other, SentBye
      <4> QED BY <4>1, <4>2
    <3>2. ToI'
      BY <1>2, <1>4, <2>1, <2>3, <2>4, <2>6, ToIStep
    <3> QED BY <1>2, <1>3, <2>1, <2>2, <2>6, <3>1, <3>2 DEF Inv, Shaking
  <2>7. CASE e = "R"
    <3>1. ToR'
      BY <1>2, <1>4, <2>1, <2>3, <2>4, <2>7, ToRLess
    <3>2. ToI'
      <4>1. CASE chan'["I"] = chan["I"]
        BY <1>4, <2>1, <2>3, <4>1, ToIStep
      <4>2. CASE chan'["I"] # chan["I"]
        <5>1. PICK g : IsFrame(g) /\ g.type = "bye" /\ chan'["I"] = chan["I"] \o <<g>>
          BY <2>5, <2>7, <4>2 DEF Other, SentBye
        <5>2. /\ IsStream(chan'["I"]) /\ Len(chan["I"]) \in Nat /\ Len(chan'["I"]) = Len(chan["I"]) + 1
              /\ chan'["I"][Len(chan["I"]) + 1] = g
              /\ \A i \in 1 .. Len(chan["I"]) : chan'["I"][i] = chan["I"][i]
          <6> DEFINE q == chan["I"]
                     r == chan'["I"]
          <6>1. IsStream(q) /\ r = q \o <<g>>
            BY <2>3, <5>1
          <6> HIDE DEF q, r
          <6>2. /\ IsStream(q \o <<g>>) /\ Len(q) \in Nat /\ Len(q \o <<g>>) = Len(q) + 1
                /\ (q \o <<g>>)[Len(q) + 1] = g /\ \A i \in 1 .. Len(q) : (q \o <<g>>)[i] = q[i]
            BY <5>1, <6>1, StreamAdd
          <6>3. /\ IsStream(r) /\ Len(q) \in Nat /\ Len(r) = Len(q) + 1 /\ r[Len(q) + 1] = g
                /\ \A i \in 1 .. Len(q) : r[i] = q[i]
            BY <6>1, <6>2
          <6> QED BY <6>3 DEF q, r
        <5>3. \A i \in 1 .. Len(chan'["I"]) : i = Len(chan["I"]) + 1 \/ i \in 1 .. Len(chan["I"])
          BY <5>2
        <5> QED BY <1>4, <2>1, <2>3, <5>1, <5>2, <5>3, ToIStep
      <4> QED BY <4>1, <4>2
    <3> QED BY <1>2, <1>3, <2>1, <2>2, <2>7, <3>1, <3>2 DEF Inv, Shaking
  <2> QED BY <2>6, <2>7 DEF End
<1> QED
  BY <1>4, <1>5 DEF Inv

\* Errors are failures with at most a goodbye.
LEMMA FailIs ==
  ASSUME NEW x, IsEnd(x), NEW err
  PROVE  /\ IsDeed(Fails(x, err)) /\ Same(x, Fails(x, err).x) /\ Fails(x, err).x.pc = "failed"
         /\ OneBye(Fails(x, err).out)
         /\ IsDeed(Abort(x, err)) /\ Same(x, Abort(x, err).x) /\ Abort(x, err).x.pc = "failed"
         /\ OneBye(Abort(x, err).out)
<1> DEFINE y == [x EXCEPT !.pc = "failed", !.err = err]
           d == Fails(x, err)
<1>1. Same(x, y) /\ y.pc = "failed"
  BY DEF Same, IsEnd, Local
<1>2. d = Does(y, <<>>)
  BY DEF Fails
<1> HIDE DEF y
<1>3. IsDeed(d) /\ d.x = y /\ d.out = <<>>
  BY <1>2 DEF IsDeed, Does
<1>4. PICK r : Abort(x, err) = [d EXCEPT !.out = <<Bye(r)>>]
  BY Zenon DEF Abort
<1> HIDE DEF d
<1>5. IsDeed(Abort(x, err)) /\ Abort(x, err).x = d.x /\ Abort(x, err).out = <<Bye(r)>>
  BY <1>3, <1>4 DEF IsDeed
<1>6. IsDeed(d) /\ Same(x, d.x) /\ d.x.pc = "failed" /\ d.out = <<>>
  BY <1>1, <1>3
<1> QED
  BY <1>5, <1>6 DEF d, OneBye

\* The frames of x are on their way after q, or lost with the connection.
Sent(x, out, q, p) == p = q \/ p = q \o SealFrames(x, out)

\* What one end does, seen from both.
LEMMA ActsBoth ==
  ASSUME Ends, NEW d, NEW x, NEW out, NEW rest, IsDeed(d), d.x = x, d.out = out, IsEnd(x)
  PROVE  /\ Act("I", d, rest) =>
              /\ s' = [a \in End |-> s'[a]] /\ chan' = [a \in End |-> chan'[a]]
              /\ s'["R"] = s["R"] /\ Same(x, s'["I"]) /\ s'["I"].pc = x.pc
              /\ chan'["I"] = rest /\ Sent(x, out, chan["R"], chan'["R"])
         /\ Act("R", d, rest) =>
              /\ s' = [a \in End |-> s'[a]] /\ chan' = [a \in End |-> chan'[a]]
              /\ s'["I"] = s["I"] /\ Same(x, s'["R"]) /\ s'["R"].pc = x.pc
              /\ chan'["R"] = rest /\ Sent(x, out, chan["I"], chan'["I"])
<1>1. "I" \in End /\ "R" \in End /\ Other("I") = "R" /\ Other("R") = "I" /\ "I" # "R"
  BY DEF End, Other
<1>2. ASSUME NEW e \in End, Act(e, d, rest)
      PROVE  /\ s' = [a \in End |-> s'[a]] /\ chan' = [a \in End |-> chan'[a]]
             /\ \A a \in End : a # e => s'[a] = s[a]
             /\ Same(x, s'[e]) /\ s'[e].pc = x.pc
             /\ chan'[e] = rest /\ Sent(x, out, chan[Other(e)], chan'[Other(e)])
  BY <1>2, Acts DEF Sent
<1> QED
  BY <1>1, <1>2

\* At most one more frame.
OneMore(p, q, f) ==
  /\ IsStream(p) /\ Len(q) \in Nat
  /\ \A i \in 1 .. Len(p) : (i \in 1 .. Len(q) /\ p[i] = q[i]) \/ (i = Len(q) + 1 /\ p[i] = f)

\* A frame of the handshake is sent, or lost with the connection.
LEMMA SentOne ==
  ASSUME NEW q, IsStream(q), NEW x, NEW f, IsFrame(f), PreAuth(f), NEW out, out = <<f>>, NEW p, Sent(x, out, q, p)
  PROVE  OneMore(p, q, f)
<1>1. Len(q) \in Nat
  BY DEF IsStream, IsSeq
<1>2. SealFrames(x, <<f>>) = <<f>>
  BY Seals
<1>3. CASE p = q
  BY <1>1, <1>3 DEF OneMore
<1>4. CASE p = q \o <<f>>
  <2>1. /\ IsStream(q \o <<f>>) /\ Len(q \o <<f>>) = Len(q) + 1
        /\ (q \o <<f>>)[Len(q) + 1] = f /\ \A i \in 1 .. Len(q) : (q \o <<f>>)[i] = q[i]
    BY StreamAdd
  <2>2. IsStream(p) /\ Len(p) = Len(q) + 1 /\ p[Len(q) + 1] = f /\ \A i \in 1 .. Len(q) : p[i] = q[i]
    BY <1>4, <2>1
  <2>3. \A i \in 1 .. Len(p) : i \in 1 .. Len(q) \/ i = Len(q) + 1
    BY <1>1, <2>2
  <2> QED BY <1>1, <2>2, <2>3 DEF OneMore
<1> QED
  BY <1>2, <1>3, <1>4 DEF Sent

\* What stays the same when only one end moves.
LEMMA OtherSame ==
  ASSUME Ends, NEW e \in End
  PROVE  Same(s[e], s[e]) /\ IsEnd(s[e]) /\ s[e].me = e
BY DEF Ends, Same

\* HELLO_ACK is accepted: the initiator's proof goes out.
LEMMA ProofSent ==
  ASSUME Inv, UNCHANGED cfg, s["I"].keys = <<>>, s["I"].hellos = <<>>, chan["I"] # <<>>,
         NEW f, NEW y, IsEnd(y), y.me = "I", y.pc = "confirm", y.keys = <<>>, y.version = f.v.agreed,
         NEW h, h[2] = f, h # <<>>, y.hellos = h,
         NEW g, g = AuthProof("auth_init", f.v.agreed, SealAuth("I", "i2r", h)), NEW out, out = <<g>>,
         NEW d, IsDeed(d), d.x = y, d.out = out, Act("I", d, Tail(chan["I"]))
  PROVE  Inv'
<1>2. Ends /\ "I" \in End /\ "R" \in End
  BY DEF Inv, End
<1>3. /\ s' = [a \in End |-> s'[a]] /\ chan' = [a \in End |-> chan'[a]] /\ s'["R"] = s["R"]
      /\ Same(y, s'["I"]) /\ s'["I"].pc = "confirm" /\ chan'["I"] = Tail(chan["I"])
      /\ Sent(y, out, chan["R"], chan'["R"])
  BY <1>2, ActsBoth
<1>4. s["R"].keys = <<>> /\ ToR /\ ToI /\ (s["R"].pc \in {"hello", "auth", "failed"})
  BY DEF Inv, RespondsTo, Shaking
<1>5. /\ s'["I"].keys = <<>> /\ s'["I"].hellos = h /\ s'["I"].version = h[2].v.agreed
      /\ s'["I"].me = "I" /\ IsEnd(s'["I"]) /\ h # <<>>
  BY <1>3 DEF Same
<1>6. Ends'
  BY <1>2, <1>3, <1>5 DEF Ends, End
<1>7. Init2R' = SealAuth("I", "i2r", h) /\ Confirm' = Confirm
  BY <1>3, <1>5 DEF Init2R, Confirm, SealAuth, KdfHandshake
<1>8. Hellos'
  BY <1>3, <1>5, <1>7 DEF Inv, Hellos
<1>9. RespondsTo' /\ Initiates'
  BY <1>3, <1>4, <1>5 DEF RespondsTo, Initiates
<1>10. ToR'
  <2> DEFINE q == chan["R"]
             p == chan'["R"]
  <2>1. IsFrame(g) /\ PreAuth(g) /\ g.type = "auth_init" /\ g.v.proof = SealAuth("I", "i2r", h) /\ IsStream(q)
    <3> DEFINE pr == SealAuth("I", "i2r", h)
    <3> HIDE DEF pr
    <3>1. g = AuthProof("auth_init", f.v.agreed, pr)
      BY DEF pr
    <3>2. IsFrame(g) /\ g.type = "auth_init" /\ g.v.proof = pr
      BY <3>1, FramesAre DEF AuthProof
    <3> QED BY <1>4, <3>2 DEF PreAuth, ToR, pr
  <2>2. Sent(y, out, q, p)
    BY <1>3
  <2>3. \A i \in 1 .. Len(q) : q[i].type \in {"hello", "bye"}
    BY <1>4 DEF ToR
  <2>4. /\ IsStream(p) /\ Len(q) \in Nat
        /\ \A i \in 1 .. Len(p) : (i \in 1 .. Len(q) /\ p[i] = q[i]) \/ (i = Len(q) + 1 /\ p[i] = g)
    <3> HIDE DEF p, q
    <3>1. OneMore(p, q, g)
      BY <2>1, <2>2, SentOne, Zenon
    <3> QED BY <3>1 DEF OneMore
  <2>5. ASSUME NEW i \in 1 .. Len(p)
        PROVE  /\ p[i].type \in {"hello", "auth_init", "bye"}
               /\ p[i].type = "auth_init" => p[i] = g /\ \A j \in 1 .. Len(p) : i < j => p[j].type = "bye"
    <3> HIDE DEF p, q
    <3>1. CASE i = Len(q) + 1 /\ p[i] = g
      BY <2>1, <2>4, <3>1
    <3>2. CASE i \in 1 .. Len(q) /\ p[i] = q[i]
      BY <2>3, <3>2
    <3> QED BY <2>4, <3>1, <3>2
  <2> QED BY <1>3, <1>4, <1>5, <1>7, <2>1, <2>4, <2>5 DEF ToR
<1>11. ToI'
  <2>1. IsStream(chan["I"])
    BY <1>4 DEF ToI
  <2>2. /\ IsStream(Tail(chan["I"]))
        /\ \A i \in 1 .. Len(Tail(chan["I"])) : i + 1 \in 1 .. Len(chan["I"]) /\ Tail(chan["I"])[i] = chan["I"][i + 1]
    BY <2>1, StreamTail
  <2> QED BY <1>3, <1>4, <1>7, <2>2, ToIStep
<1> QED
  BY <1>3, <1>4, <1>5, <1>6, <1>8, <1>9, <1>10, <1>11 DEF Inv, Shaking

\* The responder's proof is accepted: the initiator has keys.
LEMMA Confirmed ==
  ASSUME Inv, UNCHANGED cfg, s["I"].keys = <<>>, s["I"].pc = "confirm", chan["I"] # <<>>,
         NEW f, f = Head(chan["I"]), f.type = "auth_confirm", OpenAuth("I", "r2i", s["I"].hellos, f),
         f.v.proof.id = cfg.expect["I"],
         Act("I", StartRound(Established(s["I"], <<s["I"].auth, f>>), 1), Tail(chan["I"]))
  PROVE  Inv'
<1> DEFINE x == s["I"]
           z == Established(x, <<x.auth, f>>)
           d == StartRound(z, 1)
<1>1. Ends /\ "I" \in End /\ "R" \in End /\ Other("I") = "R" /\ IsEnd(x) /\ x.me = "I"
  BY DEF Inv, Ends, End, Other
<1>2. /\ IsEnd(z) /\ z.me = "I" /\ z.hellos = x.hellos /\ z.version = x.version
      /\ z.keys = TrafficKeys("I", x.hellos, <<x.auth, f>>)
  <2> HIDE DEF x
  <2> QED BY <1>1 DEF Established, IsEnd, Local
<1>3. Keeps(z, d)
  BY <1>2, RoundKeeps
<1> HIDE DEF d
<1>4. /\ s' = [a \in End |-> s'[a]] /\ chan' = [a \in End |-> chan'[a]] /\ s'["R"] = s["R"]
      /\ Same(d.x, s'["I"]) /\ s'["I"].pc = d.x.pc
  <2>1. Act("I", d, Tail(chan["I"])) /\ IsDeed(d) /\ IsEnd(d.x)
    BY <1>3 DEF d, Keeps, Same
  <2> QED BY <1>1, <2>1, Acts
<1> HIDE DEF z
<1>5. /\ Same(z, s'["I"]) /\ s'["I"].pc \in Open
  BY <1>3, <1>4 DEF Keeps, Same
<1>6. f.v.proof = Confirm /\ s["R"].keys # <<>> /\ ~f.bad
  <2>1. ~f.bad
    BY DEF OpenAuth
  <2>2. ToI /\ IsStream(chan["I"])
    BY DEF Inv, Shaking, ToI
  <2>3. 1 \in 1 .. Len(chan["I"]) /\ f = chan["I"][1]
    BY <2>2, StreamTail
  <2> QED BY <2>1, <2>2, <2>3 DEF ToI
<1>8. f.v.proof.id = cfg.id["R"]
  BY <1>6 DEF Confirm, SealAuth
<1>9. Init2R' = Init2R /\ Confirm' = Confirm
  BY <1>2, <1>4, <1>5 DEF Same, Init2R, Confirm, SealAuth, KdfHandshake
<1>10. s'["I"].keys.prk = KdfHandshake("I", x.hellos) /\ s'["I"].keys # <<>>
  <2> DEFINE h == x.hellos
             a == <<x.auth, f>>
  <2>1. s'["I"].keys = TrafficKeys("I", h, a)
    BY <1>2, <1>5 DEF Same
  <2> HIDE DEF h, a
  <2>2. TrafficKeys("I", h, a).prk = KdfHandshake("I", h) /\ TrafficKeys("I", h, a) # <<>>
    BY KeysAre DEF TrafficKeys
  <2> QED BY <2>1, <2>2 DEF h
<1>11. Ends'
  BY <1>1, <1>2, <1>4, <1>5 DEF Ends, End, Same
<1>12. Hellos'
  BY <1>2, <1>4, <1>5, <1>9 DEF Inv, Hellos, Same, Open
<1>13. RespondsTo'
  BY <1>2, <1>4, <1>5, <1>9 DEF Inv, RespondsTo, Same, TrafficKeys, KdfHandshake
<1>14. Initiates'
  <2>1. KdfHandshake("I", s["I"].hellos)' = KdfHandshake("I", x.hellos)
    BY <1>2, <1>5 DEF Same, KdfHandshake
  <2> QED BY <1>4, <1>6, <1>8, <1>10, <2>1 DEF Initiates
<1> QED
  BY <1>10, <1>11, <1>12, <1>13, <1>14 DEF Inv, Shaking

\* HELLO is accepted: the responder answers with HELLO_ACK.
LEMMA HelloRead ==
  ASSUME Inv, UNCHANGED cfg, s["I"].keys = <<>>, s["R"].keys = <<>>, chan["R"] # <<>>,
         NEW y, IsEnd(y), y.me = "R", y.pc = "auth", y.keys = <<>>, y.hellos # <<>>,
         y.hellos[2].v.agreed = y.version,
         NEW g, IsFrame(g), g.type = "hello_ack", NEW out, out = <<g>>,
         NEW d, IsDeed(d), d.x = y, d.out = out, Act("R", d, Tail(chan["R"]))
  PROVE  Inv'
<1>1. Ends /\ "I" \in End /\ "R" \in End
  BY DEF Inv, End
<1>2. /\ s' = [a \in End |-> s'[a]] /\ chan' = [a \in End |-> chan'[a]] /\ s'["I"] = s["I"]
      /\ Same(y, s'["R"]) /\ s'["R"].pc = "auth" /\ chan'["R"] = Tail(chan["R"])
      /\ Sent(y, out, chan["I"], chan'["I"])
  BY <1>1, ActsBoth
<1>3. ToR /\ ToI /\ IsStream(chan["R"]) /\ IsStream(chan["I"])
  BY DEF Inv, Shaking, ToR, ToI
<1>4. /\ s'["R"].keys = <<>> /\ s'["R"].me = "R" /\ IsEnd(s'["R"])
      /\ s'["R"].hellos # <<>> /\ s'["R"].hellos[2].v.agreed = s'["R"].version
  BY <1>2 DEF Same
<1>5. Ends'
  BY <1>1, <1>2, <1>4 DEF Ends, End
<1>6. Init2R' = Init2R
  BY <1>2 DEF Init2R, SealAuth, KdfHandshake
<1>7. Hellos' /\ RespondsTo' /\ Initiates'
  BY <1>2, <1>4, <1>6 DEF Inv, Hellos, RespondsTo, Initiates
<1>8. ToR'
  <2>1. /\ IsStream(Tail(chan["R"]))
        /\ \A i \in 1 .. Len(Tail(chan["R"])) : i + 1 \in 1 .. Len(chan["R"]) /\ Tail(chan["R"])[i] = chan["R"][i + 1]
    BY <1>3, StreamTail
  <2> QED BY <1>2, <1>3, <1>4, <1>6, <2>1, ToRLess
<1>9. ToI'
  <2> DEFINE q == chan["I"]
             p == chan'["I"]
  <2>1. PreAuth(g) /\ IsStream(q) /\ Sent(y, out, q, p)
    BY <1>2, <1>3 DEF PreAuth
  <2>2. OneMore(p, q, g)
    <3> HIDE DEF p, q
    <3> QED BY <2>1, SentOne, Zenon
  <2>3. \A i \in 1 .. Len(q) : q[i].type # "auth_confirm" \/ q[i].bad
    BY <1>3 DEF ToI
  <2>4. IsStream(p) /\ \A i \in 1 .. Len(p) : p[i].type # "auth_confirm" \/ p[i].bad
    <3> HIDE DEF p, q
    <3> QED BY <2>2, <2>3 DEF OneMore
  <2> QED BY <2>4 DEF ToI
<1> QED
  BY <1>2, <1>4, <1>5, <1>7, <1>8, <1>9 DEF Inv, Shaking

\* The initiator's proof is accepted: the responder has keys and sends its own.
LEMMA ProofRead ==
  ASSUME Inv, UNCHANGED cfg, s["I"].keys = <<>>, s["R"].keys = <<>>, chan["R"] # <<>>,
         NEW f, f = Head(chan["R"]), f.type = "auth_init", OpenAuth("R", "i2r", s["R"].hellos, f),
         f.v.proof.id = cfg.expect["R"],
         NEW y, IsEnd(y), y.me = "R", y.pc = "offer", y.hellos = s["R"].hellos, y.version = s["R"].version,
         NEW c, c = AuthProof("auth_confirm", s["R"].version, Confirm),
         y.keys = TrafficKeys("R", s["R"].hellos, <<f, c>>),
         NEW out, out = <<c>>,
         NEW d, IsDeed(d), d.x = y, d.out = out, Act("R", d, Tail(chan["R"]))
  PROVE  Inv'
<1>1. Ends /\ "I" \in End /\ "R" \in End
  BY DEF Inv, End
<1>2. /\ s' = [a \in End |-> s'[a]] /\ chan' = [a \in End |-> chan'[a]] /\ s'["I"] = s["I"]
      /\ Same(y, s'["R"]) /\ s'["R"].pc = "offer" /\ chan'["R"] = Tail(chan["R"])
      /\ Sent(y, out, chan["I"], chan'["I"])
  BY <1>1, ActsBoth
<1>3. ToR /\ ToI /\ IsStream(chan["R"]) /\ IsStream(chan["I"]) /\ s["I"].pc \in {"ack", "confirm", "failed"}
  BY DEF Inv, Shaking, ToR, ToI
<1>4. /\ 1 \in 1 .. Len(chan["R"]) /\ f = chan["R"][1] /\ IsStream(Tail(chan["R"]))
      /\ \A i \in 1 .. Len(Tail(chan["R"])) : i + 1 \in 1 .. Len(chan["R"]) /\ Tail(chan["R"])[i] = chan["R"][i + 1]
  BY <1>3, StreamTail
<1>5. /\ f.v.proof = Init2R /\ s["I"].hellos # <<>>
      /\ \A j \in 1 .. Len(chan["R"]) : 1 < j => chan["R"][j].type = "bye"
  BY <1>3, <1>4 DEF ToR, OpenAuth
<1>6. KdfHandshake("R", s["R"].hellos) = KdfHandshake("I", s["I"].hellos) /\ cfg.expect["R"] = cfg.id["I"]
  <2>1. f.v.proof = SealAuth("I", "i2r", s["I"].hellos)
    BY <1>5 DEF Init2R
  <2>2. f.v.proof.key = KdfHandshake("I", s["I"].hellos) /\ f.v.proof.id = cfg.id["I"]
    BY <2>1 DEF SealAuth
  <2> QED BY <2>2 DEF OpenAuth
<1>7. s["R"].hellos = s["I"].hellos
  <2>1. \A e, h : KdfHandshake(e, h).th = h
    BY DEF KdfHandshake
  <2> QED BY <1>6, <2>1
<1>8. /\ s'["R"].hellos = s["R"].hellos /\ s'["R"].version = s["R"].version /\ s'["R"].me = "R" /\ IsEnd(s'["R"])
      /\ s'["R"].keys = y.keys
  BY <1>2 DEF Same
<1>9. s'["R"].keys # <<>> /\ s'["R"].keys.prk = KdfHandshake("R", s["R"].hellos)
  <2> DEFINE h == s["R"].hellos
             a == <<f, c>>
  <2>1. s'["R"].keys = TrafficKeys("R", h, a)
    BY <1>8
  <2> HIDE DEF h, a
  <2>2. TrafficKeys("R", h, a).prk = KdfHandshake("R", h) /\ TrafficKeys("R", h, a) # <<>>
    BY KeysAre DEF TrafficKeys
  <2> QED BY <2>1, <2>2 DEF h
<1>10. Init2R' = Init2R /\ Confirm' = Confirm
  BY <1>2, <1>8 DEF Init2R, Confirm, SealAuth, KdfHandshake
<1>11. Ends'
  BY <1>1, <1>2, <1>8 DEF Ends, End, Open
<1>12. Hellos' /\ Initiates'
  BY <1>2, <1>8, <1>10 DEF Inv, Hellos, Initiates
<1>13. RespondsTo'
  <2>1. /\ KdfHandshake("R", s["R"].hellos)' = KdfHandshake("R", s["R"].hellos)
        /\ KdfHandshake("I", s["I"].hellos)' = KdfHandshake("I", s["I"].hellos)
    BY <1>2, <1>8 DEF KdfHandshake
  <2> QED BY <1>2, <1>5, <1>6, <1>7, <1>8, <1>9, <2>1 DEF RespondsTo
<1>14. ToR'
  <2>1. \A i \in 1 .. Len(Tail(chan["R"])) : Tail(chan["R"])[i].type = "bye"
    <3>1. ASSUME NEW i \in 1 .. Len(Tail(chan["R"])) PROVE i \in Int /\ i >= 1
      OBVIOUS
    <3> QED BY <1>4, <1>5, <3>1
  <2> QED BY <1>2, <1>4, <2>1 DEF ToR
<1>15. ToI'
  <2> DEFINE q == chan["I"]
             p == chan'["I"]
             g == c
  <2>0. IsFrame(c) /\ c.type = "auth_confirm" /\ c.v.proof = Confirm
    BY FramesAre DEF AuthProof
  <2>1. PreAuth(g) /\ IsFrame(g) /\ IsStream(q) /\ Sent(y, out, q, p) /\ out = <<g>>
    BY <1>2, <1>3, <2>0 DEF PreAuth
  <2>2. OneMore(p, q, g)
    <3> HIDE DEF p, q, g
    <3> QED BY <2>1, SentOne, Zenon
  <2>3. \A i \in 1 .. Len(q) : q[i].type # "auth_confirm" \/ q[i].bad
    BY <1>3 DEF ToI
  <2>4. IsStream(p) /\ \A i \in 1 .. Len(p) : p[i].type # "auth_confirm" \/ p[i].bad \/ p[i] = g
    <3> HIDE DEF p, q, g
    <3> QED BY <2>2, <2>3 DEF OneMore
  <2> QED BY <1>9, <1>10, <2>0, <2>4 DEF ToI
<1> QED
  BY <1>2, <1>3, <1>9, <1>11, <1>12, <1>13, <1>14, <1>15 DEF Inv, Shaking

\* A frame is read: the end, the frame and what it does.
LEMMA Reads ==
  ASSUME Inv, NEW e \in End, Receive(e)
  PROVE  /\ UNCHANGED cfg /\ chan[e] # <<>> /\ s[e].pc \notin {"done", "failed"} /\ IsEnd(s[e]) /\ s[e].me = e
         /\ Handshaking(s[e]) => Act(e, Handshake(s[e], Head(chan[e])), Tail(chan[e]))
         /\ ~Handshaking(s[e]) => Act(e, Handle([s[e] EXCEPT !.rx = @ + 1], Head(chan[e])), Tail(chan[e]))
BY DEF Inv, Ends, Receive, Ended

\* An error while a frame is read.
LEMMA ReadFails ==
  ASSUME Inv, NEW e \in End, UNCHANGED cfg, chan[e] # <<>>,
         NEW x, Same(s[e], x), NEW err, NEW d, d = Abort(x, err) \/ d = Fails(x, err), Act(e, d, Tail(chan[e]))
  PROVE  Inv'
<1>1. IsEnd(x)
  BY DEF Same
<1>2. IsDeed(d) /\ Same(x, d.x) /\ d.x.pc = "failed" /\ OneBye(d.out)
  BY <1>1, FailIs
<1>3. Same(s[e], d.x)
  BY <1>2 DEF Same
<1> DEFINE rest == Tail(chan[e])
<1>4. (chan[e] = <<>> /\ rest = <<>>) \/ (chan[e] # <<>> /\ rest = Tail(chan[e]))
  OBVIOUS
<1>5. Act(e, d, rest)
  OBVIOUS
<1> HIDE DEF rest
<1> QED
  BY <1>2, <1>3, <1>4, <1>5, DeadStep

\* A frame after the handshake of both.
LEMMA KeyedReads ==
  ASSUME Inv, NEW e \in End, Receive(e), s["I"].keys # <<>>
  PROVE  Inv'
<1>1. /\ UNCHANGED cfg /\ s[e].pc \notin {"done", "failed"} /\ IsEnd(s[e])
      /\ ~Handshaking(s[e]) => Act(e, Handle([s[e] EXCEPT !.rx = @ + 1], Head(chan[e])), Tail(chan[e]))
  BY Reads
<1>2. Ends /\ "I" \in End /\ "R" \in End /\ \A a \in End : s[a].keys # <<>> /\ s[a].pc \in Open
  BY DEF Inv, Initiates, Ends, End
<1> DEFINE y == [s[e] EXCEPT !.rx = @ + 1]
           f == Head(chan[e])
           rest == Tail(chan[e])
           d == Handle(y, f)
<1>3. Act(e, d, rest)
  BY <1>1, <1>2 DEF Handshaking, Open
<1>4. Same(s[e], y) /\ IsEnd(y) /\ y.pc = s[e].pc
  BY <1>1 DEF Same, IsEnd, Local
<1> HIDE DEF y, f
<1>5. Keeps(y, d)
  BY <1>1, <1>2, <1>4, HandleKeeps
<1> HIDE DEF d, rest
<1>6. IsDeed(d) /\ IsEnd(d.x) /\ d.x.pc \in Open /\ Same(s[e], d.x)
  BY <1>4, <1>5 DEF Keeps, Same
<1>7. /\ s' = [a \in End |-> s'[a]] /\ chan' = [a \in End |-> chan'[a]]
      /\ \A a \in End : a # e => s'[a] = s[a]
      /\ Same(d.x, s'[e]) /\ s'[e].pc = d.x.pc
  BY <1>2, <1>3, <1>6, Acts
<1>8. \A a \in End : Same(s[a], s'[a]) /\ s'[a].pc \in Open
  <2>1. Same(s[e], s'[e]) /\ s'[e].pc \in Open
    BY <1>6, <1>7 DEF Same
  <2>2. \A a \in End : Same(s[a], s[a])
    BY <1>2, OtherSame
  <2> QED BY <1>2, <1>7, <2>1, <2>2
<1> QED
  BY <1>1, <1>7, <1>8, KeyedStep

\* The initiator reads a frame of the handshake.
LEMMA InitiatorReads ==
  ASSUME Inv, Receive("I"), s["I"].keys = <<>>
  PROVE  Inv'
<1> DEFINE x == s["I"]
           f == Head(chan["I"])
           d == Handshake(x, f)
<1>1. "I" \in End
  BY DEF End
<1>2. /\ UNCHANGED cfg /\ chan["I"] # <<>> /\ x.pc \in {"ack", "confirm"} /\ IsEnd(x) /\ x.me = "I"
      /\ Act("I", d, Tail(chan["I"]))
  BY <1>1, Reads DEF Inv, Shaking, Handshaking
<1>3. Same(x, x)
  BY <1>2 DEF Same
<1>4. ASSUME NEW err, d = Abort(x, err) \/ d = Fails(x, err) PROVE Inv'
  <2> HIDE DEF d
  <2> QED BY <1>1, <1>2, <1>3, <1>4, ReadFails
<1>5. CASE x.pc = "ack" /\ f.type = "hello_ack" /\ f.v.agreed = Negotiate(cfg.version["I"], f.v.version)
           /\ d = OnHelloAck(x, f) /\ ~ \E err : d = Abort(x, err)
  <2> DEFINE h == <<Hello("I"), f>>
             g == AuthProof("auth_init", f.v.agreed, SealAuth("I", "i2r", h))
             y == [x EXCEPT !.pc = "confirm", !.version = f.v.agreed, !.peerMax = f.v.version,
                            !.peerFlags = f.v.flags, !.hellos = h, !.auth = g]
             out == <<g>>
  <2>1. d = Does(y, out)
    BY <1>2, <1>5, Zenon DEF OnHelloAck
  <2>2. h[2] = f /\ h # <<>>
    OBVIOUS
  <2>3. x.hellos = <<>>
    BY <1>5 DEF Inv, Shaking
  <2> HIDE DEF h, g, out, x, f, d
  <2>4. /\ IsEnd(y) /\ y.me = "I" /\ y.pc = "confirm" /\ y.keys = x.keys /\ y.version = f.v.agreed
        /\ y.hellos = h
    BY <1>2 DEF IsEnd, Local
  <2> HIDE DEF y
  <2>5. IsDeed(d) /\ d.x = y /\ d.out = out
    BY <2>1 DEF IsDeed, Does
  <2>6. g = AuthProof("auth_init", f.v.agreed, SealAuth("I", "i2r", h)) /\ out = <<g>> /\ y.keys = <<>> /\ s["I"].hellos = <<>>
    BY <2>3, <2>4 DEF g, out, x
  <2> QED BY <1>2, <2>2, <2>4, <2>5, <2>6, ProofSent
<1>6. CASE x.pc = "confirm" /\ f.type = "auth_confirm" /\ OpenAuth("I", "r2i", x.hellos, f) /\ f.v.proof.id = cfg.expect["I"]
           /\ d = OnAuthConfirm(x, f)
  <2>1. d = StartRound(Established(x, <<x.auth, f>>), 1)
    BY <1>2, <1>6, Zenon DEF OnAuthConfirm
  <2>2. Act("I", StartRound(Established(s["I"], <<s["I"].auth, f>>), 1), Tail(chan["I"]))
    BY <1>2, <2>1
  <2> HIDE DEF d
  <2> QED BY <1>2, <1>6, <2>2, Confirmed
<1>7. CASE f.type # "bye" /\ x.pc = "ack"
  <2>1. d = OnHelloAck(x, f)
    BY <1>7 DEF Handshake
  <2>2. (\E err : d = Abort(x, err)) \/ (f.type = "hello_ack" /\ f.v.agreed = Negotiate(cfg.version["I"], f.v.version))
    BY <1>2, <2>1, Zenon DEF OnHelloAck
  <2> HIDE DEF d
  <2> QED BY <1>4, <1>5, <1>7, <2>1, <2>2
<1>8. CASE f.type # "bye" /\ x.pc = "confirm"
  <2>1. d = OnAuthConfirm(x, f)
    BY <1>8 DEF Handshake
  <2>2. (\E err : d = Abort(x, err)) \/ (f.type = "auth_confirm" /\ OpenAuth("I", "r2i", x.hellos, f) /\ f.v.proof.id = cfg.expect["I"])
    BY <1>2, <2>1, Zenon DEF OnAuthConfirm
  <2> HIDE DEF d
  <2> QED BY <1>4, <1>6, <1>8, <2>1, <2>2
<1>9. CASE f.type = "bye"
  <2>1. d = Fails(x, "bye")
    BY <1>9 DEF Handshake
  <2> QED BY <1>4, <2>1
<1> QED
  BY <1>2, <1>7, <1>8, <1>9

\* The responder reads a frame before the initiator has keys.
LEMMA ResponderReads ==
  ASSUME Inv, Receive("R"), s["I"].keys = <<>>
  PROVE  Inv'
<1> DEFINE x == s["R"]
           f == Head(chan["R"])
<1>1. "R" \in End
  BY DEF End
<1>2. /\ UNCHANGED cfg /\ chan["R"] # <<>> /\ x.pc \notin {"done", "failed"} /\ IsEnd(x) /\ x.me = "R"
      /\ Handshaking(x) => Act("R", Handshake(x, f), Tail(chan["R"]))
      /\ ~Handshaking(x) => Act("R", Handle([x EXCEPT !.rx = @ + 1], f), Tail(chan["R"]))
  BY <1>1, Reads
<1>3. /\ x.keys = <<>> => x.pc \in {"hello", "auth"}
      /\ x.keys # <<>> => x.pc = "offer" /\ f.type = "bye"
  <2>1. ToR /\ IsStream(chan["R"])
    BY DEF Inv, Shaking, ToR
  <2>2. 1 \in 1 .. Len(chan["R"]) /\ f = chan["R"][1]
    BY <1>2, <2>1, StreamTail
  <2> QED BY <1>2, <2>1, <2>2 DEF Inv, Shaking, ToR
<1>4. CASE x.keys # <<>>
  <2> DEFINE y == [x EXCEPT !.rx = @ + 1]
             d == Handle(y, f)
  <2>1. Same(x, y) /\ y.pc = "offer"
    BY <1>2, <1>3, <1>4 DEF Same, IsEnd, Local
  <2>2. Act("R", d, Tail(chan["R"]))
    BY <1>2, <1>3, <1>4 DEF Handshaking
  <2> HIDE DEF y
  <2>3. PICK err : d = Abort(y, err)
    <3>1. f.type \in KNOWN_TYPES /\ f.type \notin Expected(y)
      BY <1>3, <1>4, <2>1 DEF KNOWN_TYPES, Expected
    <3> HIDE DEF f
    <3>2. d = Abort(y, OpenError(y, f)) \/ d = Abort(y, "violation")
      BY <3>1 DEF Handle
    <3> QED BY <3>2
  <2> HIDE DEF d
  <2> QED BY <1>1, <1>2, <2>1, <2>2, <2>3, ReadFails
<1>5. CASE x.keys = <<>>
  <2> DEFINE d == Handshake(x, f)
  <2>1. Act("R", d, Tail(chan["R"])) /\ Same(x, x) /\ x.pc \in {"hello", "auth"}
    BY <1>2, <1>3, <1>5 DEF Handshaking, Same
  <2>2. ASSUME NEW err, d = Abort(x, err) \/ d = Fails(x, err) PROVE Inv'
    <3> HIDE DEF d
    <3> QED BY <1>1, <1>2, <2>1, <2>2, ReadFails
  <2>3. CASE f.type = "bye"
    <3>1. d = Fails(x, "bye")
      BY <2>3 DEF Handshake
    <3> QED BY <2>2, <3>1
  <2>4. CASE f.type # "bye" /\ x.pc = "hello"
    <3> DEFINE v == Negotiate(cfg.version["R"], f.v.version)
               g == HelloAck("R", v)
               h == <<f, g>>
               y == [x EXCEPT !.pc = "auth", !.version = v, !.peerMax = f.v.version,
                              !.peerFlags = f.v.flags, !.hellos = h]
               out == <<g>>
    <3>1. d = OnHello(x, f)
      BY <2>4 DEF Handshake
    <3>2. (\E err : d = Abort(x, err)) \/ d = Does(y, out)
      BY <1>2, <3>1, Zenon DEF OnHello
    <3>3. h[2] = g /\ h # <<>>
      OBVIOUS
    <3>4. IsFrame(g) /\ g.type = "hello_ack" /\ g.v.agreed = v
      <4> HIDE DEF v
      <4> QED BY DEF HelloAck, Hello, Frame, IsFrame
    <3> HIDE DEF h, g, out, x, f, d, v
    <3>5. /\ IsEnd(y) /\ y.me = "R" /\ y.pc = "auth" /\ y.keys = x.keys /\ y.version = v /\ y.hellos = h
      BY <1>2 DEF IsEnd, Local
    <3> HIDE DEF y
    <3>6. CASE d = Does(y, out)
      <4>1. IsDeed(d) /\ d.x = y /\ d.out = out
        BY <3>6 DEF IsDeed, Does
      <4>2. out = <<g>> /\ y.keys = <<>> /\ s["R"].keys = <<>> /\ y.hellos # <<>> /\ y.hellos[2].v.agreed = y.version
        BY <1>5, <3>3, <3>4, <3>5 DEF out, x
      <4> QED BY <1>2, <2>1, <3>4, <3>5, <4>1, <4>2, HelloRead
    <3> QED BY <2>2, <3>2, <3>6
  <2>5. CASE f.type # "bye" /\ x.pc = "auth"
    <3> DEFINE c == AuthProof("auth_confirm", x.version, Confirm)
               z == Established(x, <<f, c>>)
               n == StartRound(z, 1)
               out == <<c>>
    <3>1. d = OnAuthInit(x, f)
      BY <2>5 DEF Handshake
    <3>2. c = AuthProof("auth_confirm", x.version, SealAuth(x.me, "r2i", x.hellos))
      BY <1>2 DEF Confirm
    <3>3. \/ \E err : d = Abort(x, err)
          \/ /\ f.type = "auth_init" /\ OpenAuth("R", "i2r", x.hellos, f) /\ f.v.proof.id = cfg.expect["R"]
             /\ d = [n EXCEPT !.out = <<c>> \o @]
      BY <1>2, <3>1, <3>2, Zenon DEF OnAuthInit
    <3>4. CASE f.type = "auth_init" /\ OpenAuth("R", "i2r", x.hellos, f) /\ f.v.proof.id = cfg.expect["R"]
               /\ d = [n EXCEPT !.out = <<c>> \o @]
      <4>1. /\ IsEnd(z) /\ z.me = "R" /\ z.hellos = x.hellos /\ z.version = x.version
            /\ z.keys = TrafficKeys("R", x.hellos, <<f, c>>)
        <5> HIDE DEF x, f
        <5> QED BY <1>2 DEF Established, IsEnd, Local
      <4> HIDE DEF z
      <4> DEFINE u == [z EXCEPT !.round = 1, !.peerf = <<>>, !.todo = ToSet(cfg.folders[z.me])]
                 y == [u EXCEPT !.pc = "offer"]
      <4>2. n = Does(y, <<>>)
        BY <4>1 DEF StartRound
      <4>3. Same(z, y) /\ y.pc = "offer"
        BY <4>1 DEF Same, IsEnd, Local
      <4> HIDE DEF n, y
      <4>4. IsDeed(n) /\ n.x = y /\ n.out = <<>>
        BY <4>2 DEF IsDeed, Does
      <4>5. <<c>> \o n.out = out
        BY <4>4
      <4>6. d = [n EXCEPT !.out = out]
        BY <3>4, <4>5
      <4> HIDE DEF d, out
      <4>7. IsDeed(d) /\ d.x = y /\ d.out = out
        BY <4>4, <4>6 DEF IsDeed
      <4>8. /\ IsEnd(y) /\ y.me = "R" /\ y.hellos = s["R"].hellos /\ y.version = s["R"].version
            /\ y.keys = TrafficKeys("R", s["R"].hellos, <<f, c>>)
        BY <4>1, <4>3 DEF Same
      <4>9. out = <<c>> /\ f = Head(chan["R"]) /\ c = AuthProof("auth_confirm", s["R"].version, Confirm)
        BY DEF out
      <4> HIDE DEF f, c
      <4> QED BY <1>2, <1>5, <2>1, <3>4, <4>3, <4>7, <4>8, <4>9, ProofRead
    <3> HIDE DEF d
    <3> QED BY <2>2, <3>3, <3>4
  <2> QED BY <2>1, <2>3, <2>4, <2>5
<1> QED
  BY <1>4, <1>5

\* The stream ends.
LEMMA EofStep ==
  ASSUME Inv, NEW e \in End, Eof(e)
  PROVE  Inv'
<1> DEFINE d == Fails(s[e], "io")
<1>1. UNCHANGED cfg /\ chan[e] = <<>> /\ Act(e, d, <<>>)
  BY DEF Eof
<1>2. IsEnd(s[e])
  BY DEF Inv, Ends
<1>3. IsDeed(d) /\ Same(s[e], d.x) /\ d.x.pc = "failed" /\ OneBye(d.out)
  BY <1>2, FailIs
<1> HIDE DEF d
<1> QED
  BY <1>1, <1>3, DeadStep

\* The environment moves and both ends stay.
LEMMA StayStep ==
  ASSUME Inv, UNCHANGED <<cfg, s>>, chan' = [a \in End |-> chan'[a]],
         s["I"].keys = <<>> => ToR' /\ ToI'
  PROVE  Inv'
<1>1. s' = [a \in End |-> s'[a]] /\ \A e \in End : Same(s[e], s'[e]) /\ s'[e].pc = s[e].pc
  BY OtherSame DEF Inv, Ends
<1>2. Ends' /\ Hellos' /\ RespondsTo' /\ Initiates'
  BY <1>1, Carried DEF Inv, Ends
<1> QED
  BY <1>2 DEF Inv, Shaking

\* A frame of the handshake is changed on its way.
LEMMA ChangedIs ==
  ASSUME NEW f, IsFrame(f), NEW g \in Changed(f)
  PROVE  /\ IsFrame(g) /\ g.type = f.type
         /\ f.type \in {"auth_init", "auth_confirm"} => g.bad \/ (g.bad = f.bad /\ g.v.proof = f.v.proof)
<1>1. CASE f.type \in {"hello", "hello_ack"}
  <2>1. PICK v : g = [f EXCEPT !.v = v]
    BY <1>1 DEF Changed
  <2> QED BY <1>1, <2>1 DEF IsFrame
<1>2. CASE f.type \notin {"hello", "hello_ack"} /\ g = [f EXCEPT !.bad = TRUE]
  BY <1>2 DEF IsFrame
<1>3. CASE f.type \in {"auth_init", "auth_confirm"} /\ g = [f EXCEPT !.v.version = <<1, 7>>]
  <2> DEFINE w == [f.v EXCEPT !.version = <<1, 7>>]
  <2>1. g = [f EXCEPT !.v = w]
    BY <1>3
  <2>2. w.proof = f.v.proof
    OBVIOUS
  <2> HIDE DEF w
  <2> QED BY <2>1, <2>2 DEF IsFrame
<1>4. CASE f.type \notin {"hello", "hello_ack", "auth_init", "auth_confirm"} /\ f.sealed = <<>>
  <2>1. PICK v : g = [f EXCEPT !.v = v]
    BY <1>4 DEF Changed
  <2> QED BY <1>4, <2>1 DEF IsFrame
<1>5. CASE f.type \in {"auth_init", "auth_confirm"}
  BY <1>2, <1>3, <1>5 DEF Changed
<1>6. CASE f.type \notin {"hello", "hello_ack", "auth_init", "auth_confirm"} /\ f.sealed # <<>>
  BY <1>2, <1>6 DEF Changed
<1> QED
  BY <1>1, <1>4, <1>5, <1>6

\* A frame is changed.
LEMMA CorruptStep ==
  ASSUME Inv, NEW e \in End, Corrupt(e)
  PROVE  Inv'
<1>1. UNCHANGED <<cfg, s>> /\ chan[e] # <<>> /\ Ends
  BY DEF Corrupt, Inv
<1>2. PICK g \in Changed(Head(chan[e])) : chan' = [chan EXCEPT ![e] = <<g>> \o Tail(chan[e])]
  BY DEF Corrupt
<1>3. /\ chan' = [a \in End |-> chan'[a]] /\ chan'[e] = <<g>> \o Tail(chan[e])
      /\ \A a \in End : a # e => chan'[a] = chan[a]
  <2> DEFINE q == <<g>> \o Tail(chan[e])
  <2>1. chan' = [chan EXCEPT ![e] = q]
    BY <1>2
  <2> HIDE DEF q
  <2>2. chan' = [a \in End |-> IF a = e THEN q ELSE chan[a]]
    BY <1>1, <2>1 DEF Ends
  <2>3. chan' = [a \in End |-> chan'[a]] /\ chan'[e] = q /\ \A a \in End : a # e => chan'[a] = chan[a]
    BY <2>2
  <2> QED BY <2>3 DEF q
<1>4. ASSUME s["I"].keys = <<>> PROVE ToR' /\ ToI'
  <2>1. ToR /\ ToI /\ IsStream(chan["R"]) /\ IsStream(chan["I"]) /\ "I" \in End /\ "R" \in End
    BY <1>4 DEF Inv, Shaking, ToR, ToI, End
  <2>2. Init2R' = Init2R /\ Confirm' = Confirm
    BY <1>1 DEF Init2R, Confirm, SealAuth, KdfHandshake
  <2>3. /\ 1 \in 1 .. Len(chan[e]) /\ Head(chan[e]) = chan[e][1] /\ IsFrame(chan[e][1])
    BY <1>1, <2>1, StreamTail DEF End
  <2>4. /\ IsFrame(g) /\ g.type = chan[e][1].type
        /\ g.type \in {"auth_init", "auth_confirm"} =>
             g.bad \/ (g.bad = chan[e][1].bad /\ g.v.proof = chan[e][1].v.proof)
    BY <1>2, <2>3, ChangedIs
  <2>5. /\ IsStream(chan'[e]) /\ Len(chan'[e]) = Len(chan[e]) /\ chan'[e][1] = g
        /\ \A i \in 1 .. Len(chan[e]) : i # 1 => chan'[e][i] = chan[e][i]
    <3> DEFINE q == chan[e]
               p == <<g>> \o Tail(q)
    <3>1. IsStream(q) /\ q # <<>>
      BY <1>1, <2>1 DEF End
    <3> HIDE DEF q
    <3>2. /\ IsStream(p) /\ Len(p) = Len(q) /\ p[1] = g
          /\ \A i \in 1 .. Len(q) : i # 1 => p[i] = q[i]
      BY <2>4, <3>1, StreamPut
    <3>3. chan'[e] = p
      BY <1>3 DEF q
    <3> HIDE DEF p
    <3> QED BY <3>2, <3>3 DEF q
  <2>6. \A i \in 1 .. Len(chan'[e]) :
          /\ i + 0 \in 1 .. Len(chan[e]) /\ chan'[e][i].type = chan[e][i + 0].type
          /\ \/ chan'[e][i].bad \/ chan'[e][i].type \notin {"auth_init", "auth_confirm"}
             \/ chan'[e][i].bad = chan[e][i + 0].bad /\ chan'[e][i].v.proof = chan[e][i + 0].v.proof
    BY <2>4, <2>5
  <2>7. CASE e = "R"
    <3>1. ToR'
      BY <1>1, <2>1, <2>2, <2>5, <2>6, <2>7, ToRLess
    <3>2. ToI'
      BY <1>1, <1>3, <2>1, <2>2, <2>7, ToIStep
    <3> QED BY <3>1, <3>2
  <2>8. CASE e = "I"
    <3>1. ToR'
      BY <1>1, <1>3, <2>1, <2>2, <2>8 DEF ToR
    <3>2. \A i \in 1 .. Len(chan'["I"]) :
            \/ chan'["I"][i].bad \/ chan'["I"][i].type # "auth_confirm"
            \/ \E j \in 1 .. Len(chan["I"]) :
                 /\ chan'["I"][i].type = chan["I"][j].type /\ chan'["I"][i].bad = chan["I"][j].bad
                 /\ chan'["I"][i].v.proof = chan["I"][j].v.proof
      BY <2>6, <2>8
    <3>3. ToI'
      BY <1>1, <2>1, <2>2, <2>5, <2>8, <3>2, ToIStep
    <3> QED BY <3>1, <3>3
  <2> QED BY <2>7, <2>8 DEF End
<1> QED
  BY <1>1, <1>3, <1>4, StayStep

\* The connection breaks.
LEMMA BreakStep ==
  ASSUME Inv, Break
  PROVE  Inv'
<1>1. UNCHANGED <<cfg, s>> /\ Ends /\ "I" \in End /\ "R" \in End
  BY DEF Break, Inv, End
<1>2. PICK n \in 0 .. Len(chan["I"]), m \in 0 .. Len(chan["R"]) :
        chan' = [chan EXCEPT !["I"] = SubSeq(@, 1, n), !["R"] = SubSeq(@, 1, m)]
  BY DEF Break
<1>3. chan' = [a \in End |-> chan'[a]] /\ chan'["I"] = SubSeq(chan["I"], 1, n) /\ chan'["R"] = SubSeq(chan["R"], 1, m)
  <2>1. chan' = [a \in End |-> IF a = "R" THEN SubSeq(chan["R"], 1, m) ELSE SubSeq(chan["I"], 1, n)]
    BY <1>1, <1>2 DEF Ends, End
  <2> QED BY <1>1, <2>1
<1>4. ASSUME s["I"].keys = <<>> PROVE ToR' /\ ToI'
  <2>1. ToR /\ ToI /\ IsStream(chan["R"]) /\ IsStream(chan["I"])
    BY <1>4 DEF Inv, Shaking, ToR, ToI
  <2>2. Init2R' = Init2R /\ Confirm' = Confirm
    BY <1>1 DEF Init2R, Confirm, SealAuth, KdfHandshake
  <2>3. /\ IsStream(chan'["I"]) /\ \A i \in 1 .. Len(chan'["I"]) : i \in 1 .. Len(chan["I"]) /\ chan'["I"][i] = chan["I"][i]
    BY <1>3, <2>1, StreamCut
  <2>4. /\ IsStream(chan'["R"]) /\ \A i \in 1 .. Len(chan'["R"]) : i \in 1 .. Len(chan["R"]) /\ chan'["R"][i] = chan["R"][i]
    BY <1>3, <2>1, StreamCut
  <2>5. \A i \in 1 .. Len(chan'["R"]) : i + 0 \in 1 .. Len(chan["R"]) /\ chan'["R"][i] = chan["R"][i + 0]
    BY <2>4
  <2>6. ToR'
    BY <1>1, <2>1, <2>2, <2>4, <2>5, ToRLess
  <2>7. ToI'
    BY <1>1, <2>1, <2>2, <2>3, ToIStep
  <2> QED BY <2>6, <2>7
<1> QED
  BY <1>1, <1>3, <1>4, StayStep

\* A later release sends a frame that this one does not know.
LEMMA ExtendStep ==
  ASSUME Inv, NEW e \in End, Extend(e)
  PROVE  Inv'
<1> DEFINE g == Frame("extension", "none")
           y == [s[e] EXCEPT !.tx = @ + 1]
           p == chan[Other(e)] \o SealFrames(s[e], <<g>>)
<1>1. /\ UNCHANGED cfg /\ s[e].pc \notin {"done", "failed"} /\ ~Handshaking(s[e]) /\ Ends
      /\ s' = [s EXCEPT ![e] = y] /\ chan' = [chan EXCEPT ![Other(e)] = p]
  <2>1. UNCHANGED cfg /\ s[e].pc \notin {"done", "failed"} /\ ~Handshaking(s[e]) /\ Ends
    BY DEF Extend, Ended, Inv
  <2>2. s' = [s EXCEPT ![e] = y]
    BY DEF Extend
  <2>3. chan' = [chan EXCEPT ![Other(e)] = p]
    BY Zenon DEF Extend
  <2> QED BY <2>1, <2>2, <2>3
<1>2. Same(s[e], y) /\ y.pc = s[e].pc
  <2>1. IsEnd(s[e])
    BY <1>1, OtherSame
  <2> QED BY <2>1 DEF Same, IsEnd, Local
<1>3. "I" \in End /\ "R" \in End /\ Other(e) \in End /\ Other("R") = "I"
  BY DEF End, Other
<1> HIDE DEF y, p
<1>4. /\ s' = [a \in End |-> s'[a]] /\ \A a \in End : Same(s[a], s'[a]) /\ s'[a].pc = s[a].pc
  <2>1. s' = [a \in End |-> IF a = e THEN y ELSE s[a]]
    BY <1>1 DEF Ends
  <2>2. \A a \in End : Same(s[a], s[a])
    BY <1>1, OtherSame
  <2> QED BY <1>2, <2>1, <2>2
<1>5. /\ chan' = [a \in End |-> chan'[a]] /\ chan'[Other(e)] = p
      /\ \A a \in End : a # Other(e) => chan'[a] = chan[a]
  <2>1. chan' = [a \in End |-> IF a = Other(e) THEN p ELSE chan[a]]
    BY <1>1 DEF Ends
  <2> QED BY <1>3, <2>1
<1>6. CASE s["I"].keys # <<>>
  <2>1. \A a \in End : s[a].pc \in Open
    BY <1>1, <1>6 DEF Inv, Initiates, Ends, End
  <2> QED BY <1>1, <1>4, <1>5, <1>6, <2>1, KeyedStep
<1>7. CASE s["I"].keys = <<>>
  <2>1. e = "R" /\ s["R"].keys # <<>> /\ s["R"].pc = "offer"
    BY <1>1, <1>7 DEF Inv, Shaking, Handshaking, End
  <2>2. Ends' /\ Hellos' /\ RespondsTo' /\ Initiates' /\ Init2R' = Init2R /\ Confirm' = Confirm
    BY <1>1, <1>4, <1>5, Carried DEF Ends
  <2>3. /\ s'["I"].keys = s["I"].keys /\ s'["I"].hellos = s["I"].hellos /\ s'["R"].keys = s["R"].keys
        /\ s'["I"].pc = s["I"].pc /\ s'["R"].pc = s["R"].pc
    BY <1>3, <1>4 DEF Same
  <2>4. ToR /\ ToI /\ IsStream(chan["I"]) /\ IsStream(chan["R"])
    BY <1>7 DEF Inv, Shaking, ToR, ToI
  <2>5. ToR'
    BY <1>3, <1>5, <2>1, <2>2, <2>3, <2>4 DEF ToR
  <2>6. ToI'
    <3> DEFINE q == chan["I"]
               r == chan'["I"]
               x == s["R"]
               h == SealOne(x, g)
    <3>1. IsFrame(g) /\ g.type = "extension"
      BY FramesAre
    <3> HIDE DEF g
    <3>2. SealFrames(x, <<g>>) = <<h>> /\ IsFrame(h) /\ h.type = "extension"
      BY <3>1, Seals
    <3>3. r = q \o <<h>> /\ IsStream(q)
      BY <1>3, <1>5, <2>1, <2>4, <3>2 DEF p
    <3> HIDE DEF h, q, r
    <3>4. /\ IsStream(q \o <<h>>) /\ Len(q) \in Nat /\ Len(q \o <<h>>) = Len(q) + 1
          /\ (q \o <<h>>)[Len(q) + 1] = h /\ \A i \in 1 .. Len(q) : (q \o <<h>>)[i] = q[i]
      BY <3>2, <3>3, StreamAdd
    <3>5. IsStream(r) /\ Len(r) = Len(q) + 1 /\ r[Len(q) + 1] = h /\ \A i \in 1 .. Len(q) : r[i] = q[i]
      BY <3>3, <3>4
    <3>6. \A i \in 1 .. Len(r) : r[i].type # "auth_confirm" \/ \E j \in 1 .. Len(q) : r[i] = q[j]
      <4>1. \A i \in 1 .. Len(r) : i = Len(q) + 1 \/ i \in 1 .. Len(q)
        BY <3>4, <3>5
      <4> QED BY <3>2, <3>5, <4>1
    <3> QED BY <2>2, <2>3, <2>4, <3>5, <3>6, ToIStep DEF q, r
  <2> QED BY <1>7, <2>2, <2>3, <2>5, <2>6 DEF Inv, Shaking
<1> QED
  BY <1>6, <1>7

\* The connection has just been opened.
LEMMA InitInv ==
  ASSUME Init
  PROVE  Inv
<1>1. \A e \in End : s[e] = Fresh(cfg, e)
  BY DEF Init
<1>2. ASSUME NEW e
      PROVE  /\ IsEnd(Fresh(cfg, e)) /\ Fresh(cfg, e).me = e /\ Fresh(cfg, e).keys = <<>> /\ Fresh(cfg, e).hellos = <<>>
             /\ Fresh(cfg, e).pc = (IF e = "I" THEN "ack" ELSE "hello")
  BY DEF Fresh, IsEnd, Local
<1>3. "I" \in End /\ "R" \in End
  BY DEF End
<1>4. /\ \A e \in End : IsEnd(s[e]) /\ s[e].me = e /\ s[e].keys = <<>> /\ s[e].hellos = <<>>
      /\ s["I"].pc = "ack" /\ s["R"].pc = "hello"
  BY <1>1, <1>2, <1>3
<1>5. chan = [e \in End |-> chan[e]] /\ chan["I"] = <<>> /\ chan["R"] = <<Hello("I")>> /\ s = [e \in End |-> s[e]]
  BY <1>3 DEF Init
<1>6. IsFrame(Hello("I")) /\ Hello("I").type = "hello"
  BY FramesAre DEF Hello
<1>7. ToR
  <2> DEFINE g == Hello("I")
             q == <<g>>
  <2>1. IsStream(q) /\ \A i \in 1 .. Len(q) : q[i].type = "hello"
    <3> HIDE DEF g
    <3>1. q \in Seq({g}) /\ Len(q) = 1 /\ q[1] = g
      OBVIOUS
    <3> HIDE DEF q
    <3>2. IsSeq(q)
      BY <3>1 DEF IsSeq
    <3>3. \A i \in 1 .. Len(q) : q[i] = g
      BY <3>1
    <3> QED BY <1>6, <3>2, <3>3 DEF IsStream, g
  <2>2. chan["R"] = q
    BY <1>5
  <2> HIDE DEF q
  <2> QED BY <1>3, <1>4, <2>1, <2>2 DEF ToR
<1>8. ToI
  BY <1>5, StreamNone DEF ToI
<1> QED
  BY <1>3, <1>4, <1>5, <1>7, <1>8 DEF Inv, Ends, Hellos, RespondsTo, Initiates, Shaking

\* Every step keeps the invariant.
LEMMA StepInv ==
  ASSUME Inv, [Next]_vars
  PROVE  Inv'
<1>1. CASE UNCHANGED vars
  <2>1. UNCHANGED <<cfg, s, chan>>
    BY <1>1 DEF vars
  <2>2. chan' = [a \in End |-> chan'[a]]
    BY <2>1 DEF Inv, Ends
  <2>3. s["I"].keys = <<>> => ToR' /\ ToI'
    BY <2>1 DEF Inv, Shaking, ToR, ToI, Init2R, Confirm, SealAuth, KdfHandshake
  <2> QED BY <2>1, <2>2, <2>3, StayStep
<1>2. CASE Break
  BY <1>2, BreakStep
<1>3. ASSUME NEW e \in End, Receive(e) PROVE Inv'
  BY <1>3, KeyedReads, InitiatorReads, ResponderReads DEF End
<1>4. ASSUME NEW e \in End, Eof(e) \/ Corrupt(e) \/ Extend(e) PROVE Inv'
  BY <1>4, EofStep, CorruptStep, ExtendStep
<1> QED
  BY <1>1, <1>2, <1>3, <1>4 DEF Next

\* At any time, for any configuration of the two ends and any number of faults:
\* an end with keys has seen the other's own proof of the same hello frames, as
\* handshake_internal() lets no other through.
THEOREM WireInvariance == Spec => []Inv
<1>1. Init => Inv
  BY InitInv
<1>2. Inv /\ [Next]_vars => Inv'
  BY StepInv
<1> QED
  BY <1>1, <1>2, PTL DEF Spec

-----------------------------------------------------------------------------
(* After the handshake: what streams carry.                                 *)

Man == Kind("manifest")
MaybeMan == Man \cup {NoManifest}
Own(x) == ToSet(cfg.folders[x.me])

\* What a frame carries.
GoodFrame(g) ==
  /\ IsFrame(g)
  /\ g.type = "offer" => g.v.man \in MaybeMan
  /\ g.type = "item_batch" => g.v \subseteq [blob : Blob, bad : BOOLEAN]
  /\ g.type = "pack_item" => g.v = [k \in {"name", "blobs", "bad"} |-> g.v[k]] /\ g.v.blobs \subseteq Blob

\* A stream that carries the offers o, at most one.
OfferAt(q) == {i \in 1 .. Len(q) : q[i].type = "offer"}
Carries(q, o) ==
  /\ IsSeq(q) /\ \A i \in 1 .. Len(q) : GoodFrame(q[i])
  /\ \A i, j \in OfferAt(q) : i = j
  /\ o = {q[i].v : i \in OfferAt(q)}

\* Nothing.
LEMMA CarriesNone == Carries(<<>>, {})
<1>1. IsSeq(<<>>) /\ Len(<<>>) = 0
  BY StreamNone DEF IsStream
<1> QED BY <1>1 DEF Carries, OfferAt

\* Frames that are no offers.
LEMMA CarriesFrames ==
  ASSUME NEW q, IsSeq(q), \A i \in 1 .. Len(q) : GoodFrame(q[i]) /\ q[i].type # "offer"
  PROVE  Carries(q, {})
BY DEF Carries, OfferAt

\* One frame.
LEMMA CarriesOne ==
  ASSUME NEW g, GoodFrame(g)
  PROVE  Carries(<<g>>, IF g.type = "offer" THEN {g.v} ELSE {})
<1> DEFINE q == <<g>>
<1>1. q \in Seq({g}) /\ Len(q) = 1 /\ q[1] = g
  OBVIOUS
<1> HIDE DEF q
<1>2. IsSeq(q)
  BY <1>1 DEF IsSeq
<1>3. \A i \in 1 .. Len(q) : i = 1
  BY <1>1
<1>4. OfferAt(q) = IF g.type = "offer" THEN {1} ELSE {}
  BY <1>1, <1>3 DEF OfferAt
<1>5. {q[i].v : i \in OfferAt(q)} = IF g.type = "offer" THEN {g.v} ELSE {}
  BY <1>1, <1>4
<1>6. Carries(q, IF g.type = "offer" THEN {g.v} ELSE {})
  BY <1>1, <1>2, <1>3, <1>4, <1>5 DEF Carries
<1> QED BY <1>6 DEF q

\* The places of two streams, one after the other.
Catted(p, q, r) ==
  /\ IsSeq(r) /\ Len(p) \in Nat /\ Len(q) \in Nat /\ Len(r) = Len(p) + Len(q)
  /\ \A i \in 1 .. Len(p) : i \in 1 .. Len(r) /\ r[i] = p[i]
  /\ \A i \in 1 .. Len(q) : i + Len(p) \in 1 .. Len(r) /\ r[i + Len(p)] = q[i]
  /\ \A i \in 1 .. Len(r) : i \in 1 .. Len(p) \/ (i - Len(p) \in 1 .. Len(q) /\ (i - Len(p)) + Len(p) = i)

\* Frames follow frames.
LEMMA Cats ==
  ASSUME NEW p, IsSeq(p), NEW q, IsSeq(q)
  PROVE  Catted(p, q, p \o q)
<1>1. PICK S, T : p \in Seq(S) /\ q \in Seq(T)
  BY DEF IsSeq
<1> DEFINE U == S \cup T
<1>2. p \in Seq(U) /\ q \in Seq(U)
  <2>1. S \subseteq U /\ T \subseteq U
    OBVIOUS
  <2> HIDE DEF U
  <2> QED BY <1>1, <2>1, WiderSeq
<1> HIDE DEF U
<1>3. /\ p \o q \in Seq(U) /\ Len(p) \in Nat /\ Len(q) \in Nat /\ Len(p \o q) = Len(p) + Len(q)
  BY <1>2
<1>4. \A i \in 1 .. Len(p) + Len(q) : (p \o q)[i] = IF i <= Len(p) THEN p[i] ELSE q[i - Len(p)]
  BY <1>2
<1>5. \A i \in 1 .. Len(q) : i + Len(p) \in 1 .. Len(p \o q) /\ (p \o q)[i + Len(p)] = q[i]
  <2> TAKE i \in 1 .. Len(q)
  <2>1. i + Len(p) \in 1 .. Len(p) + Len(q) /\ ~(i + Len(p) <= Len(p)) /\ (i + Len(p)) - Len(p) = i
    BY <1>3
  <2> QED BY <1>3, <1>4, <2>1
<1>6. IsSeq(p \o q)
  BY <1>3 DEF IsSeq
<1> QED BY <1>3, <1>4, <1>5, <1>6 DEF Catted

\* One after the other.
LEMMA CarriesCat ==
  ASSUME NEW p, NEW q, NEW a, NEW b, Carries(p, a), Carries(q, b), a = {} \/ b = {}
  PROVE  Carries(p \o q, a \cup b)
<1> DEFINE r == p \o q
           n == Len(p)
<1>1. /\ IsSeq(r) /\ n \in Nat /\ Len(q) \in Nat
      /\ \A i \in 1 .. n : i \in 1 .. Len(r) /\ r[i] = p[i]
      /\ \A i \in 1 .. Len(q) : i + n \in 1 .. Len(r) /\ r[i + n] = q[i]
      /\ \A i \in 1 .. Len(r) : i \in 1 .. n \/ (i - n \in 1 .. Len(q) /\ (i - n) + n = i)
  <2>1. Catted(p, q, r)
    BY Cats DEF Carries
  <2> HIDE DEF r
  <2> QED BY <2>1 DEF Catted
<1> HIDE DEF r
<1>2. ASSUME NEW i \in 1 .. Len(r) PROVE GoodFrame(r[i])
  <2>1. CASE i \in 1 .. n
    BY <1>1, <2>1 DEF Carries
  <2>2. CASE i - n \in 1 .. Len(q) /\ (i - n) + n = i
    BY <1>1, <2>2 DEF Carries
  <2> QED BY <1>1, <2>1, <2>2
<1>3. ASSUME NEW i \in OfferAt(r)
      PROVE  (i \in OfferAt(p) /\ r[i] = p[i]) \/ (i - n \in OfferAt(q) /\ r[i] = q[i - n] /\ i \in Int)
  BY <1>1, <1>3 DEF OfferAt
<1>4. a # {} => OfferAt(q) = {}
  BY DEF Carries
<1>5. b # {} => OfferAt(p) = {}
  BY DEF Carries
<1>6. OfferAt(p) = {} \/ OfferAt(q) = {}
  BY <1>4, <1>5 DEF Carries
<1>7. ASSUME NEW i \in OfferAt(r), NEW j \in OfferAt(r) PROVE i = j
  <2>1. (i \in OfferAt(p) /\ j \in OfferAt(p)) \/ (i - n \in OfferAt(q) /\ j - n \in OfferAt(q) /\ i \in Int /\ j \in Int)
    BY <1>3, <1>6
  <2>2. i \in OfferAt(p) /\ j \in OfferAt(p) => i = j
    BY DEF Carries
  <2>3. i - n \in OfferAt(q) /\ j - n \in OfferAt(q) => i - n = j - n
    BY DEF Carries
  <2> QED BY <1>1, <2>1, <2>2, <2>3
<1>8. a \cup b = {r[i].v : i \in OfferAt(r)}
  <2>1. ASSUME NEW v \in a PROVE v \in {r[i].v : i \in OfferAt(r)}
    <3>1. PICK i \in OfferAt(p) : v = p[i].v
      BY DEF Carries
    <3>2. i \in OfferAt(r) /\ r[i] = p[i]
      BY <1>1 DEF OfferAt
    <3> QED BY <3>1, <3>2
  <2>2. ASSUME NEW v \in b PROVE v \in {r[i].v : i \in OfferAt(r)}
    <3>1. PICK i \in OfferAt(q) : v = q[i].v
      BY DEF Carries
    <3>2. i + n \in OfferAt(r) /\ r[i + n] = q[i]
      BY <1>1 DEF OfferAt
    <3> QED BY <3>1, <3>2
  <2>3. ASSUME NEW i \in OfferAt(r) PROVE r[i].v \in a \cup b
    BY <1>3 DEF Carries
  <2> QED BY <2>1, <2>2, <2>3
<1>9. Carries(r, a \cup b)
  BY <1>1, <1>2, <1>7, <1>8 DEF Carries
<1> QED BY <1>9 DEF r

\* Sealed, as they go out.
LEMMA CarriesSealed ==
  ASSUME NEW x, NEW q, NEW o, Carries(q, o)
  PROVE  Carries(SealFrames(x, q), o)
<1> DEFINE r == SealFrames(x, q)
           G(i) == IF PreAuth(q[i]) THEN q[i] ELSE [q[i] EXCEPT !.sealed = Cipher(x), !.seq = x.tx + i - 1]
<1>1. PICK S : q \in Seq(S)
  BY DEF Carries, IsSeq
<1>2. Len(q) \in Nat /\ DOMAIN q = 1 .. Len(q)
  BY <1>1
<1>3. r = [i \in 1 .. Len(q) |-> G(i)]
  BY <1>2, Zenon DEF SealFrames
<1>4. \A i \in 1 .. Len(q) : GoodFrame(G(i)) /\ G(i).type = q[i].type /\ G(i).v = q[i].v
  <2> TAKE i \in 1 .. Len(q)
  <2>1. GoodFrame(q[i])
    BY DEF Carries
  <2> QED BY <2>1 DEF GoodFrame, IsFrame
<1> DEFINE T == {G(i) : i \in 1 .. Len(q)}
<1>5. r \in [1 .. Len(q) -> T]
  <2> HIDE DEF r, G
  <2> QED BY <1>3
<1> HIDE DEF T, r, G
<1>6. r \in Seq(T) /\ Len(r) = Len(q)
  BY <1>2, <1>5
<1>7. \A i \in 1 .. Len(q) : r[i] = G(i)
  BY <1>3
<1>8. IsSeq(r) /\ \A i \in 1 .. Len(r) : GoodFrame(r[i]) /\ r[i].type = q[i].type /\ r[i].v = q[i].v
  BY <1>4, <1>6, <1>7 DEF IsSeq
<1>9. OfferAt(r) = OfferAt(q)
  BY <1>6, <1>8 DEF OfferAt
<1>10. \A i \in OfferAt(q) : r[i].v = q[i].v
  BY <1>6, <1>8 DEF OfferAt
<1>11. {r[i].v : i \in OfferAt(q)} = {q[i].v : i \in OfferAt(q)}
  BY <1>10
<1>12. Carries(r, o)
  BY <1>8, <1>9, <1>11 DEF Carries
<1> QED BY <1>12 DEF r

\* The first frame is read.
LEMMA CarriesRest ==
  ASSUME NEW q, NEW o, Carries(q, o), q # <<>>
  PROVE  /\ GoodFrame(Head(q)) /\ Head(q) = q[1]
         /\ Head(q).type = "offer" => o = {Head(q).v} /\ Carries(Tail(q), {})
         /\ Head(q).type # "offer" => Carries(Tail(q), o)
<1> DEFINE r == Tail(q)
<1>1. PICK S : q \in Seq(S)
  BY DEF Carries, IsSeq
<1>2. Len(q) \in Nat \ {0} /\ Head(q) = q[1] /\ r \in Seq(S) /\ Len(r) = Len(q) - 1
  BY <1>1
<1>3. \A i \in 1 .. Len(r) : i + 1 \in 1 .. Len(q) /\ r[i] = q[i + 1]
  BY <1>1, <1>2
<1> HIDE DEF r
<1>4. GoodFrame(q[1]) /\ 1 \in 1 .. Len(q)
  BY <1>2 DEF Carries
<1>5. IsSeq(r) /\ \A i \in 1 .. Len(r) : GoodFrame(r[i])
  BY <1>2, <1>3 DEF Carries, IsSeq
<1>6. \A i \in OfferAt(r) : i + 1 \in OfferAt(q) /\ r[i] = q[i + 1] /\ i \in Nat \ {0}
  BY <1>2, <1>3 DEF OfferAt
<1>7. \A i \in OfferAt(q) : i = 1 \/ (i - 1 \in OfferAt(r) /\ q[i] = r[i - 1])
  <2> TAKE i \in OfferAt(q)
  <2>1. i \in 1 .. Len(q) /\ q[i].type = "offer"
    BY DEF OfferAt
  <2>2. i # 1 => i - 1 \in 1 .. Len(r) /\ (i - 1) + 1 = i
    BY <1>2, <2>1
  <2> QED BY <1>3, <2>1, <2>2 DEF OfferAt
<1>8. CASE q[1].type = "offer"
  <2>1. 1 \in OfferAt(q)
    BY <1>4, <1>8 DEF OfferAt
  <2>2. \A i \in OfferAt(q) : i = 1
    BY <2>1 DEF Carries
  <2>3. OfferAt(r) = {}
    <3> SUFFICES ASSUME NEW i \in OfferAt(r) PROVE FALSE
      OBVIOUS
    <3>1. i + 1 = 1 /\ i \in Nat \ {0}
      BY <1>6, <2>2
    <3> QED BY <3>1
  <2>4. o = {q[1].v}
    BY <2>1, <2>2 DEF Carries
  <2>5. Carries(r, {})
    BY <1>5, <2>3 DEF Carries
  <2> QED BY <1>2, <1>4, <1>8, <2>4, <2>5 DEF r
<1>9. CASE q[1].type # "offer"
  <2>1. 1 \notin OfferAt(q)
    BY <1>9 DEF OfferAt
  <2>2. \A i, j \in OfferAt(r) : i = j
    <3> TAKE i, j \in OfferAt(r)
    <3>1. i + 1 \in OfferAt(q) /\ j + 1 \in OfferAt(q) /\ i \in Nat /\ j \in Nat
      BY <1>6
    <3>2. i + 1 = j + 1
      BY <3>1 DEF Carries
    <3> QED BY <3>1, <3>2
  <2>3. o = {r[i].v : i \in OfferAt(r)}
    <3>1. ASSUME NEW v \in o PROVE \E i \in OfferAt(r) : v = r[i].v
      <4>1. PICK i \in OfferAt(q) : v = q[i].v
        BY DEF Carries
      <4> QED BY <1>7, <2>1, <4>1
    <3>2. ASSUME NEW i \in OfferAt(r) PROVE r[i].v \in o
      BY <1>6 DEF Carries
    <3> QED BY <3>1, <3>2
  <2>4. Carries(r, o)
    BY <1>5, <2>2, <2>3 DEF Carries
  <2> QED BY <1>2, <1>4, <1>9, <2>4 DEF r
<1> QED BY <1>8, <1>9

\* The rest is lost.
LEMMA CarriesCut ==
  ASSUME NEW q, NEW o, Carries(q, o), NEW n \in 0 .. Len(q)
  PROVE  \E a \in SUBSET o : Carries(SubSeq(q, 1, n), a)
<1> DEFINE r == SubSeq(q, 1, n)
           a == {r[i].v : i \in OfferAt(r)}
<1>1. IsStream(q)
  BY DEF Carries, GoodFrame, IsStream
<1>2. IsSeq(r) /\ \A i \in 1 .. Len(r) : i \in 1 .. Len(q) /\ r[i] = q[i]
  BY <1>1, StreamCut DEF IsStream
<1> HIDE DEF r
<1>3. \A i \in OfferAt(r) : i \in OfferAt(q) /\ r[i] = q[i]
  BY <1>2 DEF OfferAt
<1>4. a \in SUBSET o
  BY <1>3 DEF Carries
<1>5. Carries(r, a)
  BY <1>2, <1>3 DEF Carries
<1> QED BY <1>4, <1>5 DEF r

\* The first frame is changed.
LEMMA CarriesChanged ==
  ASSUME NEW q, NEW o, Carries(q, o), q # <<>>, NEW g \in Changed(Head(q))
  PROVE  Carries(<<g>> \o Tail(q), o)
<1> DEFINE f == Head(q)
           r == <<g>> \o Tail(q)
<1>1. GoodFrame(f) /\ f = q[1] /\ IsStream(q)
  BY CarriesRest DEF Carries, GoodFrame, IsStream
<1>2. IsFrame(g) /\ g.type = f.type
  BY <1>1, ChangedIs DEF GoodFrame
<1>3. GoodFrame(g) /\ (f.type = "offer" => g.v = f.v)
  <2> HIDE DEF f
  <2>0. g \in Changed(f)
    BY DEF f
  <2>1. CASE f.type \in {"hello", "hello_ack"} \/ f.type \in {"auth_init", "auth_confirm"}
    BY <1>2, <2>1 DEF GoodFrame
  <2>2. CASE f.type \notin {"hello", "hello_ack", "auth_init", "auth_confirm"} /\ f.sealed # <<>>
    <3>1. g = [f EXCEPT !.bad = TRUE]
      BY <2>0, <2>2 DEF Changed
    <3>2. g.v = f.v
      BY <1>1, <3>1 DEF GoodFrame, IsFrame
    <3> QED BY <1>1, <1>2, <3>2 DEF GoodFrame
  <2>3. CASE f.type \notin {"hello", "hello_ack", "auth_init", "auth_confirm"} /\ f.sealed = <<>> /\ f.type = "item_batch"
    <3> DEFINE w == {[i EXCEPT !.bad = TRUE] : i \in f.v}
    <3>1. g = [f EXCEPT !.v = w]
      BY <2>0, <2>3 DEF Changed
    <3>2. w \subseteq [blob : Blob, bad : BOOLEAN]
      BY <1>1, <2>3 DEF GoodFrame
    <3> HIDE DEF w
    <3>3. g.v = w
      BY <1>1, <3>1 DEF GoodFrame, IsFrame
    <3> QED BY <1>2, <2>3, <3>2, <3>3 DEF GoodFrame
  <2>4. CASE f.type \notin {"hello", "hello_ack", "auth_init", "auth_confirm"} /\ f.sealed = <<>> /\ f.type = "pack_item"
    <3> DEFINE w == [f.v EXCEPT !.bad = TRUE]
    <3>1. g = [f EXCEPT !.v = w]
      BY <2>0, <2>4 DEF Changed
    <3>2. w = [k \in {"name", "blobs", "bad"} |-> w[k]] /\ w.blobs \subseteq Blob
      BY <1>1, <2>4 DEF GoodFrame
    <3> HIDE DEF w
    <3>3. g.v = w
      BY <1>1, <3>1 DEF GoodFrame, IsFrame
    <3> QED BY <1>2, <2>4, <3>2, <3>3 DEF GoodFrame
  <2>5. CASE f.type \notin {"hello", "hello_ack", "auth_init", "auth_confirm", "item_batch", "pack_item"} /\ f.sealed = <<>>
    BY <2>0, <2>5 DEF Changed
  <2> QED BY <2>1, <2>2, <2>3, <2>4, <2>5
<1>4. /\ IsStream(r) /\ Len(r) = Len(q) /\ r[1] = g /\ \A i \in 1 .. Len(q) : i # 1 => r[i] = q[i]
  BY <1>1, <1>2, StreamPut
<1> HIDE DEF r, f
<1>5. \A i \in 1 .. Len(q) : GoodFrame(r[i]) /\ r[i].type = q[i].type /\ (q[i].type = "offer" => r[i].v = q[i].v)
  BY <1>1, <1>2, <1>3, <1>4 DEF Carries
<1>6. OfferAt(r) = OfferAt(q) /\ \A i \in OfferAt(q) : r[i].v = q[i].v
  BY <1>4, <1>5 DEF OfferAt
<1>7. {r[i].v : i \in OfferAt(q)} = {q[i].v : i \in OfferAt(q)}
  BY <1>6
<1>8. Carries(r, o)
  BY <1>4, <1>5, <1>6, <1>7 DEF Carries, IsStream
<1> QED BY <1>8 DEF r

-----------------------------------------------------------------------------
(* What an end writes.                                                      *)

\* The elements of a finite set in some order.
LEMMA Ordered ==
  ASSUME NEW S, IsFiniteSet(S)
  PROVE  SetToSeq(S) \in Seq(S)
<1>1. PICK n \in Nat : ExistsBijection(1 .. n, S)
  BY FS_NatBijection
<1>2. PICK g : g \in Bijection(1 .. n, S)
  BY <1>1 DEF ExistsBijection
<1>3. Cardinality(S) = n
  BY <1>1, FS_CountingElements
<1>4. g \in [1 .. Cardinality(S) -> S] /\ IsInjective(g)
  BY <1>2, <1>3 DEF Bijection, Injection, IsInjective
<1>5. SetToSeq(S) \in [1 .. Cardinality(S) -> S]
  BY <1>4 DEF SetToSeq
<1> QED BY <1>3, <1>5

\* Pieces of a finite set.
LEMMA PiecesAre ==
  ASSUME NEW S, IsFiniteSet(S), NEW n \in Nat \ {0}
  PROVE  Pieces(S, n) \in Seq(SUBSET S)
<1> DEFINE q == SetToSeq(S)
           k == (Len(q) + n - 1) \div n
           top(i) == IF i * n < Len(q) THEN i * n ELSE Len(q)
           part(i) == {q[j] : j \in ((i - 1) * n + 1) .. top(i)}
<1>1. q \in Seq(S) /\ Len(q) \in Nat
  BY Ordered
<1>2. Pieces(S, n) = [i \in 1 .. k |-> part(i)]
  BY DEF Pieces
<1> HIDE DEF q
<1>3. k \in Nat
  BY <1>1
<1>4. ASSUME NEW i \in 1 .. k PROVE part(i) \subseteq S
  <2>1. i - 1 \in Nat /\ n \in Nat /\ i * n \in Int
    BY <1>3
  <2>2. (i - 1) * n \in Nat
    BY <2>1
  <2>3. \A j \in ((i - 1) * n + 1) .. top(i) : j \in 1 .. Len(q)
    BY <1>1, <2>1, <2>2
  <2> QED BY <1>1, <2>3
<1> HIDE DEF k, part
<1>5. Pieces(S, n) \in [1 .. k -> SUBSET S]
  BY <1>2, <1>4
<1> QED BY <1>3, <1>5

\* The first folder of a set is one of the set.
LEMMA FirstIn ==
  ASSUME NEW x, cfg.folders[x.me] \in Seq(Folder), NEW fs, fs \subseteq Own(x), fs # {}
  PROVE  First(x, fs) \in fs
<1> DEFINE own == cfg.folders[x.me]
           T == {i \in DOMAIN own : own[i] \in fs}
<1>1. own \in Seq(Folder) /\ DOMAIN own = 1 .. Len(own) /\ Len(own) \in Nat
  OBVIOUS
<1>2. fs \subseteq {own[i] : i \in DOMAIN own}
  BY DEF Own, ToSet
<1>3. T # {} /\ T \subseteq Nat
  BY <1>1, <1>2
<1>4. PICK i \in T : \A j \in T : ~(<<j, i>> \in OpToRel(<, Nat))
  BY <1>3, NatLessThanWellFounded, WFMin
<1>5. \A j \in T : ~(j < i)
  BY <1>3, <1>4 DEF OpToRel
<1>6. i \in DOMAIN own /\ own[i] \in fs /\ \A j \in 1 .. i - 1 : own[j] \notin fs
  BY <1>1, <1>5
<1> DEFINE P(k) == own[k] \in fs /\ \A j \in 1 .. k - 1 : own[j] \notin fs
<1>7. P(CHOOSE k \in DOMAIN own : P(k))
  <2> HIDE DEF own
  <2> QED BY <1>6
<1> QED BY <1>7 DEF First

\* The location table is finite.
LEMMA RowsFinite ==
  ASSUME cfg \in Cases, NEW e \in End, NEW f \in Folder
  PROVE  IsFiniteSet(Rows(e, f))
<1> DEFINE P == cfg.packs[e][f]
           N == {p.name : p \in P}
           g == [p \in P |-> p.name]
<1>1. IsFiniteSet(P) /\ \A p \in P : p.blobs \subseteq Blob
  BY CasesAssumption
<1> HIDE DEF P
<1>2. g \in Surjection(P, N)
  BY DEF Surjection
<1>3. IsFiniteSet(N)
  BY <1>1, <1>2, FS_Surjection
<1>4. IsFiniteSet(Blob \X N)
  BY <1>3, FS_Product, WireAssumption
<1>5. Rows(e, f) \in SUBSET (Blob \X N)
  BY <1>1 DEF Rows, P
<1> QED BY <1>4, <1>5, FS_Subset

\* Frames made of the elements of a sequence.
LEMMA CarriesMade ==
  ASSUME NEW k \in Nat, NEW q, DOMAIN q = 1 .. k, q = [i \in 1 .. k |-> q[i]],
         \A i \in 1 .. k : GoodFrame(q[i]) /\ q[i].type # "offer"
  PROVE  Carries(q, {})
<1> DEFINE T == {q[i] : i \in 1 .. k}
<1>1. q \in [1 .. k -> T]
  OBVIOUS
<1> HIDE DEF T
<1>2. q \in Seq(T) /\ Len(q) = k
  BY <1>1
<1>3. IsSeq(q)
  BY <1>2 DEF IsSeq
<1> QED BY <1>2, <1>3, CarriesFrames

\* A single frame that is no offer.
LEMMA CarriesFrame ==
  ASSUME NEW t, NEW v, t \notin {"offer", "item_batch", "pack_item"}
  PROVE  Carries(<<Frame(t, v)>>, {})
<1> DEFINE g == Frame(t, v)
<1>1. GoodFrame(g) /\ g.type # "offer"
  BY FramesAre DEF GoodFrame
<1> HIDE DEF g
<1>2. Carries(<<g>>, {})
  <2>1. Carries(<<g>>, IF g.type = "offer" THEN {g.v} ELSE {})
    BY <1>1, CarriesOne
  <2> QED BY <1>1, <2>1
<1> QED BY <1>2 DEF g

\* An offer.
Offering(f, man) == [folder |-> f, man |-> man]

\* An offer is a stream that carries it.
LEMMA CarriesOffer ==
  ASSUME NEW f, NEW man \in MaybeMan
  PROVE  Carries(<<FolderOffer(f, man)>>, {Offering(f, man)})
<1> DEFINE g == FolderOffer(f, man)
<1>1. GoodFrame(g) /\ g.type = "offer" /\ g.v = Offering(f, man)
  BY FramesAre DEF GoodFrame, FolderOffer, Offering
<1> HIDE DEF g
<1>2. Carries(<<g>>, {g.v})
  <2>1. Carries(<<g>>, IF g.type = "offer" THEN {g.v} ELSE {})
    BY <1>1, CarriesOne
  <2> QED BY <1>1, <2>1
<1> QED BY <1>1, <1>2 DEF g

\* send_my_adverts().
LEMMA AdvertsSent ==
  ASSUME NEW x, cfg \in Cases, x.me \in End, NEW f
  PROVE  Carries(SendMyAdverts(x, f), {})
<1> DEFINE parts == IF Knows(x, f) THEN Pieces(Rows(x.me, f), MaxRows) ELSE <<>>
           q == [i \in DOMAIN parts |-> IndexAdvert(parts[i], i # Len(parts))]
<1>1. Carries(<<IndexAdvert({}, FALSE)>>, {})
  BY CarriesFrame DEF IndexAdvert
<1>2. PICK k \in Nat : DOMAIN parts = 1 .. k
  <2>1. CASE Knows(x, f)
    <3>1. cfg.folders[x.me] \in Seq(Folder)
      BY CasesAssumption
    <3>2. f \in Folder
      BY <2>1, <3>1 DEF Knows, ToSet
    <3>3. parts \in Seq(SUBSET Rows(x.me, f))
      BY <2>1, <3>2, RowsFinite, PiecesAre, WireAssumption
    <3>4. Len(parts) \in Nat /\ DOMAIN parts = 1 .. Len(parts)
      BY <3>3
    <3> QED BY <3>4
  <2>2. CASE ~Knows(x, f)
    <3>1. 0 \in Nat /\ DOMAIN parts = 1 .. 0
      BY <2>2
    <3> QED BY <3>1
  <2> QED BY <2>1, <2>2
<1>3. SendMyAdverts(x, f) = <<IndexAdvert({}, FALSE)>> \/ SendMyAdverts(x, f) = q
  BY DEF SendMyAdverts
<1> HIDE DEF parts
<1>4. DOMAIN q = 1 .. k /\ q = [i \in 1 .. k |-> q[i]]
  BY <1>2
<1>5. \A i \in 1 .. k : GoodFrame(q[i]) /\ q[i].type # "offer"
  <2> TAKE i \in 1 .. k
  <2>1. q[i] = Frame("advert", [rows |-> parts[i], more |-> i # Len(parts)])
    BY <1>2 DEF IndexAdvert
  <2> QED BY <2>1, FramesAre DEF GoodFrame
<1> HIDE DEF q
<1>6. Carries(q, {})
  BY <1>4, <1>5, CarriesMade
<1> QED BY <1>1, <1>3, <1>6

\* The manifest an end announces.
LEMMA EffectiveIs ==
  ASSUME NEW x, x.after \in [Folder -> MaybeMan], cfg \in Cases, x.me \in End, NEW f
  PROVE  EffectiveManifest(x, f) \in MaybeMan /\ Own(x) \subseteq Folder
<1>1. cfg.folders[x.me] \in Seq(Folder)
  BY CasesAssumption
<1>2. Own(x) \subseteq Folder
  BY <1>1 DEF Own, ToSet
<1> QED BY <1>2 DEF EffectiveManifest, Knows, Own, MaybeMan

\* announce() and echo() write one offer.
LEMMA Announced ==
  ASSUME NEW x, x.after \in [Folder -> MaybeMan], cfg \in Cases, x.me \in End, NEW f
  PROVE  Carries(Announce(x, f), {Offering(f, EffectiveManifest(x, f))})
<1> DEFINE o == {Offering(f, EffectiveManifest(x, f))}
           p == <<FolderOffer(f, EffectiveManifest(x, f))>>
           q == IF x.round = 1 THEN SendMyAdverts(x, f) ELSE <<>>
<1>1. Carries(p, o)
  BY EffectiveIs, CarriesOffer
<1>2. Carries(q, {})
  BY AdvertsSent, CarriesNone
<1>3. Announce(x, f) = p \o q
  BY DEF Announce
<1> HIDE DEF o, p, q
<1>4. Carries(p \o q, o \cup {})
  BY <1>1, <1>2, CarriesCat
<1> QED BY <1>3, <1>4 DEF o

\* A batch.
LEMMA BatchIs ==
  ASSUME NEW B, B \subseteq Blob
  PROVE  /\ GoodFrame(ItemBatch({[blob |-> b, bad |-> FALSE] : b \in B}))
         /\ ItemBatch({[blob |-> b, bad |-> FALSE] : b \in B}).type = "item_batch"
<1> DEFINE w == {[blob |-> b, bad |-> FALSE] : b \in B}
           g == Frame("item_batch", w)
<1>1. w \subseteq [blob : Blob, bad : BOOLEAN]
  <2>1. \A b \in B : [blob |-> b, bad |-> FALSE] \in [blob : Blob, bad : BOOLEAN]
    OBVIOUS
  <2> QED BY <2>1, Zenon
<1> HIDE DEF w
<1>2. GoodFrame(g) /\ g.type = "item_batch"
  BY <1>1, FramesAre DEF GoodFrame
<1> QED BY <1>2 DEF w, ItemBatch

\* The empty batch.
LEMMA EmptyBatch == Carries(<<ItemBatch({})>>, {})
<1> DEFINE g == Frame("item_batch", {})
<1>1. GoodFrame(g) /\ g.type # "offer"
  BY FramesAre DEF GoodFrame
<1> HIDE DEF g
<1>2. Carries(<<g>>, IF g.type = "offer" THEN {g.v} ELSE {})
  BY <1>1, CarriesOne
<1> QED BY <1>1, <1>2 DEF g, ItemBatch

\* serve_items() and serve_packs().
LEMMA ItemsServed ==
  ASSUME NEW x, cfg \in Cases, x.me \in End, store[x.me] \in [Folder -> SUBSET Blob], NEW f \in Folder, NEW items
  PROVE  Carries(ServeItems(x, f, items), {})
<1> DEFINE S == items \cap store[x.me][f]
           parts == Pieces(S, MaxBatch)
           q == [i \in DOMAIN parts |-> ItemBatch({[blob |-> b, bad |-> FALSE] : b \in parts[i]})]
<1>1. S \in SUBSET Blob
  OBVIOUS
<1>2. parts \in Seq(SUBSET S)
  BY <1>1, FS_Subset, PiecesAre, WireAssumption
<1>3. ServeItems(x, f, items) = q \o <<ItemBatch({})>>
  BY DEF ServeItems
<1> HIDE DEF S, parts
<1>4. Len(parts) \in Nat /\ DOMAIN parts = 1 .. Len(parts) /\ \A i \in 1 .. Len(parts) : parts[i] \subseteq Blob
  BY <1>1, <1>2
<1> DEFINE k == Len(parts)
<1>5. DOMAIN q = 1 .. k /\ q = [i \in 1 .. k |-> q[i]]
  BY <1>4
<1>6. \A i \in 1 .. k : GoodFrame(q[i]) /\ q[i].type # "offer"
  <2> TAKE i \in 1 .. k
  <2>1. q[i] = ItemBatch({[blob |-> b, bad |-> FALSE] : b \in parts[i]})
    BY <1>4
  <2>2. parts[i] \subseteq Blob
    BY <1>4
  <2> HIDE DEF q
  <2>3. GoodFrame(q[i]) /\ q[i].type = "item_batch"
    BY <2>1, <2>2, BatchIs
  <2> QED BY <2>3
<1> HIDE DEF q, k
<1>7. Carries(q, {})
  BY <1>4, <1>5, <1>6, CarriesMade DEF k
<1>8. Carries(q \o <<ItemBatch({})>>, {} \cup {})
  BY <1>7, EmptyBatch, CarriesCat
<1> QED BY <1>3, <1>8

\* The packs that are there in full.
LEMMA PacksServed ==
  ASSUME NEW x, cfg \in Cases, x.me \in End, NEW f \in Folder, NEW names
  PROVE  Carries(ServePacks(x, f, names), {})
<1> DEFINE S == {p \in cfg.packs[x.me][f] : p.name \in names /\ p.blobs \subseteq store[x.me][f]}
           found == SetToSeq(S)
           q == [i \in DOMAIN found |-> PackItem([name |-> found[i].name, blobs |-> found[i].blobs, bad |-> FALSE])]
<1>1. S \in SUBSET cfg.packs[x.me][f] /\ IsFiniteSet(cfg.packs[x.me][f]) /\ \A p \in S : p.blobs \subseteq Blob
  BY CasesAssumption
<1>2. IsFiniteSet(S)
  BY <1>1, FS_Subset
<1>3. found \in Seq(S)
  BY <1>2, Ordered
<1>4. ServePacks(x, f, names) = q \o <<ItemBatch({})>>
  BY DEF ServePacks
<1> HIDE DEF S, found
<1>5. Len(found) \in Nat /\ DOMAIN found = 1 .. Len(found) /\ \A i \in 1 .. Len(found) : found[i].blobs \subseteq Blob
  BY <1>1, <1>3
<1> DEFINE k == Len(found)
<1>6. DOMAIN q = 1 .. k /\ q = [i \in 1 .. k |-> q[i]]
  BY <1>5
<1>7. \A i \in 1 .. k : GoodFrame(q[i]) /\ q[i].type # "offer"
  <2> TAKE i \in 1 .. k
  <2> DEFINE w == [name |-> found[i].name, blobs |-> found[i].blobs, bad |-> FALSE]
  <2>1. q[i] = Frame("pack_item", w)
    BY <1>5 DEF PackItem
  <2>2. w = [j \in {"name", "blobs", "bad"} |-> w[j]] /\ w.blobs \subseteq Blob
    BY <1>5
  <2> HIDE DEF q, w
  <2> QED BY <2>1, <2>2, FramesAre DEF GoodFrame
<1> HIDE DEF q, k
<1>8. Carries(q, {})
  BY <1>5, <1>6, <1>7, CarriesMade DEF k
<1>9. Carries(q \o <<ItemBatch({})>>, {} \cup {})
  BY <1>8, EmptyBatch, CarriesCat
<1> QED BY <1>4, <1>9

-----------------------------------------------------------------------------
(* The turns of the two ends.                                               *)

\* Where an end is: shaking hands, exchanging offers, in a pull stage.
Shake == {"hello", "ack", "auth", "confirm"}
Exchange == {"offer", "echo", "offer_advert", "echo_advert"}
Stage == {"serve", "batch", "packs"}

\* An end that is through its first round of offers, one that has an offer and
\* reads its adverts, one that waits for an echo.
Past(x) == x.round = 2 \/ x.pc \in Stage
Adverts(x) == x.pc \in {"offer_advert", "echo_advert"}
Awaits(x) == x.pc \in {"echo", "echo_advert"}

\* The rounds of an end, and the folders that are folders.
Placed(x) ==
  /\ x.round \in {0, 1, 2}
  /\ x.round = 0 <=> x.keys = <<>>
  /\ x.round = 0 <=> (x.pc \in Shake \/ (x.pc = "failed" /\ x.round = 0))
  /\ x.pc \in Shake \cup Exchange \cup Stage \cup {"bye", "done", "failed"}
  /\ Adverts(x) \/ x.pc \in Stage => x.round = 1
  /\ x.pc \in {"bye", "done"} => x.round = 2
  /\ Awaits(x) => x.at # NoFolder
  /\ Adverts(x) => x.offer.folder # NoFolder

\* An offer noted, and the one that ends a list.
Note(p, w) == [g \in DOMAIN p \cup {w.folder} |-> IF g = w.folder THEN w.man ELSE p[g]]
Nothing == Offering(NoFolder, NoManifest)

\* What an end does when it read the offers n and writes the offers o, from its
\* locals x to its locals z.  It goes on, or fails, without an offer:
Quiet(x, z, o) ==
  /\ o = {} /\ z.round = x.round /\ z.peerf = x.peerf
  /\ \/ z.pc = "failed" /\ z.after = x.after
     \/ z.pc = x.pc /\ z.at = x.at /\ z.offer = x.offer /\ z.after = x.after
     \/ x.pc \in Shake /\ z.pc \in Shake
     \/ x.pc \in Stage /\ z.pc \in Stage
     \/ x.pc = "bye" /\ z.pc = "done" /\ z.after = x.after

\* it has an offer, and its adverts follow;
Opens(x, n, z, o) ==
  /\ o = {} /\ n = {z.offer} /\ x.round = 1 /\ z.round = 1
  /\ z.peerf = x.peerf /\ z.after = x.after /\ z.at = x.at
  /\ \/ x.pc = "echo" /\ z.pc = "echo_advert"
     \/ x.pc = "offer" /\ z.pc = "offer_advert" /\ z.offer.folder # NoFolder

\* it has an offer w in full;
Consumes(x, n, w) ==
  \/ x.round = 1 /\ Adverts(x) /\ n = {} /\ w = x.offer
  \/ x.round = 2 /\ x.pc \in {"offer", "echo"} /\ n = {w} /\ (x.pc = "offer" => w.folder # NoFolder)

\* and answers it;
Answers(x, n, z, o) ==
  \E w : /\ Consumes(x, n, w) /\ x.pc \in {"offer", "offer_advert"}
         /\ z.pc = "offer" /\ z.round = x.round /\ z.after = x.after /\ z.peerf = Note(x.peerf, w)
         /\ o = {Offering(w.folder, EffectiveManifest(x, w.folder))}

\* or it is its turn, knowing the offers p of the peer;
Goes(x, n, p) ==
  \/ Awaits(x) /\ \E w : Consumes(x, n, w) /\ p = Note(x.peerf, w)
  \/ x.me = "R" /\ x.pc = "offer" /\ x.round \in {1, 2} /\ p = x.peerf /\ \E w : n = {w} /\ w.folder = NoFolder

\* and it announces a folder, or the end of its list;
Says(z, o) == z.pc = "echo" /\ z.at # NoFolder /\ o = {Offering(z.at, EffectiveManifest(z, z.at))}
Announces(x, n, z, o) ==
  /\ Goes(x, n, z.peerf) /\ z.round = x.round /\ z.after = x.after
  /\ Says(z, o) \/ (x.me = "I" /\ z.pc = "offer" /\ o = {Nothing})

\* a round begins with the offers q, or it ends;
Begins(z, q) ==
  /\ z.peerf = <<>>
  /\ z.me = "R" => z.pc = "offer" /\ q = {}
  /\ z.me = "I" => Says(z, q) \/ (z.pc = "offer" /\ q = {Nothing})
Over(x, z, p, q) ==
  \/ x.round = 1 /\ z.round = 1 /\ z.pc \in Stage /\ q = {}
  \/ x.round = 1 /\ z.round = 2 /\ Begins(z, q)
  \/ x.round = 2 /\ z.round = 2 /\ z.pc = "bye" /\ q = {} /\ z.peerf = p
Closes(x, n, z, o) ==
  /\ z.after = x.after
  /\ \E p, q : /\ Over(x, z, p, q)
               /\ \/ /\ x.me = "I" /\ x.pc = "offer" /\ p = x.peerf /\ o = q
                     /\ \E w : n = {w} /\ w.folder = NoFolder
                  \/ x.me = "R" /\ Goes(x, n, p) /\ o = {Nothing}

\* or a round follows the handshake or a pull stage.
Enters(x, n, z, o) ==
  /\ n = {} /\ Begins(z, o)
  /\ \/ x.pc \in Stage /\ z.round = 2
     \/ x.pc \in Shake /\ z.round = 1 /\ z.after = x.after

Turn(x, n, z, o) ==
  /\ z.me = x.me
  /\ \/ Quiet(x, z, o) \/ Opens(x, n, z, o) \/ Answers(x, n, z, o)
     \/ Announces(x, n, z, o) \/ Closes(x, n, z, o) \/ Enters(x, n, z, o)

-----------------------------------------------------------------------------
(* The two ends, x the initiator and y the responder, and the offers a and b *)
(* on their way to them.                                                    *)

\* One offer is under way between the two ends, or none.
OneOffer(x, y, a, b) ==
  /\ a = {} \/ b = {}
  /\ Adverts(x) \/ Adverts(y) => a = {} /\ b = {}
  /\ ~(Adverts(x) /\ Adverts(y))
  /\ x.round = 0 \/ x.pc \in Stage => a = {} /\ b = {} /\ ~Adverts(y)

\* An end that waits for an echo gets the one of the folder it announced.
Echoes(x, y, a, b) ==
  x.pc = "echo" =>
    /\ \A v \in a \cup b : v.folder = x.at
    /\ y.pc = "offer_advert" => y.offer.folder = x.at

\* The places of the two ends.
Places(x, y, a, b) ==
  /\ x.round = 0 => y.round # 2 /\ y.pc \in Shake \cup {"offer", "failed"}
  /\ Awaits(y) => x.pc \in {"offer", "offer_advert", "failed"}
  /\ Past(y) /\ x.round = 1 /\ x.pc \in Exchange => x.pc = "offer" /\ b = {} /\ \A v \in a : v.folder = NoFolder
  /\ Past(x) /\ y.pc \in Exchange => y.round = 2
  /\ \A v \in b : v.folder = NoFolder => x.pc \in {"offer", "failed"}
  /\ \A v \in a : v.folder = NoFolder /\ y.pc \in Exchange => y.round = 2

\* An offer on its way to an end that is past its first round is one of the
\* second, with the manifest the sender has.
Current(x, y, a) ==
  Past(x) => \A v \in a : y.round = 2 /\ (v.folder # NoFolder => v.man = EffectiveManifest(y, v.folder))

\* So is what an end noted in its second round.
Known(x, y) ==
  x.round = 2 => \A f \in DOMAIN x.peerf : y.round = 2 /\ x.peerf[f] = EffectiveManifest(y, f)

Pair(x, y, a, b) ==
  /\ OneOffer(x, y, a, b) /\ Places(x, y, a, b)
  /\ Echoes(x, y, a, b) /\ Echoes(y, x, b, a)
  /\ Current(x, y, a) /\ Current(y, x, b) /\ Known(x, y) /\ Known(y, x)

\* Fewer offers.
LEMMA PairLess ==
  ASSUME NEW x, NEW y, NEW a, NEW b, Pair(x, y, a, b), NEW c \in SUBSET a, NEW d \in SUBSET b
  PROVE  Pair(x, y, c, d)
BY DEF Pair, OneOffer, Places, Echoes, Current, Known

\* What an end announces depends on what it has.
LEMMA SameManifest ==
  ASSUME NEW x, NEW z, z.me = x.me, z.after = x.after
  PROVE  \A f : EffectiveManifest(z, f) = EffectiveManifest(x, f)
BY DEF EffectiveManifest, Knows

\* An offer noted.
LEMMA Notes ==
  ASSUME NEW p, NEW w, NEW f \in DOMAIN Note(p, w)
  PROVE  IF f = w.folder THEN Note(p, w)[f] = w.man ELSE f \in DOMAIN p /\ Note(p, w)[f] = p[f]
BY DEF Note

-----------------------------------------------------------------------------
(* The initiator's turns.                                                   *)

\* It goes on without an offer.
LEMMA InitQuiet ==
  ASSUME NEW x, NEW y, NEW z, NEW a, NEW b, NEW c \in SUBSET a, Pair(x, y, a, b), Placed(x), Placed(y), Placed(z),
         z.me = x.me, Quiet(x, z, {})
  PROVE  Pair(z, y, c, b)
<1>1. z.after = x.after \/ x.round = 0 \/ x.pc \in Stage
  BY DEF Quiet, Placed
<1>2. z.after = x.after => \A f : EffectiveManifest(z, f) = EffectiveManifest(x, f)
  BY SameManifest
<1>3. OneOffer(z, y, c, b)
  BY DEF Pair, OneOffer, Quiet, Placed, Adverts, Shake, Stage
<1>4. Places(z, y, c, b)
  BY DEF Pair, Places, Quiet, Placed, Past, Awaits, Exchange, Stage, Shake
<1>5. Echoes(z, y, c, b) /\ Echoes(y, z, b, c)
  BY DEF Pair, Echoes, Quiet, Shake, Stage
<1>6. Current(z, y, c)
  BY DEF Pair, Current, Quiet, Past, Placed, Shake, Stage
<1>7. Current(y, z, b)
  BY <1>1, <1>2 DEF Pair, Current, OneOffer, Quiet
<1>8. Known(z, y)
  BY DEF Pair, Known, Quiet
<1>9. Known(y, z)
  BY <1>1, <1>2 DEF Pair, Known, Quiet, Placed
<1> QED BY <1>3, <1>4, <1>5, <1>6, <1>7, <1>8, <1>9 DEF Pair

\* It has an offer, and adverts follow.
LEMMA InitOpens ==
  ASSUME NEW x, NEW y, NEW z, NEW n, NEW b, Pair(x, y, n, b), Placed(x), Placed(y), Placed(z),
         z.me = x.me, Opens(x, n, z, {})
  PROVE  Pair(z, y, {}, b)
<1>1. b = {} /\ ~Adverts(y) /\ z.offer \in n /\ x.round = 1 /\ z.round = 1 /\ x.pc \in Exchange
  BY DEF Pair, OneOffer, Opens, Exchange
<1>2. \A f : EffectiveManifest(z, f) = EffectiveManifest(x, f)
  BY SameManifest DEF Opens
<1>3. ~Past(y)
  BY <1>1 DEF Pair, Places, Opens
<1>4. OneOffer(z, y, {}, b)
  BY <1>1 DEF OneOffer, Opens, Adverts, Stage
<1>5. Places(z, y, {}, b)
  BY <1>1, <1>3 DEF Pair, Places, Opens, Past, Awaits, Exchange, Stage
<1>6. Echoes(z, y, {}, b) /\ Echoes(y, z, b, {})
  BY <1>1 DEF Pair, Echoes, Opens, Places, Awaits
<1>7. Current(z, y, {}) /\ Current(y, z, b)
  BY <1>1 DEF Current
<1>8. Known(z, y) /\ Known(y, z)
  BY <1>1, <1>3 DEF Known, Past
<1> QED BY <1>4, <1>5, <1>6, <1>7, <1>8 DEF Pair

\* It has an offer in full: nothing else is on its way.
LEMMA InitConsumes ==
  ASSUME NEW x, NEW y, NEW n, NEW a, NEW b, NEW w, Pair(x, y, a, b), Placed(x), n = {} \/ n = a, Consumes(x, n, w)
  PROVE  /\ a \ n = {} /\ b = {} /\ ~Adverts(y) /\ x.pc \in Exchange
         /\ x.round = 1 => ~Past(y) /\ Adverts(x) /\ w = x.offer
         /\ x.round = 2 => x.pc \in {"offer", "echo"} /\ y.round = 2 /\ w \in a
                            /\ (w.folder # NoFolder => w.man = EffectiveManifest(y, w.folder))
<1>1. CASE x.round = 1 /\ Adverts(x) /\ n = {} /\ w = x.offer
  BY <1>1 DEF Pair, OneOffer, Places, Adverts, Exchange
<1>2. CASE x.round = 2 /\ x.pc \in {"offer", "echo"} /\ n = {w}
  <2>1. a = {w} /\ b = {} /\ ~Adverts(y)
    BY <1>2 DEF Pair, OneOffer
  <2> QED BY <1>2, <2>1 DEF Pair, Current, Past, Exchange
<1> QED BY <1>1, <1>2 DEF Consumes

\* It answers.
LEMMA InitAnswers ==
  ASSUME NEW x, NEW y, NEW z, NEW n, NEW a, NEW b, NEW o, Pair(x, y, a, b), Placed(x), Placed(y), Placed(z),
         z.me = x.me, n = {} \/ n = a, Answers(x, n, z, o)
  PROVE  Pair(z, y, {}, o) /\ b = {} /\ a \ n = {}
<1>1. PICK w : /\ Consumes(x, n, w) /\ x.pc \in {"offer", "offer_advert"}
               /\ z.pc = "offer" /\ z.round = x.round /\ z.after = x.after /\ z.peerf = Note(x.peerf, w)
               /\ o = {Offering(w.folder, EffectiveManifest(x, w.folder))}
  BY DEF Answers
<1>2. /\ a \ n = {} /\ b = {} /\ ~Adverts(y) /\ x.pc \in Exchange
      /\ x.round = 1 => ~Past(y) /\ Adverts(x) /\ w = x.offer
      /\ x.round = 2 => x.pc \in {"offer", "echo"} /\ y.round = 2 /\ w \in a
                         /\ (w.folder # NoFolder => w.man = EffectiveManifest(y, w.folder))
  BY <1>1, InitConsumes
<1>3. \A f : EffectiveManifest(z, f) = EffectiveManifest(x, f)
  BY <1>1, SameManifest
<1>4. w.folder # NoFolder /\ x.round \in {1, 2}
  BY <1>1, <1>2 DEF Consumes, Placed
<1>5. \A v \in o : v.folder = w.folder /\ v.man = EffectiveManifest(z, w.folder)
  BY <1>1, <1>3 DEF Offering
<1>6. OneOffer(z, y, {}, o)
  BY <1>1, <1>2, <1>4 DEF OneOffer, Adverts, Stage
<1>7. Places(z, y, {}, o)
  BY <1>1, <1>2, <1>4 DEF Pair, Places, Past, Stage, Awaits
<1>8. Echoes(z, y, {}, o)
  BY <1>1 DEF Echoes
<1>9. Echoes(y, z, o, {})
  BY <1>1, <1>2, <1>4, <1>5 DEF Pair, Echoes, Adverts
<1>10. Current(z, y, {})
  BY DEF Current
<1>11. Current(y, z, o)
  BY <1>1, <1>2, <1>4, <1>5 DEF Current
<1>12. Known(z, y)
  BY <1>1, <1>2, <1>4, Notes DEF Pair, Known
<1>13. Known(y, z)
  BY <1>1, <1>3 DEF Pair, Known
<1> QED BY <1>2, <1>6, <1>7, <1>8, <1>9, <1>10, <1>11, <1>12, <1>13 DEF Pair

\* It announces, or says that it has no more.
LEMMA InitAnnounces ==
  ASSUME NEW x, NEW y, NEW z, NEW n, NEW a, NEW b, NEW o, Pair(x, y, a, b), Placed(x), Placed(y), Placed(z),
         x.me = "I", z.me = x.me, n = {} \/ n = a, Announces(x, n, z, o)
  PROVE  Pair(z, y, {}, o) /\ b = {} /\ a \ n = {}
<1>1. PICK w : Consumes(x, n, w) /\ Awaits(x) /\ z.peerf = Note(x.peerf, w)
  BY DEF Announces, Goes
<1>2. /\ a \ n = {} /\ b = {} /\ ~Adverts(y) /\ x.pc \in Exchange
      /\ x.round = 1 => ~Past(y) /\ Adverts(x) /\ w = x.offer
      /\ x.round = 2 => x.pc \in {"offer", "echo"} /\ y.round = 2 /\ w \in a
                         /\ (w.folder # NoFolder => w.man = EffectiveManifest(y, w.folder))
  BY <1>1, InitConsumes
<1>3. /\ z.round = x.round /\ z.after = x.after /\ \A f : EffectiveManifest(z, f) = EffectiveManifest(x, f)
  BY SameManifest DEF Announces
<1>4. x.round \in {1, 2} /\ ~Awaits(y)
  BY <1>1, <1>2 DEF Consumes, Pair, Places, Awaits
<1>5. w.folder # NoFolder
  BY <1>1, <1>2, <1>4 DEF Pair, Echoes, Placed, Awaits
<1>6. \/ z.pc = "echo" /\ z.at # NoFolder /\ \A v \in o : v.folder = z.at /\ v.man = EffectiveManifest(z, z.at)
      \/ z.pc = "offer" /\ \A v \in o : v.folder = NoFolder
  BY DEF Announces, Says, Offering, Nothing
<1>7. OneOffer(z, y, {}, o)
  BY <1>2, <1>3, <1>4, <1>6 DEF OneOffer, Adverts, Stage
<1>8. Places(z, y, {}, o)
  BY <1>1, <1>2, <1>3, <1>4, <1>6 DEF Pair, Places, Past, Stage, Awaits
<1>9. Echoes(z, y, {}, o) /\ Echoes(y, z, o, {})
  BY <1>2, <1>4, <1>6 DEF Echoes, Awaits, Adverts
<1>10. Current(z, y, {})
  BY DEF Current
<1>11. Current(y, z, o)
  BY <1>2, <1>3, <1>4, <1>6 DEF Current
<1>12. Known(z, y)
  BY <1>1, <1>2, <1>3, <1>4, <1>5, Notes DEF Pair, Known
<1>13. Known(y, z)
  BY <1>3 DEF Pair, Known
<1> QED BY <1>2, <1>7, <1>8, <1>9, <1>10, <1>11, <1>12, <1>13 DEF Pair

\* It begins a round.
LEMMA InitBegins ==
  ASSUME NEW x, NEW y, NEW z, NEW a, NEW b, NEW q, Pair(x, y, a, b), Placed(x), Placed(y), Placed(z),
         z.me = "I", Begins(z, q), b = {}, ~Adverts(y), ~Awaits(y),
         \/ z.round = 2 /\ x.round = 1 /\ (y.pc \in Exchange => y.round = 2)
         \/ z.round = 1 /\ x.round = 0
  PROVE  Pair(z, y, {}, q)
<1>1. \/ z.pc = "echo" /\ z.at # NoFolder /\ \A v \in q : v.folder = z.at /\ v.man = EffectiveManifest(z, z.at)
      \/ z.pc = "offer" /\ \A v \in q : v.folder = NoFolder
  BY DEF Begins, Says, Offering, Nothing
<1>2. DOMAIN z.peerf = {}
  BY DEF Begins
<1>3. x.round = 0 => ~Past(y) /\ y.round # 2
  BY DEF Pair, Places, Past, Stage, Shake, Placed
<1>4. OneOffer(z, y, {}, q)
  BY <1>1 DEF OneOffer, Adverts, Stage
<1>5. Places(z, y, {}, q)
  BY <1>1, <1>3 DEF Places, Past, Stage, Exchange
<1>6. Echoes(z, y, {}, q) /\ Echoes(y, z, q, {})
  BY <1>1 DEF Echoes, Awaits, Adverts
<1>7. Current(z, y, {}) /\ Current(y, z, q)
  BY <1>1, <1>3 DEF Current
<1>8. Known(z, y)
  BY <1>2 DEF Known
<1>9. Known(y, z)
  BY <1>3 DEF Pair, Known
<1> QED BY <1>4, <1>5, <1>6, <1>7, <1>8, <1>9 DEF Pair

\* It has the responder's whole list.
LEMMA InitCloses ==
  ASSUME NEW x, NEW y, NEW z, NEW n, NEW a, NEW b, NEW o, Pair(x, y, a, b), Placed(x), Placed(y), Placed(z),
         x.me = "I", z.me = x.me, n = {} \/ n = a, Closes(x, n, z, o)
  PROVE  Pair(z, y, {}, o) /\ b = {} /\ a \ n = {}
<1>1. PICK p, q : Over(x, z, p, q) /\ x.pc = "offer" /\ p = x.peerf /\ o = q /\ \E w : n = {w} /\ w.folder = NoFolder
  BY DEF Closes
<1>2. PICK w : n = {w} /\ w.folder = NoFolder
  BY <1>1
<1>3. w \in a /\ b = {} /\ ~Adverts(y) /\ a \ n = {}
  BY <1>2 DEF Pair, OneOffer
<1>4. ~Awaits(y)
  BY <1>2, <1>3 DEF Pair, Echoes, Placed, Awaits, Adverts
<1>5. y.pc \in Exchange => y.round = 2
  BY <1>2, <1>3 DEF Pair, Places
<1>6. z.after = x.after /\ \A f : EffectiveManifest(z, f) = EffectiveManifest(x, f)
  BY SameManifest DEF Closes
<1>7. CASE x.round = 1 /\ z.round = 1 /\ z.pc \in Stage /\ q = {}
  <2>1. OneOffer(z, y, {}, {})
    BY <1>3, <1>7 DEF OneOffer
  <2>2. Places(z, y, {}, {})
    BY <1>4, <1>5, <1>7 DEF Places, Stage, Exchange
  <2>3. Echoes(z, y, {}, {}) /\ Echoes(y, z, {}, {})
    BY <1>4, <1>7 DEF Echoes, Stage, Awaits
  <2>4. Current(z, y, {}) /\ Current(y, z, {}) /\ Known(z, y)
    BY <1>7 DEF Current, Known
  <2>5. Known(y, z)
    BY <1>7 DEF Pair, Known
  <2> QED BY <1>1, <1>3, <1>7, <2>1, <2>2, <2>3, <2>4, <2>5 DEF Pair
<1>8. CASE x.round = 1 /\ z.round = 2 /\ Begins(z, q)
  BY <1>1, <1>3, <1>4, <1>5, <1>8, InitBegins
<1>9. CASE x.round = 2 /\ z.round = 2 /\ z.pc = "bye" /\ q = {} /\ z.peerf = p
  <2>1. OneOffer(z, y, {}, {})
    BY <1>3, <1>9 DEF OneOffer, Adverts, Stage
  <2>2. Places(z, y, {}, {})
    BY <1>4, <1>5, <1>9 DEF Places
  <2>3. Echoes(z, y, {}, {}) /\ Echoes(y, z, {}, {})
    BY <1>4, <1>9 DEF Echoes, Awaits
  <2>4. Current(z, y, {}) /\ Current(y, z, {})
    BY DEF Current
  <2>5. Known(z, y) /\ Known(y, z)
    BY <1>1, <1>6, <1>9 DEF Pair, Known
  <2> QED BY <1>1, <1>3, <1>9, <2>1, <2>2, <2>3, <2>4, <2>5 DEF Pair
<1> QED BY <1>1, <1>7, <1>8, <1>9 DEF Over

\* A round follows the handshake or a pull stage.
LEMMA InitEnters ==
  ASSUME NEW x, NEW y, NEW z, NEW a, NEW b, NEW o, Pair(x, y, a, b), Placed(x), Placed(y), Placed(z),
         x.me = "I", z.me = x.me, Enters(x, {}, z, o)
  PROVE  Pair(z, y, {}, o) /\ b = {} /\ a = {}
<1>1. a = {} /\ b = {} /\ ~Adverts(y)
  BY DEF Pair, OneOffer, Enters, Placed
<1>2. ~Awaits(y)
  BY DEF Pair, Places, Enters, Placed, Awaits, Stage, Shake
<1>3. \/ z.round = 2 /\ x.round = 1 /\ (y.pc \in Exchange => y.round = 2)
      \/ z.round = 1 /\ x.round = 0
  BY DEF Pair, Places, Enters, Placed, Past
<1> QED BY <1>1, <1>2, <1>3, InitBegins DEF Enters

\* Whatever the initiator does.
LEMMA InitTurns ==
  ASSUME NEW x, NEW y, NEW z, NEW n, NEW a, NEW b, NEW o, Pair(x, y, a, b), Placed(x), Placed(y), Placed(z),
         x.me = "I", n = {} \/ n = a, Turn(x, n, z, o)
  PROVE  Pair(z, y, a \ n, b \cup o) /\ (o = {} \/ b = {})
<1>0. z.me = x.me
  BY DEF Turn
<1>1. CASE Quiet(x, z, o)
  <2>1. o = {} /\ a \ n \in SUBSET a /\ b \cup o = b
    BY <1>1 DEF Quiet
  <2> QED BY <1>0, <1>1, <2>1, InitQuiet
<1>2. CASE Opens(x, n, z, o)
  <2>1. o = {} /\ a = n /\ a \ n = {} /\ b \cup o = b
    BY <1>2 DEF Opens
  <2> QED BY <1>0, <1>2, <2>1, InitOpens
<1>3. CASE Answers(x, n, z, o) \/ Announces(x, n, z, o) \/ Closes(x, n, z, o)
  <2>1. Pair(z, y, {}, o) /\ b = {} /\ a \ n = {}
    BY <1>0, <1>3, InitAnswers, InitAnnounces, InitCloses
  <2>2. b \cup o = o
    BY <2>1
  <2> QED BY <2>1, <2>2
<1>4. CASE Enters(x, n, z, o)
  <2>1. n = {}
    BY <1>4 DEF Enters
  <2>2. Pair(z, y, {}, o) /\ b = {} /\ a = {}
    BY <1>0, <1>4, <2>1, InitEnters
  <2>3. b \cup o = o /\ a \ n = {}
    BY <2>2
  <2> QED BY <2>2, <2>3
<1> QED BY <1>1, <1>2, <1>3, <1>4 DEF Turn

-----------------------------------------------------------------------------
(* The responder's turns, from its locals y to its locals z.                *)

\* It goes on without an offer.
LEMMA RespQuiet ==
  ASSUME NEW x, NEW y, NEW z, NEW a, NEW b, NEW c \in SUBSET b, Pair(x, y, a, b), Placed(x), Placed(y), Placed(z),
         z.me = y.me, Quiet(y, z, {})
  PROVE  Pair(x, z, a, c)
<1>1. z.after = y.after \/ y.round = 0 \/ y.pc \in Stage
  BY DEF Quiet, Placed
<1>2. z.after = y.after => \A f : EffectiveManifest(z, f) = EffectiveManifest(y, f)
  BY SameManifest
<1>3. OneOffer(x, z, a, c)
  BY DEF Pair, OneOffer, Quiet, Placed, Adverts, Shake, Stage
<1>4. Places(x, z, a, c)
  BY DEF Pair, Places, Quiet, Placed, Past, Awaits, Exchange, Stage, Shake
<1>5. Echoes(x, z, a, c) /\ Echoes(z, x, c, a)
  BY DEF Pair, Echoes, Quiet, Shake, Stage
<1>6. Current(z, x, c)
  BY DEF Pair, Current, Quiet, Past, Placed, Shake, Stage
<1>7. Current(x, z, a)
  BY <1>1, <1>2 DEF Pair, Current, Quiet, Placed
<1>8. Known(z, x)
  BY DEF Pair, Known, Quiet
<1>9. Known(x, z)
  BY <1>1, <1>2 DEF Pair, Known, Quiet, Placed
<1> QED BY <1>3, <1>4, <1>5, <1>6, <1>7, <1>8, <1>9 DEF Pair

\* It has an offer, and adverts follow.
LEMMA RespOpens ==
  ASSUME NEW x, NEW y, NEW z, NEW n, NEW a, Pair(x, y, a, n), Placed(x), Placed(y), Placed(z),
         z.me = y.me, Opens(y, n, z, {})
  PROVE  Pair(x, z, a, {})
<1>1. /\ a = {} /\ ~Adverts(x) /\ z.offer \in n /\ y.round = 1 /\ z.round = 1 /\ y.pc \in Exchange /\ z.pc \in Exchange
      /\ x.round # 0 /\ x.pc \notin Stage
  BY DEF Pair, OneOffer, Opens, Exchange
<1>2. ~Past(x)
  BY <1>1 DEF Pair, Places
<1>3. ~Past(z)
  BY <1>1 DEF Past, Exchange, Stage
<1>4. OneOffer(x, z, a, {})
  BY <1>1 DEF OneOffer
<1>5. Places(x, z, a, {})
  BY <1>1, <1>2, <1>3 DEF Pair, Places, Opens, Awaits
<1>6. Echoes(x, z, a, {})
  BY <1>1 DEF Pair, Echoes, Opens
<1>7. Echoes(z, x, {}, a)
  BY <1>1 DEF Echoes, Opens
<1>8. Current(z, x, {}) /\ Current(x, z, a)
  BY <1>1 DEF Current
<1>9. Known(z, x) /\ Known(x, z)
  BY <1>1, <1>2 DEF Known, Past
<1> QED BY <1>4, <1>5, <1>6, <1>7, <1>8, <1>9 DEF Pair

\* An end has an offer in full, or the end of the list.
Has(y, n) ==
  \/ \E w : Consumes(y, n, w)
  \/ y.pc = "offer" /\ y.round \in {1, 2} /\ \E w : n = {w}

\* When the responder has it, nothing else is on its way.
LEMMA RespHas ==
  ASSUME NEW x, NEW y, NEW n, NEW a, NEW b, Pair(x, y, a, b), Placed(x), Placed(y), n = {} \/ n = b, Has(y, n)
  PROVE  /\ b \ n = {} /\ a = {} /\ ~Adverts(x) /\ y.pc \in Exchange /\ y.round \in {1, 2}
         /\ x.round # 0 /\ x.pc \notin Stage
         /\ y.round = 1 => ~Past(x)
         /\ y.round = 2 => ~(x.round = 1 /\ x.pc \in Exchange)
<1>1. \/ Adverts(y) /\ n = {} /\ y.round = 1
      \/ y.pc \in {"offer", "echo"} /\ y.round \in {1, 2} /\ \E w : n = {w}
  BY DEF Has, Consumes
<1>2. CASE Adverts(y) /\ n = {} /\ y.round = 1
  BY <1>2 DEF Pair, OneOffer, Places, Adverts, Exchange
<1>3. CASE y.pc \in {"offer", "echo"} /\ y.round \in {1, 2} /\ \E w : n = {w}
  <2>1. b # {} /\ n = b
    BY <1>3
  <2>2. a = {} /\ ~Adverts(x) /\ x.round # 0 /\ x.pc \notin Stage
    BY <2>1 DEF Pair, OneOffer
  <2>3. y.round = 2 => ~(x.round = 1 /\ x.pc \in Exchange)
    BY <2>1 DEF Pair, Places, Past
  <2>4. y.round = 1 => ~Past(x)
    BY <1>3 DEF Pair, Places, Exchange
  <2> QED BY <1>3, <2>1, <2>2, <2>3, <2>4 DEF Exchange
<1> QED BY <1>1, <1>2, <1>3

\* What it noted.
LEMMA RespNotes ==
  ASSUME NEW x, NEW y, NEW z, NEW n, NEW a, NEW b, NEW w, Pair(x, y, a, b), n = {} \/ n = b, Consumes(y, n, w),
         w.folder # NoFolder, z.peerf = Note(y.peerf, w), z.round = y.round
  PROVE  Known(z, x)
<1>1. y.round = 2 => w \in b
  BY DEF Consumes
<1>2. y.round = 2 => x.round = 2 /\ w.man = EffectiveManifest(x, w.folder)
  BY <1>1 DEF Pair, Current, Past
<1> QED BY <1>2, Notes DEF Pair, Known

\* It answers.
LEMMA RespAnswers ==
  ASSUME NEW x, NEW y, NEW z, NEW n, NEW a, NEW b, NEW o, Pair(x, y, a, b), Placed(x), Placed(y), Placed(z),
         z.me = y.me, n = {} \/ n = b, Answers(y, n, z, o)
  PROVE  Pair(x, z, o, {}) /\ a = {} /\ b \ n = {}
<1>1. PICK w : /\ Consumes(y, n, w) /\ y.pc \in {"offer", "offer_advert"}
               /\ z.pc = "offer" /\ z.round = y.round /\ z.after = y.after /\ z.peerf = Note(y.peerf, w)
               /\ o = {Offering(w.folder, EffectiveManifest(y, w.folder))}
  BY DEF Answers
<1>2. /\ b \ n = {} /\ a = {} /\ ~Adverts(x) /\ y.pc \in Exchange /\ y.round \in {1, 2}
      /\ x.round # 0 /\ x.pc \notin Stage
      /\ y.round = 1 => ~Past(x)
      /\ y.round = 2 => ~(x.round = 1 /\ x.pc \in Exchange)
  <2>1. Has(y, n)
    BY <1>1 DEF Has
  <2> QED BY <2>1, RespHas
<1>3. \A f : EffectiveManifest(z, f) = EffectiveManifest(y, f)
  BY <1>1, SameManifest
<1>4. w.folder # NoFolder
  BY <1>1 DEF Consumes, Placed
<1>5. \A v \in o : v.folder = w.folder /\ v.man = EffectiveManifest(z, w.folder)
  BY <1>1, <1>3 DEF Offering
<1>6. x.pc = "echo" => w.folder = x.at
  <2>1. \/ y.pc = "offer_advert" /\ w = y.offer
        \/ w \in b
    BY <1>1 DEF Consumes, Adverts
  <2> QED BY <2>1 DEF Pair, Echoes
<1>7. OneOffer(x, z, o, {})
  BY <1>1, <1>2 DEF OneOffer, Adverts
<1>8. Places(x, z, o, {})
  BY <1>1, <1>2, <1>4, <1>5 DEF Places, Past, Stage, Awaits
<1>9. Echoes(x, z, o, {})
  BY <1>1, <1>5, <1>6 DEF Echoes
<1>10. Echoes(z, x, {}, o)
  BY <1>1 DEF Echoes
<1>11. Current(z, x, {})
  BY DEF Current
<1>12. Current(x, z, o)
  BY <1>1, <1>2, <1>5 DEF Current
<1>13. Known(z, x)
  BY <1>1, <1>4, RespNotes
<1>14. Known(x, z)
  BY <1>1, <1>3 DEF Pair, Known
<1> QED BY <1>2, <1>7, <1>8, <1>9, <1>10, <1>11, <1>12, <1>13, <1>14 DEF Pair

\* Its turn: the initiator waits.
LEMMA RespGoes ==
  ASSUME NEW x, NEW y, NEW n, NEW a, NEW b, NEW p, Pair(x, y, a, b), Placed(x), Placed(y),
         n = {} \/ n = b, Goes(y, n, p)
  PROVE  /\ b \ n = {} /\ a = {} /\ y.pc \in Exchange /\ y.round \in {1, 2}
         /\ x.round # 0 /\ x.pc \in {"offer", "failed"}
         /\ y.round = 1 => ~Past(x)
         /\ y.round = 2 => ~(x.round = 1 /\ x.pc \in Exchange)
         /\ \A z : z.peerf = p /\ z.round = y.round => Known(z, x)
<1>1. CASE Awaits(y) /\ \E w : Consumes(y, n, w) /\ p = Note(y.peerf, w)
  <2>1. PICK w : Consumes(y, n, w) /\ p = Note(y.peerf, w)
    BY <1>1
  <2>2. /\ b \ n = {} /\ a = {} /\ ~Adverts(x) /\ y.pc \in Exchange /\ y.round \in {1, 2}
        /\ x.round # 0 /\ x.pc \notin Stage
        /\ y.round = 1 => ~Past(x)
        /\ y.round = 2 => ~(x.round = 1 /\ x.pc \in Exchange)
    <3>1. Has(y, n)
      BY <2>1 DEF Has
    <3> QED BY <3>1, RespHas
  <2>3. x.pc \in {"offer", "failed"}
    BY <1>1, <2>2 DEF Pair, Places, Adverts
  <2>4. w.folder # NoFolder
    BY <1>1, <2>1 DEF Consumes, Pair, Echoes, Placed, Awaits, Adverts
  <2>5. \A z : z.peerf = p /\ z.round = y.round => Known(z, x)
    BY <2>1, <2>4, RespNotes
  <2> QED BY <2>2, <2>3, <2>5
<1>2. CASE y.pc = "offer" /\ y.round \in {1, 2} /\ p = y.peerf /\ \E w : n = {w} /\ w.folder = NoFolder
  <2>1. PICK w : n = {w} /\ w.folder = NoFolder
    BY <1>2
  <2>2. /\ b \ n = {} /\ a = {} /\ ~Adverts(x) /\ y.pc \in Exchange /\ y.round \in {1, 2}
        /\ x.round # 0 /\ x.pc \notin Stage
        /\ y.round = 1 => ~Past(x)
        /\ y.round = 2 => ~(x.round = 1 /\ x.pc \in Exchange)
    <3>1. Has(y, n)
      BY <1>2, <2>1 DEF Has
    <3> QED BY <3>1, RespHas
  <2>3. w \in b
    BY <2>1
  <2>4. x.pc \in {"offer", "failed"}
    BY <2>1, <2>3 DEF Pair, Places
  <2>5. \A z : z.peerf = p /\ z.round = y.round => Known(z, x)
    BY <1>2 DEF Pair, Known
  <2> QED BY <2>2, <2>4, <2>5
<1> QED BY <1>1, <1>2 DEF Goes

\* It announces.
LEMMA RespAnnounces ==
  ASSUME NEW x, NEW y, NEW z, NEW n, NEW a, NEW b, NEW o, Pair(x, y, a, b), Placed(x), Placed(y), Placed(z),
         y.me = "R", z.me = y.me, n = {} \/ n = b, Announces(y, n, z, o)
  PROVE  Pair(x, z, o, {}) /\ a = {} /\ b \ n = {}
<1>1. Goes(y, n, z.peerf) /\ z.round = y.round /\ z.after = y.after /\ Says(z, o)
  BY DEF Announces
<1>2. /\ b \ n = {} /\ a = {} /\ y.pc \in Exchange /\ y.round \in {1, 2}
      /\ x.round # 0 /\ x.pc \in {"offer", "failed"}
      /\ y.round = 1 => ~Past(x)
      /\ y.round = 2 => ~(x.round = 1 /\ x.pc \in Exchange)
      /\ \A u : u.peerf = z.peerf /\ u.round = y.round => Known(u, x)
  BY <1>1, RespGoes
<1>3. \A f : EffectiveManifest(z, f) = EffectiveManifest(y, f)
  BY <1>1, SameManifest
<1>4. z.pc = "echo" /\ z.at # NoFolder /\ \A v \in o : v.folder = z.at /\ v.man = EffectiveManifest(z, z.at)
  BY <1>1 DEF Says, Offering
<1>5. OneOffer(x, z, o, {})
  BY <1>2, <1>4 DEF OneOffer, Adverts, Stage
<1>6. Places(x, z, o, {})
  BY <1>1, <1>2, <1>4 DEF Places, Past, Stage, Awaits
<1>7. Echoes(x, z, o, {}) /\ Echoes(z, x, {}, o)
  BY <1>2, <1>4 DEF Echoes
<1>8. Current(z, x, {})
  BY DEF Current
<1>9. Current(x, z, o)
  BY <1>1, <1>2, <1>4 DEF Current
<1>10. Known(z, x)
  BY <1>1, <1>2
<1>11. Known(x, z)
  BY <1>1, <1>3 DEF Pair, Known
<1> QED BY <1>2, <1>5, <1>6, <1>7, <1>8, <1>9, <1>10, <1>11 DEF Pair

\* It ends its list, and the round with it.
LEMMA RespCloses ==
  ASSUME NEW x, NEW y, NEW z, NEW n, NEW a, NEW b, NEW o, Pair(x, y, a, b), Placed(x), Placed(y), Placed(z),
         y.me = "R", z.me = y.me, n = {} \/ n = b, Closes(y, n, z, o)
  PROVE  Pair(x, z, o, {}) /\ a = {} /\ b \ n = {}
<1>1. PICK p, q : Over(y, z, p, q) /\ Goes(y, n, p) /\ o = {Nothing} /\ z.after = y.after
  BY DEF Closes
<1>2. /\ b \ n = {} /\ a = {} /\ y.pc \in Exchange /\ y.round \in {1, 2}
      /\ x.round # 0 /\ x.pc \in {"offer", "failed"}
      /\ y.round = 1 => ~Past(x)
      /\ y.round = 2 => ~(x.round = 1 /\ x.pc \in Exchange)
      /\ \A u : u.peerf = p /\ u.round = y.round => Known(u, x)
  BY <1>1, RespGoes
<1>3. \A f : EffectiveManifest(z, f) = EffectiveManifest(y, f)
  BY <1>1, SameManifest
<1>4. \A v \in o : v.folder = NoFolder
  BY <1>1 DEF Nothing, Offering
<1>5. /\ z.pc \in Stage \cup {"offer", "bye"} /\ (y.round = 2 => z.round = 2)
      /\ z.pc \in Exchange => z.round = 2
  BY <1>1 DEF Over, Begins, Stage, Exchange
<1>6. OneOffer(x, z, o, {})
  BY <1>2, <1>5 DEF OneOffer, Adverts, Stage
<1>7. Places(x, z, o, {})
  BY <1>2, <1>4, <1>5 DEF Places, Stage, Awaits, Exchange
<1>8. Echoes(x, z, o, {}) /\ Echoes(z, x, {}, o)
  BY <1>2, <1>5 DEF Echoes, Stage
<1>9. Current(z, x, {})
  BY DEF Current
<1>10. Current(x, z, o)
  BY <1>2, <1>4, <1>5 DEF Current
<1>11. Known(z, x)
  <2>1. CASE y.round = 1
    <3>1. z.round = 2 => z.peerf = <<>>
      BY <1>1, <2>1 DEF Over, Begins
    <3> QED BY <3>1 DEF Known
  <2>2. CASE y.round = 2
    BY <1>1, <1>2, <2>2 DEF Over
  <2> QED BY <1>2, <2>1, <2>2
<1>12. Known(x, z)
  BY <1>2, <1>3, <1>5 DEF Pair, Known, Past
<1> QED BY <1>2, <1>6, <1>7, <1>8, <1>9, <1>10, <1>11, <1>12 DEF Pair

\* A round follows the handshake or a pull stage.
LEMMA RespEnters ==
  ASSUME NEW x, NEW y, NEW z, NEW a, NEW b, NEW o, Pair(x, y, a, b), Placed(x), Placed(y), Placed(z),
         y.me = "R", z.me = y.me, y.round = 0 => x.round = 0, Enters(y, {}, z, o)
  PROVE  Pair(x, z, a, b) /\ o = {}
<1>1. z.pc = "offer" /\ z.peerf = <<>> /\ o = {}
  BY DEF Enters, Begins
<1>2. \/ y.pc \in Stage /\ y.round = 1 /\ z.round = 2 /\ x.round # 0
      \/ y.pc \in Shake /\ x.round = 0 /\ z.round = 1 /\ x.pc \notin Stage /\ y.round = 0
  BY DEF Enters, Placed, Pair, Places, Stage, Shake
<1>3. OneOffer(x, z, a, b)
  BY <1>1 DEF Pair, OneOffer, Adverts
<1>4. Places(x, z, a, b)
  BY <1>1, <1>2 DEF Pair, Places, OneOffer, Past, Awaits, Stage, Shake
<1>5. Echoes(x, z, a, b) /\ Echoes(z, x, b, a)
  BY <1>1 DEF Pair, Echoes
<1>6. Current(z, x, b)
  BY <1>1, <1>2 DEF Pair, Current, Past, Stage
<1>7. Current(x, z, a)
  BY <1>2 DEF Pair, Current, OneOffer
<1>8. Known(z, x)
  BY <1>1 DEF Known
<1>9. Known(x, z)
  BY <1>2 DEF Pair, Known
<1> QED BY <1>1, <1>3, <1>4, <1>5, <1>6, <1>7, <1>8, <1>9 DEF Pair

\* Whatever the responder does.
LEMMA RespTurns ==
  ASSUME NEW x, NEW y, NEW z, NEW n, NEW a, NEW b, NEW o, Pair(x, y, a, b), Placed(x), Placed(y), Placed(z),
         y.me = "R", y.round = 0 => x.round = 0, n = {} \/ n = b, Turn(y, n, z, o)
  PROVE  Pair(x, z, a \cup o, b \ n) /\ (o = {} \/ a = {})
<1>0. z.me = y.me
  BY DEF Turn
<1>1. CASE Quiet(y, z, o)
  <2>1. o = {} /\ b \ n \in SUBSET b /\ a \cup o = a
    BY <1>1 DEF Quiet
  <2> QED BY <1>0, <1>1, <2>1, RespQuiet
<1>2. CASE Opens(y, n, z, o)
  <2>1. o = {} /\ b = n /\ b \ n = {} /\ a \cup o = a
    BY <1>2 DEF Opens
  <2> QED BY <1>0, <1>2, <2>1, RespOpens
<1>3. CASE Answers(y, n, z, o) \/ Announces(y, n, z, o) \/ Closes(y, n, z, o)
  <2>1. Pair(x, z, o, {}) /\ a = {} /\ b \ n = {}
    BY <1>0, <1>3, RespAnswers, RespAnnounces, RespCloses
  <2>2. a \cup o = o
    BY <2>1
  <2> QED BY <2>1, <2>2
<1>4. CASE Enters(y, n, z, o)
  <2>1. n = {}
    BY <1>4 DEF Enters
  <2>2. Pair(x, z, a, b) /\ o = {}
    BY <1>0, <1>4, <2>1, RespEnters
  <2>3. a \cup o = a /\ b \ n = b
    BY <2>1, <2>2
  <2> QED BY <2>2, <2>3
<1> QED BY <1>1, <1>2, <1>3, <1>4 DEF Turn

-----------------------------------------------------------------------------
(* One end.                                                                 *)

\* What an end keeps.
Typed(x) ==
  /\ IsEnd(x) /\ x.me \in End
  /\ x.after \in [Folder -> MaybeMan] /\ x.peerf \in [DOMAIN x.peerf -> MaybeMan]
  /\ x.todo \subseteq Own(x)
  /\ x.want \subseteq Blob /\ x.left \subseteq x.want /\ x.tries \in 0 .. MaxRetries
  /\ x.put = {}

\* A manifest that was pulled is there with all it needs.
Held(x, st) ==
  \A f \in Folder : cfg.cur[x.me][f] = NoManifest /\ x.after[f] # NoManifest => Needs(x.after[f]) \subseteq st[f]

Base(x) == cfg \in Cases /\ store[x.me] \in [Folder -> SUBSET Blob] /\ Typed(x) /\ Held(x, store[x.me])

\* The lists of offers cover the folders of an end.
Listed(x) ==
  /\ Awaits(x) => x.at \in Own(x) /\ Own(x) \subseteq DOMAIN x.peerf \cup x.todo \cup {x.at}
  /\ Adverts(x) => x.offer.man \in MaybeMan /\ x.offer.folder # NoFolder
  /\ x.pc = "echo_advert" => x.offer.folder = x.at
  /\ x.me = "I" /\ x.pc \in {"offer", "offer_advert"} => Own(x) \subseteq DOMAIN x.peerf
  /\ x.pc \in {"bye", "done"} => Own(x) \subseteq DOMAIN x.peerf

\* Part of an end is as it was.
LEMMA BaseOn ==
  ASSUME NEW x, Base(x), NEW z, IsEnd(z), z.me = x.me, z.after = x.after, z.peerf = x.peerf, z.todo \subseteq Own(x),
         z.want = x.want, z.left \subseteq x.left, z.tries = x.tries, z.put = x.put
  PROVE  Base(z)
BY DEF Base, Typed, Held, Own

\* The folders of an end.
LEMMA OwnAre ==
  ASSUME NEW x, Base(x)
  PROVE  /\ cfg.folders[x.me] \in Seq(Folder) /\ Own(x) \subseteq Folder /\ NoFolder \notin Own(x)
         /\ cfg.cur[x.me] \in [Folder -> MaybeMan]
<1>1. cfg.folders[x.me] \in Seq(Folder) /\ cfg.cur[x.me] \in [Folder -> MaybeMan]
  BY CasesAssumption DEF Base, Typed, MaybeMan, Man
<1> QED BY <1>1, WireAssumption DEF Own, ToSet

\* The next folder is announced.
LEMMA NextIs ==
  ASSUME NEW x, Base(x), x.todo # {}, Own(x) \subseteq DOMAIN x.peerf \cup x.todo
  PROVE  LET d == AnnounceNext(x)
             z == d.x
         IN  /\ IsDeed(d) /\ d.agree = <<>> /\ Base(z) /\ z.me = x.me /\ z.round = x.round
             /\ z.peerf = x.peerf /\ z.after = x.after /\ Listed(z)
             /\ \E o : Carries(d.out, o) /\ Says(z, o)
<1> DEFINE f == First(x, x.todo)
           t == x.todo \ {f}
           z == [x EXCEPT !.pc = "echo", !.at = f, !.todo = t]
           d == AnnounceNext(x)
<1>1. f \in x.todo /\ f \in Own(x) /\ f # NoFolder
  BY OwnAre, FirstIn DEF Base, Typed
<1>2. d = Does(z, Announce(x, f))
  BY DEF AnnounceNext
<1> HIDE DEF f, d
<1>3. /\ IsEnd(z) /\ z.me = x.me /\ z.after = x.after /\ z.peerf = x.peerf /\ z.todo = t
      /\ z.want = x.want /\ z.left = x.left /\ z.tries = x.tries /\ z.put = x.put
      /\ z.pc = "echo" /\ z.at = f /\ z.round = x.round
  BY DEF Base, Typed, IsEnd, Local
<1> HIDE DEF z
<1>4. Base(z)
  BY <1>3, BaseOn DEF Base, Typed
<1>5. Listed(z)
  BY <1>1, <1>3 DEF Listed, Awaits, Adverts, Own
<1>6. IsDeed(d) /\ d.x = z /\ d.out = Announce(x, f) /\ d.agree = <<>>
  BY <1>2 DEF Does, IsDeed
<1>7. EffectiveManifest(z, f) = EffectiveManifest(x, f)
  BY <1>3, SameManifest
<1>8. Carries(d.out, {Offering(f, EffectiveManifest(x, f))})
  BY <1>6, Announced DEF Base, Typed
<1>9. Says(z, {Offering(f, EffectiveManifest(x, f))})
  BY <1>1, <1>3, <1>7 DEF Says
<1> QED BY <1>3, <1>4, <1>5, <1>6, <1>8, <1>9 DEF d

\* exchange_offers begins.
NewRound(x, d, r) ==
  /\ IsDeed(d) /\ d.agree = <<>> /\ Base(d.x) /\ d.x.me = x.me /\ d.x.round = r
  /\ Listed(d.x) /\ \E o : Carries(d.out, o) /\ Begins(d.x, o)

\* StartRound begins a round.
LEMMA RoundIs ==
  ASSUME NEW x, Base(x), NEW r
  PROVE  NewRound(x, StartRound(x, r), r) /\ StartRound(x, r).x.after = x.after
<1> DEFINE own == ToSet(cfg.folders[x.me])
           y == [x EXCEPT !.round = r, !.peerf = <<>>, !.todo = own]
           d == StartRound(x, r)
<1>1. /\ IsEnd(y) /\ y.me = x.me /\ y.after = x.after /\ y.peerf = <<>> /\ y.todo = Own(x)
      /\ y.want = x.want /\ y.left = x.left /\ y.tries = x.tries /\ y.put = x.put /\ y.round = r
  BY DEF Base, Typed, IsEnd, Local, Own
<1>2. \/ y.me = "R" /\ d = Does([y EXCEPT !.pc = "offer"], <<>>)
      \/ y.me = "I" /\ y.todo = {} /\ d = Does([y EXCEPT !.pc = "offer"], <<Sentinel>>)
      \/ y.me = "I" /\ y.todo # {} /\ d = AnnounceNext(y)
  <2>1. x.me \in {"I", "R"}
    BY DEF Base, Typed, End
  <2> QED BY <1>1, <2>1 DEF StartRound
<1> HIDE DEF y, d
<1>3. Base(y)
  BY <1>1 DEF Base, Typed, Held, Own
<1> DEFINE z == [y EXCEPT !.pc = "offer"]
<1>4. /\ IsEnd(z) /\ z.me = y.me /\ z.after = y.after /\ z.peerf = y.peerf /\ z.todo = y.todo
      /\ z.want = y.want /\ z.left = y.left /\ z.tries = y.tries /\ z.put = y.put /\ z.round = r /\ z.pc = "offer"
  BY <1>1 DEF IsEnd, Local
<1> HIDE DEF z
<1>5. Base(z)
  BY <1>3, <1>4, BaseOn DEF Base, Typed
<1>6. CASE y.me = "R" /\ d = Does(z, <<>>)
  <2>1. IsDeed(d) /\ d.x = z /\ d.out = <<>> /\ d.agree = <<>>
    BY <1>6 DEF Does, IsDeed
  <2>2. Listed(z) /\ Begins(z, {})
    BY <1>1, <1>4, <1>6 DEF Listed, Begins, Awaits, Adverts
  <2> QED BY <1>1, <1>4, <1>5, <2>1, <2>2, CarriesNone DEF NewRound, d
<1>7. CASE y.me = "I" /\ y.todo = {} /\ d = Does(z, <<Sentinel>>)
  <2>1. IsDeed(d) /\ d.x = z /\ d.out = <<Sentinel>> /\ d.agree = <<>>
    BY <1>7 DEF Does, IsDeed
  <2>2. Listed(z)
    BY <1>1, <1>4, <1>7 DEF Listed, Awaits, Adverts, Own
  <2>3. Begins(z, {Nothing})
    BY <1>1, <1>4, <1>7 DEF Begins
  <2>4. Carries(d.out, {Nothing})
    BY <2>1, CarriesOffer DEF Sentinel, Nothing, MaybeMan
  <2> QED BY <1>1, <1>4, <1>5, <2>1, <2>2, <2>3, <2>4 DEF NewRound, d
<1>8. CASE y.me = "I" /\ y.todo # {} /\ d = AnnounceNext(y)
  <2>1. Own(y) \subseteq DOMAIN y.peerf \cup y.todo
    BY <1>1 DEF Own
  <2>2. /\ IsDeed(d) /\ d.agree = <<>> /\ Base(d.x) /\ d.x.me = y.me /\ d.x.round = y.round
        /\ d.x.peerf = y.peerf /\ d.x.after = y.after /\ Listed(d.x)
        /\ \E o : Carries(d.out, o) /\ Says(d.x, o)
    BY <1>3, <1>8, <2>1, NextIs
  <2>3. \E o : Carries(d.out, o) /\ Begins(d.x, o)
    BY <1>1, <1>8, <2>2 DEF Begins
  <2> QED BY <1>1, <2>2, <2>3 DEF NewRound, d
<1> QED BY <1>2, <1>6, <1>7, <1>8 DEF z

-----------------------------------------------------------------------------
(* The pull stages.                                                         *)

\* What is known below the manifest that is pulled.
Below(x, have) ==
  /\ Target(x) \in have /\ Refs[Target(x)] \subseteq x.enq
  /\ x.enq \subseteq Kind("node") /\ x.chunks \subseteq Kind("chunk")

\* What a pull has so far.
Gets(x, have) ==
  /\ x.got \subseteq have
  /\ \/ x.phase = "manifest" /\ x.want = {Target(x)}
     \/ /\ x.phase = "nodes" /\ Below(x, have) /\ x.want \subseteq x.enq /\ x.enq \ x.want \subseteq have
        /\ \A b \in x.enq \ x.want : Refs[b] \subseteq x.enq \cup x.chunks
     \/ /\ x.phase \in {"packs", "chunks"} /\ Below(x, have) /\ x.enq \subseteq have /\ x.chunks \ x.want \subseteq have
        /\ \A b \in x.enq : Refs[b] \subseteq x.enq \cup x.chunks

\* The folders still to pull have a manifest at the peer, and so has this one.
Wanted(x) == x.pulls \subseteq Own(x) /\ \A f \in x.pulls : f \in DOMAIN x.peerf /\ x.peerf[f] \in Man
Going(x, st) ==
  /\ Wanted(x) /\ x.at \in Folder /\ x.at \in DOMAIN x.peerf /\ Target(x) \in Man
  /\ Gets(x, st[x.at])
Pulls(x, st) == x.pc \in {"batch", "packs"} => Going(x, st) /\ (x.pc = "packs" <=> x.phase = "packs")

\* What comes of a deed in a stage: the stage goes on, the second round begins, or
\* the end fails.
Staged(x, d) ==
  /\ IsDeed(d) /\ d.agree = <<>> /\ Base(d.x) /\ d.x.me = x.me
  /\ d.x.pc \in Stage /\ d.x.round = 1 /\ d.x.peerf = x.peerf
  /\ Pulls(d.x, store[x.me]) /\ Carries(d.out, {})
Dead(x, d) ==
  /\ IsDeed(d) /\ d.agree = <<>> /\ Base(d.x) /\ d.x.me = x.me
  /\ d.x.pc = "failed" /\ d.x.round = x.round /\ d.x.peerf = x.peerf /\ d.x.after = x.after
  /\ Carries(d.out, {})
Outcome(x, d) == Staged(x, d) \/ NewRound(x, d, 2) \/ Dead(x, d)

\* The outcome is the same for an end that is the same in part.
LEMMA OutcomeOn ==
  ASSUME NEW x, NEW y, NEW d, y.me = x.me, y.round = x.round, y.peerf = x.peerf
  PROVE  /\ Outcome(y, d) /\ y.after = x.after => Outcome(x, d)
         /\ Staged(y, d) \/ NewRound(y, d, 2) => Outcome(x, d)
         /\ Staged(y, d) => Staged(x, d)
         /\ NewRound(y, d, 2) => NewRound(x, d, 2)
BY DEF Outcome, Staged, NewRound, Dead

\* A pull goes on.
LEMMA GoingOn ==
  ASSUME NEW x, NEW st, Going(x, st), NEW z, z.me = x.me, z.pulls = x.pulls, z.peerf = x.peerf, z.at = x.at,
         z.phase = x.phase, z.want = x.want, z.got = x.got, z.enq = x.enq, z.chunks = x.chunks
  PROVE  Going(z, st)
<1>1. Target(z) = Target(x) /\ Own(z) = Own(x)
  BY DEF Target, Own
<1> QED BY <1>1 DEF Going, Gets, Below, Wanted

\* An error.
LEMMA DeadIs ==
  ASSUME NEW x, Base(x), NEW err
  PROVE  Dead(x, Fails(x, err)) /\ Dead(x, Abort(x, err))
<1> DEFINE z == [x EXCEPT !.pc = "failed", !.err = err]
           d == Fails(x, err)
<1>1. /\ IsEnd(z) /\ z.me = x.me /\ z.after = x.after /\ z.peerf = x.peerf /\ z.todo = x.todo /\ z.round = x.round
      /\ z.want = x.want /\ z.left = x.left /\ z.tries = x.tries /\ z.put = x.put /\ z.pc = "failed"
  BY DEF Base, Typed, IsEnd, Local
<1>2. IsDeed(d) /\ d.x = z /\ d.out = <<>> /\ d.agree = <<>>
  BY DEF Fails, Does, IsDeed
<1> HIDE DEF z, d
<1>3. Base(z)
  BY <1>1, BaseOn DEF Base, Typed
<1>4. Dead(x, d)
  BY <1>1, <1>2, <1>3, CarriesNone DEF Dead
<1>5. PICK r : Abort(x, err) = [d EXCEPT !.out = <<Bye(r)>>]
  BY Zenon DEF Abort, d
<1> DEFINE q == <<Bye(r)>>
           b == [d EXCEPT !.out = q]
<1>6. Carries(q, {})
  BY CarriesFrame DEF Bye
<1> HIDE DEF q
<1>7. IsDeed(b) /\ b.x = z /\ b.out = q /\ b.agree = <<>>
  BY <1>2 DEF IsDeed
<1> HIDE DEF b
<1>8. Dead(x, b)
  BY <1>1, <1>3, <1>6, <1>7 DEF Dead
<1>9. Abort(x, err) = b
  BY <1>5 DEF b, q
<1> QED BY <1>4, <1>8, <1>9 DEF d

\* fetch_blobs asks.
LEMMA AskIs ==
  ASSUME NEW x, Base(x), x.round = 1, Going(x, store[x.me]), x.phase # "packs"
  PROVE  Staged(x, Ask(x)) /\ Ask(x).x.after = x.after
<1> DEFINE group == Head(Pieces(x.left, MaxRequest))
           l == x.left \ group
           z == [x EXCEPT !.pc = "batch", !.left = l]
           d == Ask(x)
           out == <<RequestItems(x.at, group)>>
<1>1. d = Does(z, out)
  BY Zenon DEF Ask
<1>2. Carries(out, {})
  BY CarriesFrame DEF RequestItems
<1> HIDE DEF out, group, d
<1>3. /\ IsEnd(z) /\ z.me = x.me /\ z.after = x.after /\ z.peerf = x.peerf /\ z.todo = x.todo /\ z.round = x.round
      /\ z.want = x.want /\ z.left \subseteq x.left /\ z.tries = x.tries /\ z.put = x.put /\ z.pc = "batch"
      /\ z.pulls = x.pulls /\ z.at = x.at /\ z.phase = x.phase /\ z.got = x.got /\ z.enq = x.enq /\ z.chunks = x.chunks
  BY DEF Base, Typed, IsEnd, Local
<1>4. IsDeed(d) /\ d.x = z /\ d.out = out /\ d.agree = <<>>
  BY <1>1 DEF Does, IsDeed
<1> HIDE DEF z
<1>5. Base(z)
  BY <1>3, BaseOn DEF Base, Typed
<1>6. Going(z, store[x.me])
  BY <1>3, GoingOn
<1> QED BY <1>2, <1>3, <1>4, <1>5, <1>6 DEF Staged, Pulls, Stage, d

\* A fetch begins.
LEMMA FetchFrom ==
  ASSUME NEW x, Base(x), NEW ph, NEW w, w \subseteq Blob
  PROVE  LET z == Fetch(x, ph, w)
         IN  /\ Base(z) /\ z.me = x.me /\ z.after = x.after /\ z.peerf = x.peerf /\ z.round = x.round /\ z.pc = x.pc
             /\ z.pulls = x.pulls /\ z.at = x.at /\ z.enq = x.enq /\ z.chunks = x.chunks
             /\ z.phase = ph /\ z.want = w /\ z.got = {}
<1> DEFINE z == Fetch(x, ph, w)
<1>1. /\ IsEnd(z) /\ z.me = x.me /\ z.after = x.after /\ z.peerf = x.peerf /\ z.todo = x.todo /\ z.round = x.round
      /\ z.want = w /\ z.left = w /\ z.tries = 0 /\ z.put = x.put /\ z.pc = x.pc
      /\ z.pulls = x.pulls /\ z.at = x.at /\ z.phase = ph /\ z.got = {} /\ z.enq = x.enq /\ z.chunks = x.chunks
  BY DEF Base, Typed, IsEnd, Local, Fetch
<1> HIDE DEF z
<1>2. Base(z)
  BY <1>1, WireAssumption DEF Base, Typed, Held, Own
<1> QED BY <1>1, <1>2 DEF z

\* Frames before the others.
LEMMA StagedAfter ==
  ASSUME NEW x, NEW d, NEW p, Carries(p, {})
  PROVE  LET b == [d EXCEPT !.out = p \o @]
         IN  /\ Staged(x, d) => Staged(x, b)
             /\ \A r : NewRound(x, d, r) => NewRound(x, b, r)
             /\ IsDeed(d) => b.x = d.x
<1> DEFINE q == p \o d.out
           b == [d EXCEPT !.out = q]
<1>1. IsDeed(d) => IsDeed(b) /\ b.x = d.x /\ b.agree = d.agree /\ b.out = q
  <2> HIDE DEF q
  <2> QED BY DEF IsDeed
<1>2. \A o : Carries(d.out, o) => Carries(q, o)
  <2> TAKE o
  <2> HAVE Carries(d.out, o)
  <2>1. Carries(p \o d.out, {} \cup o)
    BY CarriesCat
  <2> QED BY <2>1
<1>3. b = [d EXCEPT !.out = p \o @]
  OBVIOUS
<1> HIDE DEF b, q
<1>4. Staged(x, d) => Staged(x, b)
  BY <1>1, <1>2 DEF Staged
<1>5. \A r : NewRound(x, d, r) => NewRound(x, b, r)
  BY <1>1, <1>2 DEF NewRound
<1> QED BY <1>1, <1>3, <1>4, <1>5

\* An end turns to serving.
LEMMA ServesIs ==
  ASSUME NEW x, Base(x), x.round = 1
  PROVE  Staged(x, Does([x EXCEPT !.pc = "serve"], <<>>)) /\ Does([x EXCEPT !.pc = "serve"], <<>>).x.after = x.after
<1> DEFINE z == [x EXCEPT !.pc = "serve"]
           d == Does(z, <<>>)
<1>1. /\ IsEnd(z) /\ z.me = x.me /\ z.after = x.after /\ z.peerf = x.peerf /\ z.todo = x.todo /\ z.round = x.round
      /\ z.want = x.want /\ z.left = x.left /\ z.tries = x.tries /\ z.put = x.put /\ z.pc = "serve"
  BY DEF Base, Typed, IsEnd, Local
<1>2. IsDeed(d) /\ d.x = z /\ d.out = <<>> /\ d.agree = <<>>
  BY DEF Does, IsDeed
<1> HIDE DEF z, d
<1>3. Base(z)
  BY <1>1, BaseOn DEF Base, Typed
<1>4. Staged(x, d) /\ d.x.after = x.after
  BY <1>1, <1>2, <1>3, CarriesNone DEF Staged, Pulls, Stage
<1> QED BY <1>4 DEF z, d

\* run_stage().
LEMMA StageIs ==
  ASSUME NEW x, Base(x), x.round = 1, Wanted(x)
  PROVE  /\ Staged(x, RunStage(x)) \/ NewRound(x, RunStage(x), 2)
         /\ RunStage(x).x.after = x.after
<1>1. CASE x.pulls # {}
  <2> DEFINE f == First(x, x.pulls)
             t == x.pulls \ {f}
             y == [x EXCEPT !.at = f, !.pulls = t]
             z == Fetch(y, "manifest", {Target(y)})
  <2>1. f \in x.pulls /\ f \in Folder /\ f \in DOMAIN x.peerf /\ x.peerf[f] \in Man
    BY <1>1, OwnAre, FirstIn DEF Wanted
  <2>2. RunStage(x) = Ask(z)
    BY <1>1, Zenon DEF RunStage
  <2> HIDE DEF f
  <2>3. /\ IsEnd(y) /\ y.me = x.me /\ y.after = x.after /\ y.peerf = x.peerf /\ y.todo = x.todo /\ y.round = x.round
        /\ y.want = x.want /\ y.left = x.left /\ y.tries = x.tries /\ y.put = x.put
        /\ y.pulls = t /\ y.at = f
    BY DEF Base, Typed, IsEnd, Local
  <2> HIDE DEF y
  <2>4. Base(y) /\ Target(y) = x.peerf[f]
    BY <2>3, BaseOn DEF Base, Typed, Target
  <2>5. /\ Base(z) /\ z.me = y.me /\ z.after = y.after /\ z.peerf = y.peerf /\ z.round = y.round
        /\ z.pulls = y.pulls /\ z.at = y.at /\ z.phase = "manifest" /\ z.want = {Target(y)} /\ z.got = {}
    <3>1. {Target(y)} \subseteq Blob
      BY <2>1, <2>4 DEF Man, Kind
    <3> QED BY <2>4, <3>1, FetchFrom
  <2> HIDE DEF z
  <2>6. Going(z, store[z.me])
    <3>1. Target(z) = Target(y) /\ Own(z) = Own(x)
      BY <2>3, <2>5 DEF Target, Own
    <3>2. Wanted(z)
      BY <2>3, <2>5, <3>1 DEF Wanted
    <3> QED BY <2>1, <2>3, <2>4, <2>5, <3>1, <3>2 DEF Going, Gets
  <2>7. Staged(z, Ask(z)) /\ Ask(z).x.after = z.after
    BY <2>3, <2>5, <2>6, AskIs
  <2>8. Staged(x, Ask(z))
    BY <2>3, <2>5, <2>7, OutcomeOn
  <2> QED BY <2>2, <2>3, <2>5, <2>7, <2>8
<1>2. CASE x.pulls = {}
  <2> DEFINE m == <<RequestItems(NoFolder, {})>>
             next == IF x.me = "I" /\ StageNeeded(x, "R") # {}
                     THEN Does([x EXCEPT !.pc = "serve"], <<>>) ELSE StartRound(x, 2)
  <2>1. RunStage(x) = [next EXCEPT !.out = m \o @]
    BY <1>2, Zenon DEF RunStage
  <2>2. (Staged(x, next) \/ NewRound(x, next, 2)) /\ next.x.after = x.after
    BY ServesIs, RoundIs
  <2>3. Carries(m, {})
    BY CarriesFrame DEF RequestItems
  <2> HIDE DEF next, m
  <2>4. IsDeed(next)
    BY <2>2 DEF Staged, NewRound
  <2> DEFINE b == [next EXCEPT !.out = m \o @]
  <2>5. /\ Staged(x, next) => Staged(x, b)
        /\ \A r : NewRound(x, next, r) => NewRound(x, b, r)
        /\ b.x = next.x
    BY <2>3, <2>4, StagedAfter
  <2> HIDE DEF b
  <2>6. RunStage(x) = b
    BY <2>1 DEF b
  <2> QED BY <2>2, <2>5, <2>6
<1> QED BY <1>1, <1>2

\* The stage of an end: what the peer has and it lacks.
LEMMA NeededIs ==
  ASSUME NEW x, Base(x), NEW y, y = [x EXCEPT !.pulls = StageNeeded(x, x.me)]
  PROVE  /\ Base(y) /\ Wanted(y) /\ y.me = x.me /\ y.round = x.round /\ y.peerf = x.peerf /\ y.after = x.after
<1> DEFINE p == StageNeeded(x, x.me)
<1>1. p \subseteq Own(x) /\ \A f \in p : f \in DOMAIN x.peerf /\ x.peerf[f] \in Man
  <2>1. p \subseteq Own(x) /\ \A f \in p : f \in DOMAIN x.peerf /\ PullNeeded(cfg.cur[x.me][f], x.peerf[f])
    BY DEF StageNeeded, Own
  <2> HIDE DEF p
  <2> QED BY <2>1 DEF Base, Typed, PullNeeded, MaybeMan
<1> HIDE DEF p
<1>2. y = [x EXCEPT !.pulls = p]
  BY DEF p
<1>3. /\ IsEnd(y) /\ y.me = x.me /\ y.after = x.after /\ y.peerf = x.peerf /\ y.todo = x.todo /\ y.round = x.round
      /\ y.want = x.want /\ y.left = x.left /\ y.tries = x.tries /\ y.put = x.put /\ y.pulls = p
  BY <1>2 DEF Base, Typed, IsEnd, Local
<1>4. Base(y)
  <2>1. y.todo \subseteq Own(x) /\ y.left \subseteq x.left
    BY <1>3 DEF Base, Typed
  <2> QED BY <1>3, <2>1, BaseOn
<1>5. Wanted(y)
  BY <1>1, <1>3 DEF Wanted, Own
<1> QED BY <1>3, <1>4, <1>5

\* After the first offers, and after serving.
LEMMA PhasesAre ==
  ASSUME NEW x, Base(x), x.round = 1
  PROVE  /\ Staged(x, FolderPhases(x)) \/ NewRound(x, FolderPhases(x), 2)
         /\ FolderPhases(x).x.after = x.after
         /\ Staged(x, Served(x)) \/ NewRound(x, Served(x), 2)
<1> DEFINE y == [x EXCEPT !.pulls = StageNeeded(x, x.me)]
           d == Does([x EXCEPT !.pc = "serve"], <<>>)
<1>1. /\ Base(y) /\ Wanted(y) /\ y.me = x.me /\ y.round = x.round /\ y.peerf = x.peerf /\ y.after = x.after
  BY NeededIs
<1>2. FolderPhases(x) \in {d, RunStage(y), StartRound(x, 2)}
  BY DEF FolderPhases
<1>3. Served(x) \in {RunStage(y), StartRound(x, 2)}
  <2>1. x.me = "R" => [x EXCEPT !.pulls = StageNeeded(x, "R")] = y
    OBVIOUS
  <2> QED BY <2>1, Zenon DEF Served
<1> HIDE DEF y
<1>4. (Staged(y, RunStage(y)) \/ NewRound(y, RunStage(y), 2)) /\ RunStage(y).x.after = y.after
  BY <1>1, StageIs
<1>5. (Staged(x, RunStage(y)) \/ NewRound(x, RunStage(y), 2)) /\ RunStage(y).x.after = x.after
  BY <1>1, <1>4, OutcomeOn
<1>6. Staged(x, d) /\ d.x.after = x.after
  BY ServesIs
<1>7. NewRound(x, StartRound(x, 2), 2) /\ StartRound(x, 2).x.after = x.after
  BY RoundIs
<1> HIDE DEF d
<1> QED BY <1>2, <1>3, <1>5, <1>6, <1>7

\* What a manifest needs lies in the set of what was found below it.
LEMMA NeedsFound ==
  ASSUME NEW m \in Man, NEW enq, NEW chunks, enq \subseteq Kind("node"), chunks \subseteq Kind("chunk"),
         Refs[m] \subseteq enq, \A b \in enq : Refs[b] \subseteq enq \cup chunks
  PROVE  Needs(m) \subseteq {m} \cup enq \cup chunks
<1> DEFINE S == {m} \cup enq \cup chunks
<1>1. S \in SUBSET Blob
  BY DEF Man, Kind
<1>2. \A b \in S : Refs[b] \subseteq S
  BY RefsAssumption
<1>3. S \in Closed
  BY <1>1, <1>2 DEF Closed
<1> QED BY <1>3 DEF Needs

\* One folder is pulled.
LEMMA PulledIs ==
  ASSUME NEW x, Base(x), x.round = 1, Wanted(x), x.at \in Folder, x.at \in DOMAIN x.peerf, Target(x) \in Man,
         Below(x, store[x.me][x.at]), x.enq \subseteq store[x.me][x.at], x.chunks \subseteq store[x.me][x.at],
         \A b \in x.enq : Refs[b] \subseteq x.enq \cup x.chunks
  PROVE  Outcome(x, FolderPulled(x))
<1> DEFINE f == x.at
           m == IF cfg.cur[x.me][f] = NoManifest THEN Target(x) ELSE x.after[f]
           y == [x EXCEPT !.after[f] = m]
           aft == [x.after EXCEPT ![f] = m]
<1>1. FolderPulled(x) = RunStage(y)
  BY DEF FolderPulled
<1>2. y = [x EXCEPT !.after = aft]
  OBVIOUS
<1>3. Needs(Target(x)) \subseteq store[x.me][f]
  BY NeedsFound DEF Below
<1>4. m \in MaybeMan /\ f \in Folder /\ x.after \in [Folder -> MaybeMan]
  BY DEF Base, Typed, MaybeMan
<1>5. cfg.cur[x.me][f] = NoManifest => m = Target(x)
  OBVIOUS
<1> HIDE DEF y, m
<1>6. aft \in [Folder -> MaybeMan] /\ aft[f] = m /\ \A g \in Folder : g # f => aft[g] = x.after[g]
  BY <1>4
<1> HIDE DEF aft, f
<1>7. /\ IsEnd(y) /\ y.me = x.me /\ y.after = aft /\ y.peerf = x.peerf /\ y.todo = x.todo /\ y.round = x.round
      /\ y.want = x.want /\ y.left = x.left /\ y.tries = x.tries /\ y.put = x.put /\ y.pulls = x.pulls
  BY <1>2 DEF Base, Typed, IsEnd, Local
<1>8. Held(y, store[x.me])
  BY <1>3, <1>5, <1>6, <1>7 DEF Base, Held
<1>9. Base(y)
  BY <1>6, <1>7, <1>8 DEF Base, Typed, Own
<1>10. Wanted(y)
  BY <1>7 DEF Wanted, Own
<1>11. Staged(y, RunStage(y)) \/ NewRound(y, RunStage(y), 2)
  BY <1>7, <1>9, <1>10, StageIs
<1> QED BY <1>1, <1>7, <1>11, OutcomeOn

\* The chunks of a folder: the nodes are all there.
Chunked(x, have, want) ==
  /\ Below(x, have) /\ x.enq \subseteq have /\ x.chunks \ want \subseteq have /\ want \subseteq Blob
  /\ \A b \in x.enq : Refs[b] \subseteq x.enq \cup x.chunks

\* The folder that is being pulled.
Pulling(x) == Wanted(x) /\ x.at \in Folder /\ x.at \in DOMAIN x.peerf /\ Target(x) \in Man

\* Fetching what is missing keeps the pull going.
LEMMA FetchGoes ==
  ASSUME NEW x, Base(x), x.round = 1, Pulling(x), NEW want, Chunked(x, store[x.me][x.at], want), NEW ph \in {"packs", "chunks"}
  PROVE  LET z == Fetch(x, ph, want)
         IN  Base(z) /\ Going(z, store[x.me]) /\ z.me = x.me /\ z.round = 1 /\ z.peerf = x.peerf /\ z.after = x.after /\ z.phase = ph
<1> DEFINE z == Fetch(x, ph, want)
<1>1. /\ Base(z) /\ z.me = x.me /\ z.after = x.after /\ z.peerf = x.peerf /\ z.round = x.round
      /\ z.pulls = x.pulls /\ z.at = x.at /\ z.enq = x.enq /\ z.chunks = x.chunks
      /\ z.phase = ph /\ z.want = want /\ z.got = {}
  BY FetchFrom DEF Chunked
<1> HIDE DEF z
<1>2. Target(z) = Target(x) /\ Own(z) = Own(x)
  BY <1>1 DEF Target, Own
<1>3. Wanted(z)
  BY <1>1, <1>2 DEF Pulling, Wanted
<1>4. Going(z, store[x.me])
  BY <1>1, <1>2, <1>3 DEF Going, Gets, Below, Chunked, Pulling
<1> QED BY <1>1, <1>4 DEF z

\* The chunks, by items.
LEMMA ChunksAre ==
  ASSUME NEW x, Base(x), x.round = 1, Pulling(x), NEW want, Chunked(x, store[x.me][x.at], want)
  PROVE  Outcome(x, FetchChunks(x, want))
<1>1. CASE want = {}
  <2>1. FetchChunks(x, want) = FolderPulled(x)
    BY <1>1 DEF FetchChunks
  <2> QED BY <1>1, <2>1, PulledIs DEF Chunked, Pulling
<1>2. CASE want # {}
  <2> DEFINE z == Fetch(x, "chunks", want)
  <2>1. FetchChunks(x, want) = Ask(z)
    BY <1>2 DEF FetchChunks
  <2>2. Base(z) /\ Going(z, store[x.me]) /\ z.me = x.me /\ z.round = 1 /\ z.peerf = x.peerf /\ z.after = x.after /\ z.phase = "chunks"
    BY FetchGoes
  <2> HIDE DEF z
  <2>3. Staged(z, Ask(z))
    BY <2>2, AskIs
  <2> QED BY <2>1, <2>2, <2>3, OutcomeOn
<1> QED BY <1>1, <1>2

\* Or by packs.
LEMMA ViaPacksIs ==
  ASSUME NEW x, Base(x), x.round = 1, Pulling(x), NEW want, Chunked(x, store[x.me][x.at], want)
  PROVE  Outcome(x, FetchViaPacks(x, want))
<1> DEFINE y == Fetch(x, "packs", want)
           z == [y EXCEPT !.pc = "packs"]
           out == <<RequestPacks(x.at, WorthPacks(y))>>
           d == Does(z, out)
<1>1. FetchViaPacks(x, want) = FetchChunks(x, want) \/ FetchViaPacks(x, want) = d
  BY Zenon DEF FetchViaPacks
<1>2. Base(y) /\ Going(y, store[x.me]) /\ y.me = x.me /\ y.round = 1 /\ y.peerf = x.peerf /\ y.after = x.after /\ y.phase = "packs"
  BY FetchGoes
<1>3. Carries(out, {})
  BY CarriesFrame DEF RequestPacks
<1> HIDE DEF y, out
<1>4. /\ IsEnd(z) /\ z.me = y.me /\ z.after = y.after /\ z.peerf = y.peerf /\ z.todo = y.todo /\ z.round = y.round
      /\ z.want = y.want /\ z.left = y.left /\ z.tries = y.tries /\ z.put = y.put /\ z.pc = "packs"
      /\ z.pulls = y.pulls /\ z.at = y.at /\ z.phase = y.phase /\ z.got = y.got /\ z.enq = y.enq /\ z.chunks = y.chunks
  BY <1>2 DEF Base, Typed, IsEnd, Local
<1>5. IsDeed(d) /\ d.x = z /\ d.out = out /\ d.agree = <<>>
  BY DEF Does, IsDeed
<1> HIDE DEF z, d
<1>6. Base(z)
  BY <1>2, <1>4, BaseOn DEF Base, Typed
<1>7. Going(z, store[x.me])
  BY <1>2, <1>4, GoingOn
<1>8. Staged(x, d)
  BY <1>2, <1>3, <1>4, <1>5, <1>6, <1>7 DEF Staged, Pulls, Stage
<1>9. Outcome(x, FetchChunks(x, want))
  BY ChunksAre
<1> QED BY <1>1, <1>8, <1>9 DEF Outcome

\* pull_folder() goes on with what the blobs name.
LEMMA PullIs ==
  ASSUME NEW x, Base(x), x.round = 1, Going(x, store[x.me]), x.phase # "packs", x.want \subseteq x.got
  PROVE  Outcome(x, PullFolder(x))
<1> DEFINE have == store[x.me][x.at]
           named == UNION {Refs[b] : b \in x.want}
           nodes == {b \in named : b[1] = "node"} \ x.enq
           chunks == x.chunks \cup {b \in named : b[1] = "chunk"}
           enq == x.enq \cup nodes
           y == [x EXCEPT !.enq = enq, !.chunks = chunks]
<1>1. x.want \subseteq have /\ x.want \subseteq Blob /\ Pulling(x)
  BY DEF Going, Gets, Base, Typed, Pulling
<1>2. named \subseteq Blob
  BY <1>1, WireAssumption
<1>3. CASE x.phase = "manifest"
  <2> DEFINE u == Fetch(x, "nodes", named)
             z == [u EXCEPT !.enq = named, !.chunks = {}]
  <2>1. PullFolder(x) = Ask(z)
    BY <1>3, Zenon DEF PullFolder
  <2>2. x.want = {Target(x)} /\ Target(x) \in Man /\ Target(x) \in have
    BY <1>1, <1>3 DEF Going, Gets
  <2>3. named = Refs[Target(x)]
    BY <2>2
  <2>4. named \subseteq Kind("node")
    BY <2>2, <2>3, RefsAssumption DEF Man
  <2>5. /\ Base(u) /\ u.me = x.me /\ u.after = x.after /\ u.peerf = x.peerf /\ u.round = x.round
        /\ u.pulls = x.pulls /\ u.at = x.at /\ u.phase = "nodes" /\ u.want = named /\ u.got = {}
    BY <1>2, FetchFrom
  <2> HIDE DEF u, named
  <2>6. /\ IsEnd(z) /\ z.me = u.me /\ z.after = u.after /\ z.peerf = u.peerf /\ z.todo = u.todo /\ z.round = u.round
        /\ z.want = u.want /\ z.left = u.left /\ z.tries = u.tries /\ z.put = u.put
        /\ z.pulls = u.pulls /\ z.at = u.at /\ z.phase = u.phase /\ z.got = u.got /\ z.enq = named /\ z.chunks = {}
    BY <2>5 DEF Base, Typed, IsEnd, Local
  <2> HIDE DEF z
  <2>7. Base(z)
    <3>1. z.todo \subseteq Own(u) /\ z.left \subseteq u.left
      BY <2>5, <2>6 DEF Base, Typed
    <3> QED BY <2>5, <2>6, <3>1, BaseOn
  <2>8. Target(z) = Target(x) /\ Own(z) = Own(x)
    BY <2>5, <2>6 DEF Target, Own
  <2>9. Wanted(z) /\ z.at \in Folder /\ z.at \in DOMAIN z.peerf /\ Target(z) \in Man
    BY <1>1, <2>5, <2>6, <2>8 DEF Pulling, Wanted
  <2>10. Gets(z, have)
    BY <2>2, <2>3, <2>4, <2>5, <2>6, <2>8 DEF Gets, Below
  <2>11. Going(z, store[z.me])
    BY <2>5, <2>6, <2>9, <2>10 DEF Going
  <2>12. Staged(z, Ask(z))
    BY <2>5, <2>6, <2>7, <2>11, AskIs
  <2> QED BY <2>1, <2>5, <2>6, <2>12, OutcomeOn
<1>4. CASE x.phase = "nodes"
  <2>1. /\ Below(x, have) /\ x.want \subseteq x.enq /\ x.enq \subseteq have
        /\ \A b \in x.enq \ x.want : Refs[b] \subseteq x.enq \cup x.chunks
    BY <1>1, <1>4 DEF Going, Gets
  <2>2. \A b \in named : b \in Kind("node") \/ b \in Kind("chunk")
    BY <2>1, RefsAssumption DEF Below
  <2>3. /\ enq \subseteq Kind("node") /\ chunks \subseteq Kind("chunk") /\ nodes \subseteq Kind("node")
    BY <1>2, <2>1 DEF Below, Kind
  <2>4. \A b \in x.enq : Refs[b] \subseteq enq \cup chunks
    <3> TAKE b \in x.enq
    <3>1. CASE b \in x.want
      <4>1. Refs[b] \subseteq named
        BY <3>1
      <4> QED BY <2>2, <4>1 DEF Kind
    <3>2. CASE b \notin x.want
      BY <2>1, <3>2
    <3> QED BY <3>1, <3>2
  <2>5. enq = x.enq \cup nodes
    OBVIOUS
  <2>6. \/ nodes # {} /\ PullFolder(x) = Ask(Fetch(y, "nodes", nodes))
        \/ nodes = {} /\ PullFolder(x) = FetchViaPacks(y, chunks \ Stored(x))
    BY <1>4, Zenon DEF PullFolder
  <2>7. nodes \cap x.enq = {} /\ nodes \subseteq Blob /\ chunks \subseteq Blob
    BY <1>2, <2>3 DEF Kind
  <2> HIDE DEF named, nodes, chunks, enq
  <2>8. /\ IsEnd(y) /\ y.me = x.me /\ y.after = x.after /\ y.peerf = x.peerf /\ y.todo = x.todo /\ y.round = x.round
        /\ y.want = x.want /\ y.left = x.left /\ y.tries = x.tries /\ y.put = x.put
        /\ y.pulls = x.pulls /\ y.at = x.at /\ y.enq = enq /\ y.chunks = chunks
    BY DEF Base, Typed, IsEnd, Local
  <2> HIDE DEF y
  <2>9. Base(y)
    <3>1. y.todo \subseteq Own(x) /\ y.left \subseteq x.left
      BY <2>8 DEF Base, Typed
    <3> QED BY <2>8, <3>1, BaseOn
  <2>10. Target(y) = Target(x) /\ Own(y) = Own(x) /\ Pulling(y)
    BY <1>1, <2>8 DEF Target, Own, Pulling, Wanted
  <2>11. Below(y, have)
    BY <2>1, <2>3, <2>5, <2>8, <2>10 DEF Below
  <2>12. CASE nodes # {} /\ PullFolder(x) = Ask(Fetch(y, "nodes", nodes))
    <3> DEFINE z == Fetch(y, "nodes", nodes)
    <3>1. /\ Base(z) /\ z.me = y.me /\ z.after = y.after /\ z.peerf = y.peerf /\ z.round = y.round
          /\ z.pulls = y.pulls /\ z.at = y.at /\ z.enq = y.enq /\ z.chunks = y.chunks
          /\ z.phase = "nodes" /\ z.want = nodes /\ z.got = {}
      BY <2>7, <2>9, FetchFrom
    <3> HIDE DEF z
    <3>2. Target(z) = Target(y) /\ Own(z) = Own(y)
      BY <3>1 DEF Target, Own
    <3>3. Wanted(z) /\ z.at \in Folder /\ z.at \in DOMAIN z.peerf /\ Target(z) \in Man
      BY <2>10, <3>1, <3>2 DEF Pulling, Wanted
    <3>4. Below(z, have)
      BY <2>11, <3>1, <3>2 DEF Below
    <3>5. z.enq \ z.want = x.enq /\ z.want \subseteq z.enq
      BY <2>5, <2>7, <2>8, <3>1
    <3>6. Gets(z, have)
      BY <2>1, <2>4, <2>8, <3>1, <3>4, <3>5 DEF Gets
    <3>7. Going(z, store[z.me])
      BY <2>8, <3>1, <3>3, <3>6 DEF Going
    <3>8. Staged(z, Ask(z))
      BY <2>8, <3>1, <3>7, AskIs
    <3>9. Outcome(x, Ask(z))
      BY <2>8, <3>1, <3>8, OutcomeOn
    <3> QED BY <2>12, <3>9 DEF z
  <2>13. CASE nodes = {} /\ PullFolder(x) = FetchViaPacks(y, chunks \ Stored(x))
    <3> DEFINE w == chunks \ Stored(x)
    <3>1. Chunked(y, store[y.me][y.at], w)
      <4>1. y.enq = x.enq /\ w \subseteq Blob /\ store[y.me][y.at] = have /\ y.chunks \ w \subseteq have
        BY <2>5, <2>7, <2>8, <2>13 DEF Stored
      <4>2. \A b \in y.enq : Refs[b] \subseteq y.enq \cup y.chunks
        BY <2>4, <2>5, <2>8, <2>13
      <4> HIDE DEF w
      <4> QED BY <2>1, <2>11, <4>1, <4>2 DEF Chunked
    <3> HIDE DEF w
    <3>2. Outcome(y, FetchViaPacks(y, w))
      BY <2>8, <2>9, <2>10, <3>1, ViaPacksIs
    <3>3. Outcome(x, FetchViaPacks(y, w))
      BY <2>8, <3>2, OutcomeOn
    <3> QED BY <2>13, <3>3 DEF w
  <2> QED BY <2>6, <2>12, <2>13
<1>5. CASE x.phase = "chunks"
  <2>1. PullFolder(x) = FolderPulled(x)
    BY <1>5, Zenon DEF PullFolder
  <2>2. /\ Below(x, have) /\ x.enq \subseteq have /\ x.chunks \subseteq have
        /\ \A b \in x.enq : Refs[b] \subseteq x.enq \cup x.chunks
    BY <1>1, <1>5 DEF Going, Gets
  <2> QED BY <1>1, <2>1, <2>2, PulledIs DEF Pulling
<1> QED BY <1>3, <1>4, <1>5 DEF Going, Gets

\* The end of an answer in fetch_blobs().
LEMMA BlobsAre ==
  ASSUME NEW x, Base(x), x.round = 1, Going(x, store[x.me]), x.phase # "packs"
  PROVE  Outcome(x, FetchBlobs(x))
<1> DEFINE open == x.want \ x.got
           t == x.tries + 1
           y == [x EXCEPT !.left = open, !.tries = t]
<1>1. \/ FetchBlobs(x) = Ask(x)
      \/ open = {} /\ FetchBlobs(x) = PullFolder(x)
      \/ x.tries < MaxRetries /\ FetchBlobs(x) = Ask(y)
      \/ FetchBlobs(x) = Abort(x, "missing")
  BY DEF FetchBlobs
<1>2. CASE FetchBlobs(x) = Ask(x)
  BY <1>2, AskIs DEF Outcome
<1>3. CASE open = {} /\ FetchBlobs(x) = PullFolder(x)
  <2>1. x.want \subseteq x.got
    BY <1>3
  <2> QED BY <1>3, <2>1, PullIs
<1>4. CASE x.tries < MaxRetries /\ FetchBlobs(x) = Ask(y)
  <2>1. t \in 0 .. MaxRetries /\ open \subseteq x.want
    BY <1>4, WireAssumption DEF Base, Typed
  <2> HIDE DEF open, t
  <2>2. /\ IsEnd(y) /\ y.me = x.me /\ y.after = x.after /\ y.peerf = x.peerf /\ y.todo = x.todo /\ y.round = x.round
        /\ y.want = x.want /\ y.left = open /\ y.tries = t /\ y.put = x.put
        /\ y.pulls = x.pulls /\ y.at = x.at /\ y.phase = x.phase /\ y.got = x.got /\ y.enq = x.enq /\ y.chunks = x.chunks
    BY DEF Base, Typed, IsEnd, Local
  <2> HIDE DEF y
  <2>3. Base(y)
    BY <2>1, <2>2 DEF Base, Typed, Held, Own
  <2>4. Going(y, store[y.me])
    BY <2>2, GoingOn
  <2>5. Staged(y, Ask(y))
    BY <2>2, <2>3, <2>4, AskIs
  <2> QED BY <1>4, <2>2, <2>5, OutcomeOn
<1>5. CASE FetchBlobs(x) = Abort(x, "missing")
  BY <1>5, DeadIs DEF Outcome
<1> QED BY <1>1, <1>2, <1>3, <1>4, <1>5

\* Blobs are read: they will be stored.
Reading(x, d) ==
  /\ IsDeed(d) /\ d.agree = <<>> /\ d.out = <<>> /\ IsEnd(d.x)
  /\ d.x.me = x.me /\ d.x.pc = x.pc /\ d.x.round = x.round /\ d.x.after = x.after /\ d.x.peerf = x.peerf
  /\ d.x.todo = x.todo /\ d.x.want = x.want /\ d.x.left = x.left /\ d.x.tries = x.tries
  /\ d.x.pulls = x.pulls /\ d.x.at = x.at /\ d.x.phase = x.phase /\ d.x.enq = x.enq /\ d.x.chunks = x.chunks
  /\ d.x.offer = x.offer
  /\ d.x.put \subseteq Blob /\ d.x.got \subseteq store[x.me][x.at] \cup d.x.put

\* Items that are read.
LEMMA ItemsAre ==
  ASSUME NEW x, Base(x), Going(x, store[x.me]), NEW items, items \subseteq [blob : Blob, bad : BOOLEAN]
  PROVE  Reading(x, Does(ReadItems(x, items), <<>>))
<1> DEFINE good == {i.blob : i \in {j \in items : ~j.bad}}
           got == x.got \cup good
           r == x.rejections + Cardinality({j \in items : j.bad})
           z == [x EXCEPT !.put = good, !.got = got, !.rejections = r]
           d == Does(z, <<>>)
<1>1. ReadItems(x, items) = z
  BY DEF ReadItems
<1>2. good \subseteq Blob /\ got \subseteq store[x.me][x.at] \cup good
  BY DEF Going, Gets
<1> HIDE DEF good, got, r
<1>3. /\ IsEnd(z) /\ z.put = good /\ z.got = got
      /\ z.me = x.me /\ z.pc = x.pc /\ z.round = x.round /\ z.after = x.after /\ z.peerf = x.peerf
      /\ z.todo = x.todo /\ z.want = x.want /\ z.left = x.left /\ z.tries = x.tries
      /\ z.pulls = x.pulls /\ z.at = x.at /\ z.phase = x.phase /\ z.enq = x.enq /\ z.chunks = x.chunks
      /\ z.offer = x.offer
  BY DEF Base, Typed, IsEnd, Local
<1>4. IsDeed(d) /\ d.x = z /\ d.out = <<>> /\ d.agree = <<>>
  BY DEF Does, IsDeed
<1> HIDE DEF z
<1>5. Reading(x, d)
  BY <1>2, <1>3, <1>4 DEF Reading
<1> QED BY <1>1, <1>5

\* A pack is read.
LEMMA PackIs ==
  ASSUME NEW x, Base(x), Going(x, store[x.me]), NEW p, p.blobs \subseteq Blob
  PROVE  Reading(x, Does(ReadPack(x, p), <<>>))
<1>1. CASE p.bad
  <2> DEFINE r == x.rejections + 1
             z == [x EXCEPT !.rejections = r]
             d == Does(z, <<>>)
  <2>1. ReadPack(x, p) = z
    BY <1>1 DEF ReadPack
  <2> HIDE DEF r
  <2>2. /\ IsEnd(z) /\ z.put = x.put /\ z.got = x.got
        /\ z.me = x.me /\ z.pc = x.pc /\ z.round = x.round /\ z.after = x.after /\ z.peerf = x.peerf
        /\ z.todo = x.todo /\ z.want = x.want /\ z.left = x.left /\ z.tries = x.tries
        /\ z.pulls = x.pulls /\ z.at = x.at /\ z.phase = x.phase /\ z.enq = x.enq /\ z.chunks = x.chunks
        /\ z.offer = x.offer
    BY DEF Base, Typed, IsEnd, Local
  <2>3. IsDeed(d) /\ d.x = z /\ d.out = <<>> /\ d.agree = <<>>
    BY DEF Does, IsDeed
  <2> HIDE DEF z
  <2>4. z.put \subseteq Blob /\ z.got \subseteq store[x.me][x.at] \cup z.put
    BY <2>2 DEF Base, Typed, Going, Gets
  <2>5. Reading(x, d)
    BY <2>2, <2>3, <2>4 DEF Reading
  <2> QED BY <2>1, <2>5
<1>2. CASE ~p.bad
  <2> DEFINE good == p.blobs
             got == x.got \cup {b \in x.want : <<b, p.name>> \in x.adv[x.at] /\ b \in p.blobs \cup Stored(x)}
             z == [x EXCEPT !.put = good, !.got = got]
             d == Does(z, <<>>)
  <2>1. ReadPack(x, p) = z
    BY <1>2 DEF ReadPack
  <2>2. good \subseteq Blob /\ got \subseteq store[x.me][x.at] \cup good
    BY DEF Going, Gets, Stored
  <2> HIDE DEF good, got
  <2>3. /\ IsEnd(z) /\ z.put = good /\ z.got = got
        /\ z.me = x.me /\ z.pc = x.pc /\ z.round = x.round /\ z.after = x.after /\ z.peerf = x.peerf
        /\ z.todo = x.todo /\ z.want = x.want /\ z.left = x.left /\ z.tries = x.tries
        /\ z.pulls = x.pulls /\ z.at = x.at /\ z.phase = x.phase /\ z.enq = x.enq /\ z.chunks = x.chunks
        /\ z.offer = x.offer
    BY DEF Base, Typed, IsEnd, Local
  <2>4. IsDeed(d) /\ d.x = z /\ d.out = <<>> /\ d.agree = <<>>
    BY DEF Does, IsDeed
  <2> HIDE DEF z
  <2>5. Reading(x, d)
    BY <2>2, <2>3, <2>4 DEF Reading
  <2> QED BY <2>1, <2>5
<1> QED BY <1>1, <1>2

-----------------------------------------------------------------------------
(* The ends of the rounds.                                                  *)

\* Where an end can be that is through the handshake.
Spot(x) ==
  /\ x.round \in {1, 2} /\ x.pc \in Exchange \cup Stage \cup {"bye", "done", "failed"}
  /\ Adverts(x) \/ x.pc \in Stage => x.round = 1
  /\ x.pc \in {"bye", "done"} => x.round = 2
  /\ Awaits(x) => x.at # NoFolder
  /\ Adverts(x) => x.offer.folder # NoFolder

\* The folders that both ends have alike, as an end knows it.
Agreeing(x) == {f \in Own(x) \cap DOMAIN x.peerf : x.after[f] # NoManifest /\ x.after[f] = x.peerf[f]}

\* What is recorded with a deed: nothing, or what the ends have alike.
Recorded(d) ==
  \/ d.agree = <<>> /\ d.x.pc \notin {"bye", "done"}
  \/ d.x.pc = "bye" /\ d.agree = [f \in Agreeing(d.x) |-> d.x.after[f]]

\* A deed after which all is as it should be with the end itself.
Sound(x, d) ==
  /\ IsDeed(d) /\ Base(d.x) /\ d.x.me = x.me
  /\ Listed(d.x) /\ Spot(d.x) /\ Pulls(d.x, store[x.me])

\* A deed that is a turn.
Fares(x, n, d) ==
  /\ Sound(x, d) /\ (Recorded(d) \/ (x.pc = "bye" /\ d.agree = <<>>))
  /\ \E o : Carries(d.out, o) /\ Turn(x, n, d.x, o)

\* A stage goes on, a round begins, an end fails.
LEMMA OutcomeSound ==
  ASSUME NEW x, NEW d
  PROVE  /\ Staged(x, d) => Sound(x, d) /\ Recorded(d)
         /\ \A r \in {1, 2} : NewRound(x, d, r) => Sound(x, d) /\ Recorded(d)
         /\ Dead(x, d) /\ Spot(x) => Sound(x, d) /\ Recorded(d)
<1>1. ASSUME Staged(x, d) PROVE Sound(x, d) /\ Recorded(d)
  <2>1. Listed(d.x) /\ Spot(d.x)
    BY <1>1 DEF Staged, Listed, Spot, Awaits, Adverts, Stage
  <2> QED BY <1>1, <2>1 DEF Staged, Sound, Recorded, Stage
<1>2. ASSUME NEW r \in {1, 2}, NewRound(x, d, r) PROVE Sound(x, d) /\ Recorded(d)
  <2>1. d.x.pc = "offer" \/ (d.x.pc = "echo" /\ d.x.at # NoFolder)
    BY <1>2 DEF NewRound, Begins, Says, Base, Typed, End
  <2>2. Spot(d.x) /\ Pulls(d.x, store[x.me])
    BY <1>2, <2>1 DEF NewRound, Spot, Pulls, Awaits, Adverts, Stage, Exchange
  <2> QED BY <1>2, <2>1, <2>2 DEF NewRound, Sound, Recorded
<1>3. ASSUME Dead(x, d), Spot(x) PROVE Sound(x, d) /\ Recorded(d)
  <2>1. Listed(d.x) /\ Spot(d.x) /\ Pulls(d.x, store[x.me])
    BY <1>3 DEF Dead, Listed, Spot, Awaits, Adverts, Stage, Pulls
  <2> QED BY <1>3, <2>1 DEF Dead, Sound, Recorded
<1> QED BY <1>1, <1>2, <1>3

\* A deed in a stage is a turn.
LEMMA OutcomeFares ==
  ASSUME NEW x, Spot(x), x.pc \in Stage, NEW d, Outcome(x, d)
  PROVE  Fares(x, {}, d)
<1>1. Sound(x, d) /\ Recorded(d)
  BY OutcomeSound DEF Outcome
<1>2. CASE Staged(x, d)
  <2>1. Quiet(x, d.x, {})
    BY <1>2 DEF Staged, Quiet, Spot
  <2> QED BY <1>1, <1>2, <2>1 DEF Staged, Fares, Turn
<1>3. CASE NewRound(x, d, 2)
  <2>1. PICK o : Carries(d.out, o) /\ Begins(d.x, o)
    BY <1>3 DEF NewRound
  <2>2. Enters(x, {}, d.x, o)
    BY <1>3, <2>1 DEF NewRound, Enters
  <2> QED BY <1>1, <1>3, <2>1, <2>2 DEF NewRound, Fares, Turn
<1>4. CASE Dead(x, d)
  <2>1. Quiet(x, d.x, {})
    BY <1>4 DEF Dead, Quiet
  <2> QED BY <1>1, <1>4, <2>1 DEF Dead, Fares, Turn
<1> QED BY <1>2, <1>3, <1>4 DEF Outcome

\* An end that fails takes a turn.
LEMMA DeadFares ==
  ASSUME NEW x, Spot(x), NEW n, NEW d, Dead(x, d)
  PROVE  Fares(x, n, d)
<1>1. Sound(x, d) /\ Recorded(d)
  BY OutcomeSound
<1>2. Quiet(x, d.x, {})
  BY DEF Dead, Quiet
<1> QED BY <1>1, <1>2 DEF Dead, Fares, Turn

\* A round is over.
Concludes(x, d) ==
  /\ Sound(x, d) /\ Recorded(d) /\ d.x.after = x.after
  /\ \E q : Carries(d.out, q) /\ Over(x, d.x, x.peerf, q)

\* finish_after_sync().
LEMMA FinishIs ==
  ASSUME NEW x, Base(x), x.round = 2, Own(x) \subseteq DOMAIN x.peerf
  PROVE  Concludes(x, FinishAfterSync(x))
<1> DEFINE z == [x EXCEPT !.pc = "bye"]
           out == IF x.me = "I" THEN <<Bye("normal")>> ELSE <<>>
           same == {f \in ToSet(cfg.folders[x.me]) \cap DOMAIN x.peerf : x.after[f] # NoManifest /\ x.after[f] = x.peerf[f]}
           agr == [f \in same |-> x.after[f]]
           d0 == Does(z, out)
           d == [d0 EXCEPT !.agree = agr]
<1>1. FinishAfterSync(x) = d
  BY Zenon DEF FinishAfterSync
<1>2. same = Agreeing(x)
  BY DEF Agreeing, Own
<1>3. Carries(out, {})
  BY CarriesNone, CarriesFrame DEF Bye
<1>4. /\ IsEnd(z) /\ z.me = x.me /\ z.after = x.after /\ z.peerf = x.peerf /\ z.todo = x.todo /\ z.round = x.round
      /\ z.want = x.want /\ z.left = x.left /\ z.tries = x.tries /\ z.put = x.put /\ z.pc = "bye"
  BY DEF Base, Typed, IsEnd, Local
<1> HIDE DEF z, out
<1>5. IsDeed(d0) /\ d0.x = z /\ d0.out = out
  BY DEF Does, IsDeed
<1>6. agr = [f \in Agreeing(z) |-> z.after[f]]
  <2>1. Agreeing(z) = Agreeing(x)
    BY <1>4 DEF Agreeing, Own
  <2> QED BY <1>2, <1>4, <2>1
<1> HIDE DEF d0, agr
<1>7. IsDeed(d) /\ d.x = z /\ d.out = out /\ d.agree = agr
  BY <1>5 DEF IsDeed
<1> HIDE DEF d
<1>8. Base(z)
  BY <1>4, BaseOn DEF Base, Typed
<1>9. Listed(z) /\ Spot(z) /\ Pulls(z, store[x.me])
  BY <1>4 DEF Listed, Spot, Pulls, Awaits, Adverts, Stage, Own
<1>10. Recorded(d)
  BY <1>4, <1>6, <1>7 DEF Recorded
<1>11. Over(x, z, x.peerf, {})
  BY <1>4 DEF Over
<1> QED BY <1>1, <1>3, <1>4, <1>7, <1>8, <1>9, <1>10, <1>11 DEF Concludes, Sound

\* The end of a round of offers.
LEMMA EndIs ==
  ASSUME NEW x, Base(x), x.round \in {1, 2}, Own(x) \subseteq DOMAIN x.peerf
  PROVE  Concludes(x, EndRound(x))
<1>1. CASE x.round = 2
  <2>1. EndRound(x) = FinishAfterSync(x)
    BY <1>1 DEF EndRound
  <2> QED BY <1>1, <2>1, FinishIs
<1>2. CASE x.round = 1
  <2> DEFINE y == [x EXCEPT !.remote = x.peerf]
             d == FolderPhases(y)
  <2>1. EndRound(x) = d
    BY <1>2 DEF EndRound
  <2>2. /\ IsEnd(y) /\ y.me = x.me /\ y.after = x.after /\ y.peerf = x.peerf /\ y.todo = x.todo /\ y.round = x.round
        /\ y.want = x.want /\ y.left = x.left /\ y.tries = x.tries /\ y.put = x.put
    BY DEF Base, Typed, IsEnd, Local
  <2> HIDE DEF y
  <2>3. Base(y)
    BY <2>2, BaseOn DEF Base, Typed
  <2>4. (Staged(y, d) \/ NewRound(y, d, 2)) /\ d.x.after = y.after
    BY <1>2, <2>2, <2>3, PhasesAre
  <2> HIDE DEF d
  <2>5. Sound(x, d) /\ Recorded(d)
    <3>1. Sound(y, d) /\ Recorded(d)
      BY <2>4, OutcomeSound
    <3> QED BY <2>2, <3>1 DEF Sound
  <2>6. \E q : Carries(d.out, q) /\ Over(x, d.x, x.peerf, q)
    BY <1>2, <2>4 DEF Staged, NewRound, Over
  <2> QED BY <2>1, <2>2, <2>4, <2>5, <2>6 DEF Concludes
<1> QED BY <1>1, <1>2

-----------------------------------------------------------------------------
(* Offers.                                                                  *)

\* An end that goes on announces a folder or the end of its list; the responder
\* then ends the round.
Proceeds(x, d) ==
  /\ Sound(x, d) /\ Recorded(d) /\ d.x.after = x.after
  /\ \E o : /\ Carries(d.out, o)
            /\ \/ d.x.round = x.round /\ d.x.peerf = x.peerf
                  /\ (Says(d.x, o) \/ (x.me = "I" /\ d.x.pc = "offer" /\ o = {Nothing}))
               \/ x.me = "R" /\ o = {Nothing} /\ \E q : Over(x, d.x, x.peerf, q)

\* The next announcement, or none.
LEMMA LeftIs ==
  ASSUME NEW x, Base(x), x.round \in {1, 2}, Own(x) \subseteq DOMAIN x.peerf \cup x.todo
  PROVE  Proceeds(x, OffersLeft(x))
<1>1. CASE x.todo # {}
  <2> DEFINE d == AnnounceNext(x)
  <2>1. OffersLeft(x) = d
    BY <1>1 DEF OffersLeft
  <2>2. /\ IsDeed(d) /\ d.agree = <<>> /\ Base(d.x) /\ d.x.me = x.me /\ d.x.round = x.round
        /\ d.x.peerf = x.peerf /\ d.x.after = x.after /\ Listed(d.x)
        /\ \E o : Carries(d.out, o) /\ Says(d.x, o)
    BY <1>1, NextIs
  <2> HIDE DEF d
  <2>3. d.x.pc = "echo" /\ d.x.at # NoFolder
    BY <2>2 DEF Says
  <2>4. Spot(d.x) /\ Pulls(d.x, store[x.me])
    BY <2>2, <2>3 DEF Spot, Pulls, Awaits, Adverts, Stage, Exchange
  <2>5. Sound(x, d) /\ Recorded(d)
    BY <2>2, <2>3, <2>4 DEF Sound, Recorded
  <2> QED BY <2>1, <2>2, <2>5 DEF Proceeds
<1>2. CASE x.todo = {} /\ x.me = "I"
  <2> DEFINE z == [x EXCEPT !.pc = "offer"]
             d == Does(z, <<Sentinel>>)
  <2>1. OffersLeft(x) = d
    BY <1>2 DEF OffersLeft
  <2>2. /\ IsEnd(z) /\ z.me = x.me /\ z.after = x.after /\ z.peerf = x.peerf /\ z.todo = x.todo /\ z.round = x.round
        /\ z.want = x.want /\ z.left = x.left /\ z.tries = x.tries /\ z.put = x.put /\ z.pc = "offer"
    BY DEF Base, Typed, IsEnd, Local
  <2>3. IsDeed(d) /\ d.x = z /\ d.out = <<Sentinel>> /\ d.agree = <<>>
    BY DEF Does, IsDeed
  <2> HIDE DEF z, d
  <2>4. Base(z)
    BY <2>2, BaseOn DEF Base, Typed
  <2>5. Listed(z) /\ Spot(z) /\ Pulls(z, store[x.me])
    BY <1>2, <2>2 DEF Listed, Spot, Pulls, Awaits, Adverts, Stage, Exchange, Own
  <2>6. Carries(d.out, {Nothing})
    BY <2>3, CarriesOffer DEF Sentinel, Nothing, MaybeMan
  <2>7. Sound(x, d) /\ Recorded(d)
    BY <2>2, <2>3, <2>4, <2>5 DEF Sound, Recorded
  <2> QED BY <1>2, <2>1, <2>2, <2>3, <2>6, <2>7 DEF Proceeds
<1>3. CASE x.todo = {} /\ x.me = "R"
  <2> DEFINE m == EndRound(x)
             p == <<Sentinel>>
             q == p \o m.out
             d == [m EXCEPT !.out = q]
  <2>1. OffersLeft(x) = d
    BY <1>3 DEF OffersLeft
  <2>2. Concludes(x, m)
    BY <1>3, EndIs
  <2> HIDE DEF m
  <2>3. PICK r : Carries(m.out, r) /\ Over(x, m.x, x.peerf, r)
    BY <2>2 DEF Concludes
  <2>4. r = {}
    BY <1>3, <2>2, <2>3 DEF Over, Begins, Concludes, Sound
  <2>5. Carries(p, {Nothing})
    BY CarriesOffer DEF Sentinel, Nothing, MaybeMan
  <2> HIDE DEF p
  <2>6. Carries(q, {Nothing})
    <3>1. Carries(p \o m.out, {Nothing} \cup r)
      BY <2>3, <2>4, <2>5, CarriesCat
    <3> QED BY <2>4, <3>1
  <2> HIDE DEF q
  <2>7. IsDeed(d) /\ d.x = m.x /\ d.out = q /\ d.agree = m.agree
    BY <2>2 DEF Concludes, Sound, IsDeed
  <2> HIDE DEF d
  <2>8. Sound(x, d) /\ Recorded(d) /\ d.x.after = x.after
    BY <2>2, <2>7 DEF Concludes, Sound, Recorded
  <2> QED BY <1>3, <2>1, <2>3, <2>6, <2>7, <2>8 DEF Proceeds
<1> QED BY <1>1, <1>2, <1>3 DEF Base, Typed, End

\* An offer is noted.
LEMMA NotedIs ==
  ASSUME NEW x, Base(x), x.offer.man \in MaybeMan
  PROVE  LET y == Noted(x)
         IN  /\ Base(y) /\ y.me = x.me /\ y.after = x.after /\ y.round = x.round /\ y.todo = x.todo
             /\ y.peerf = Note(x.peerf, x.offer) /\ DOMAIN y.peerf = DOMAIN x.peerf \cup {x.offer.folder}
<1> DEFINE f == x.offer.folder
           p == [g \in DOMAIN x.peerf \cup {f} |-> IF g = f THEN x.offer.man ELSE x.peerf[g]]
           y == Noted(x)
<1>1. PICK ad : y = [x EXCEPT !.peerf = p, !.adv = ad]
  BY Zenon DEF Noted
<1>2. p = Note(x.peerf, x.offer)
  BY DEF Note
<1>3. p \in [DOMAIN x.peerf \cup {f} -> MaybeMan] /\ DOMAIN p = DOMAIN x.peerf \cup {f}
  BY DEF Base, Typed
<1> HIDE DEF p, y
<1>4. /\ IsEnd(y) /\ y.me = x.me /\ y.after = x.after /\ y.peerf = p /\ y.todo = x.todo /\ y.round = x.round
      /\ y.want = x.want /\ y.left = x.left /\ y.tries = x.tries /\ y.put = x.put
  BY <1>1 DEF Base, Typed, IsEnd, Local
<1>5. Base(y)
  BY <1>3, <1>4 DEF Base, Typed, Held, Own
<1> QED BY <1>2, <1>3, <1>4, <1>5 DEF y

\* The echo of an announcement.
Replies(x, d) ==
  /\ Sound(x, d) /\ Recorded(d) /\ d.x.pc = "offer" /\ d.x.round = x.round /\ d.x.after = x.after
  /\ d.x.peerf = Note(x.peerf, x.offer)
  /\ Carries(d.out, {Offering(x.offer.folder, EffectiveManifest(x, x.offer.folder))})

\* consume_announcement().
LEMMA AnswerIs ==
  ASSUME NEW x, Base(x), x.round \in {1, 2}, x.offer.man \in MaybeMan, x.me = "I" => Own(x) \subseteq DOMAIN x.peerf
  PROVE  Replies(x, ConsumeAnnouncement(x))
<1> DEFINE y == Noted(x)
           z == [y EXCEPT !.pc = "offer"]
           out == Announce(x, x.offer.folder)
           d == Does(z, out)
<1>1. ConsumeAnnouncement(x) = d
  BY DEF ConsumeAnnouncement
<1>2. /\ Base(y) /\ y.me = x.me /\ y.after = x.after /\ y.round = x.round
      /\ y.peerf = Note(x.peerf, x.offer) /\ DOMAIN y.peerf = DOMAIN x.peerf \cup {x.offer.folder}
  BY NotedIs
<1>3. Carries(out, {Offering(x.offer.folder, EffectiveManifest(x, x.offer.folder))})
  BY Announced DEF Base, Typed
<1> HIDE DEF y, out
<1>4. /\ IsEnd(z) /\ z.me = y.me /\ z.after = y.after /\ z.peerf = y.peerf /\ z.todo = y.todo /\ z.round = y.round
      /\ z.want = y.want /\ z.left = y.left /\ z.tries = y.tries /\ z.put = y.put /\ z.pc = "offer"
  BY <1>2 DEF Base, Typed, IsEnd, Local
<1>5. IsDeed(d) /\ d.x = z /\ d.out = out /\ d.agree = <<>>
  BY DEF Does, IsDeed
<1> HIDE DEF z, d
<1>6. Base(z)
  BY <1>2, <1>4, BaseOn DEF Base, Typed
<1>7. Listed(z) /\ Spot(z) /\ Pulls(z, store[x.me])
  BY <1>2, <1>4 DEF Listed, Spot, Pulls, Awaits, Adverts, Stage, Exchange, Own
<1>8. Sound(x, d) /\ Recorded(d)
  BY <1>2, <1>4, <1>5, <1>6, <1>7 DEF Sound, Recorded
<1> QED BY <1>1, <1>2, <1>3, <1>4, <1>5, <1>8 DEF Replies

\* consume_echo().
LEMMA EchoIs ==
  ASSUME NEW x, Base(x), x.round \in {1, 2}, x.offer.man \in MaybeMan,
         Own(x) \subseteq DOMAIN x.peerf \cup x.todo \cup {x.offer.folder}
  PROVE  LET y == Noted(x)
         IN  Proceeds(y, ConsumeEcho(x)) /\ y.me = x.me /\ y.after = x.after /\ y.round = x.round /\ y.peerf = Note(x.peerf, x.offer)
<1> DEFINE y == Noted(x)
<1>1. /\ Base(y) /\ y.me = x.me /\ y.after = x.after /\ y.round = x.round /\ y.todo = x.todo
      /\ y.peerf = Note(x.peerf, x.offer) /\ DOMAIN y.peerf = DOMAIN x.peerf \cup {x.offer.folder}
  BY NotedIs
<1>2. ConsumeEcho(x) = OffersLeft(y)
  BY DEF ConsumeEcho
<1> HIDE DEF y
<1>3. Own(y) \subseteq DOMAIN y.peerf \cup y.todo
  BY <1>1 DEF Own
<1>4. Proceeds(y, OffersLeft(y))
  BY <1>1, <1>3, LeftIs
<1> QED BY <1>1, <1>2, <1>4 DEF y

-----------------------------------------------------------------------------
(* Every frame after the handshake is a turn.                               *)

\* An end that is through the handshake and in order.
Ready(x) == Base(x) /\ Spot(x) /\ Listed(x) /\ Pulls(x, store[x.me])

\* An offer is answered.
LEMMA AnswerFares ==
  ASSUME NEW x, NEW n, NEW d, NEW y, y.me = x.me, y.after = x.after, y.round = x.round, y.peerf = x.peerf,
         Consumes(x, n, y.offer), x.pc \in {"offer", "offer_advert"}, Replies(y, d)
  PROVE  Fares(x, n, d)
<1> DEFINE w == y.offer
           o == {Offering(w.folder, EffectiveManifest(x, w.folder))}
<1>1. EffectiveManifest(y, w.folder) = EffectiveManifest(x, w.folder)
  BY SameManifest
<1>2. Carries(d.out, o)
  BY <1>1 DEF Replies
<1>3. Answers(x, n, d.x, o)
  BY DEF Replies, Answers
<1> HIDE DEF o
<1> QED BY <1>2, <1>3 DEF Replies, Sound, Fares, Turn

\* It is this end's turn to announce.
LEMMA GoesFares ==
  ASSUME NEW x, NEW n, NEW d, NEW u, u.me = x.me, u.after = x.after, u.round = x.round, Goes(x, n, u.peerf),
         Proceeds(u, d)
  PROVE  Fares(x, n, d)
<1>1. PICK o : /\ Carries(d.out, o)
               /\ \/ d.x.round = u.round /\ d.x.peerf = u.peerf
                     /\ (Says(d.x, o) \/ (u.me = "I" /\ d.x.pc = "offer" /\ o = {Nothing}))
                  \/ u.me = "R" /\ o = {Nothing} /\ \E q : Over(u, d.x, u.peerf, q)
  BY DEF Proceeds
<1>2. d.x.me = x.me /\ d.x.after = x.after
  BY DEF Proceeds, Sound
<1>3. Turn(x, n, d.x, o)
  <2>1. CASE d.x.round = u.round /\ d.x.peerf = u.peerf
             /\ (Says(d.x, o) \/ (u.me = "I" /\ d.x.pc = "offer" /\ o = {Nothing}))
    <3>1. Announces(x, n, d.x, o)
      BY <1>2, <2>1 DEF Announces
    <3> QED BY <1>2, <3>1 DEF Turn
  <2>2. CASE u.me = "R" /\ o = {Nothing} /\ \E q : Over(u, d.x, u.peerf, q)
    <3>1. PICK q : Over(u, d.x, u.peerf, q)
      BY <2>2
    <3>2. Over(x, d.x, u.peerf, q)
      BY <3>1 DEF Over
    <3>3. Closes(x, n, d.x, o)
      BY <1>2, <2>2, <3>2 DEF Closes
    <3> QED BY <1>2, <3>3 DEF Turn
  <2> QED BY <1>1, <2>1, <2>2
<1> QED BY <1>1, <1>3 DEF Proceeds, Sound, Fares

\* The initiator has the responder's list.
LEMMA ClosesFares ==
  ASSUME NEW x, NEW n, NEW d, x.me = "I", x.pc = "offer", NEW w, n = {w}, w.folder = NoFolder, Concludes(x, d)
  PROVE  Fares(x, n, d)
<1>1. PICK q : Carries(d.out, q) /\ Over(x, d.x, x.peerf, q)
  BY DEF Concludes
<1>2. Closes(x, n, d.x, q)
  BY <1>1 DEF Closes, Concludes
<1> QED BY <1>1, <1>2 DEF Concludes, Sound, Fares, Turn

\* An offer in full, from either side.
LEMMA ConsumeFares ==
  ASSUME NEW x, Ready(x), NEW n, NEW y, Base(y), y.me = x.me, y.after = x.after, y.round = x.round,
         y.peerf = x.peerf, y.todo = x.todo, y.pc = x.pc,
         x.pc \in Exchange, Consumes(x, n, y.offer), y.offer.man \in MaybeMan, Awaits(x) => y.offer.folder = x.at
  PROVE  Fares(x, n, Consume(y))
<1>1. x.round \in {1, 2} /\ Own(y) = Own(x)
  BY DEF Ready, Spot, Own
<1>2. CASE Awaits(x)
  <2> DEFINE u == Noted(y)
             d == ConsumeEcho(y)
  <2>1. Consume(y) = d
    BY <1>2 DEF Consume, Awaits
  <2>2. Own(y) \subseteq DOMAIN y.peerf \cup y.todo \cup {y.offer.folder}
    BY <1>1, <1>2 DEF Ready, Listed
  <2>3. Proceeds(u, d) /\ u.me = y.me /\ u.after = y.after /\ u.round = y.round /\ u.peerf = Note(y.peerf, y.offer)
    BY <1>1, <2>2, EchoIs
  <2> HIDE DEF u, d
  <2>4. Goes(x, n, u.peerf)
    BY <1>2, <2>3 DEF Goes
  <2> QED BY <2>1, <2>3, <2>4, GoesFares
<1>3. CASE ~Awaits(x)
  <2> DEFINE d == ConsumeAnnouncement(y)
  <2>1. Consume(y) = d /\ x.pc \in {"offer", "offer_advert"}
    BY <1>3 DEF Consume, Awaits, Exchange
  <2>2. y.me = "I" => Own(y) \subseteq DOMAIN y.peerf
    BY <1>1, <2>1 DEF Ready, Listed
  <2>3. Replies(y, d)
    BY <1>1, <2>2, AnswerIs
  <2> HIDE DEF d
  <2> QED BY <2>1, <2>3, AnswerFares
<1> QED BY <1>2, <1>3

\* An offer arrives.
LEMMA OfferFares ==
  ASSUME NEW x, Ready(x), x.pc \in {"offer", "echo"}, NEW v, v.man \in MaybeMan, x.pc = "echo" => v.folder = x.at
  PROVE  Fares(x, {v}, OnOffer(x, v))
<1> DEFINE y == [x EXCEPT !.offer = v, !.rows = {}, !.count = 0]
           n == {v}
<1>0. Base(x) /\ Listed(x) /\ x.round \in {1, 2}
  BY DEF Ready, Spot
<1>1. CASE x.pc = "offer" /\ v.folder = NoFolder /\ x.me = "I"
  <2>1. OnOffer(x, v) = EndRound(x)
    BY <1>1 DEF OnOffer
  <2>2. Own(x) \subseteq DOMAIN x.peerf
    BY <1>0, <1>1 DEF Listed
  <2>3. Concludes(x, EndRound(x))
    BY <1>0, <2>2, EndIs
  <2> QED BY <1>1, <2>1, <2>3, ClosesFares
<1>2. CASE x.pc = "offer" /\ v.folder = NoFolder /\ x.me # "I"
  <2> DEFINE t == Unseen(x)
             u == [x EXCEPT !.todo = t]
  <2>1. OnOffer(x, v) = OffersLeft(u)
    BY <1>2 DEF OnOffer
  <2>2. t \subseteq Own(x) /\ Own(x) \subseteq DOMAIN x.peerf \cup t
    BY DEF Unseen, Own
  <2> HIDE DEF t
  <2>3. /\ IsEnd(u) /\ u.me = x.me /\ u.after = x.after /\ u.peerf = x.peerf /\ u.todo = t /\ u.round = x.round
        /\ u.want = x.want /\ u.left = x.left /\ u.tries = x.tries /\ u.put = x.put
    BY <1>0 DEF Base, Typed, IsEnd, Local
  <2> HIDE DEF u
  <2>4. Base(u) /\ Own(u) = Own(x)
    BY <1>0, <2>2, <2>3 DEF Base, Typed, Held, Own
  <2>5. Proceeds(u, OffersLeft(u))
    BY <1>0, <2>2, <2>3, <2>4, LeftIs
  <2>6. Goes(x, n, u.peerf)
    BY <1>0, <1>2, <2>3 DEF Goes, Base, Typed, End
  <2> QED BY <2>1, <2>3, <2>5, <2>6, GoesFares
<1>3. CASE ~(x.pc = "offer" /\ v.folder = NoFolder)
  <2>0. v.folder # NoFolder
    BY <1>0, <1>3, OwnAre DEF Listed, Awaits
  <2>1. /\ IsEnd(y) /\ y.me = x.me /\ y.after = x.after /\ y.peerf = x.peerf /\ y.todo = x.todo /\ y.round = x.round
        /\ y.want = x.want /\ y.left = x.left /\ y.tries = x.tries /\ y.put = x.put /\ y.offer = v /\ y.pc = x.pc
        /\ y.at = x.at
    BY <1>0 DEF Base, Typed, IsEnd, Local
  <2>2. CASE x.round = 1
    <3> DEFINE c == IF x.pc = "echo" THEN "echo_advert" ELSE "offer_advert"
               z == [y EXCEPT !.pc = c]
               d == Does(z, <<>>)
    <3>1. OnOffer(x, v) = d
      BY <1>3, <2>2 DEF OnOffer
    <3> HIDE DEF y, c
    <3>2. /\ IsEnd(z) /\ z.me = x.me /\ z.after = x.after /\ z.peerf = x.peerf /\ z.todo = x.todo /\ z.round = x.round
          /\ z.want = x.want /\ z.left = x.left /\ z.tries = x.tries /\ z.put = x.put /\ z.offer = v /\ z.pc = c
          /\ z.at = x.at
      BY <2>1 DEF IsEnd, Local
    <3>3. IsDeed(d) /\ d.x = z /\ d.out = <<>> /\ d.agree = <<>>
      BY DEF Does, IsDeed
    <3> HIDE DEF z, d
    <3>4. Base(z)
      BY <1>0, <3>2, BaseOn DEF Base, Typed
    <3>5. (c = "echo_advert" /\ x.pc = "echo") \/ (c = "offer_advert" /\ x.pc = "offer")
      BY DEF c
    <3>6. Listed(z)
      BY <1>0, <2>0, <3>2, <3>5 DEF Listed, Awaits, Adverts, Own
    <3>7. Spot(z) /\ Pulls(z, store[x.me])
      BY <1>0, <2>0, <2>2, <3>2, <3>5, OwnAre DEF Listed, Spot, Pulls, Awaits, Adverts, Exchange, Stage
    <3>8. Opens(x, n, z, {})
      BY <2>0, <2>2, <3>2, <3>5 DEF Opens
    <3>9. Sound(x, d) /\ Recorded(d)
      BY <3>2, <3>3, <3>4, <3>5, <3>6, <3>7 DEF Sound, Recorded
    <3> QED BY <3>1, <3>2, <3>3, <3>8, <3>9, CarriesNone DEF Fares, Turn
  <2>3. CASE x.round = 2
    <3>1. OnOffer(x, v) = Consume(y)
      BY <1>3, <2>3 DEF OnOffer
    <3> HIDE DEF y
    <3>2. Base(y)
      BY <1>0, <2>1, BaseOn DEF Base, Typed
    <3>3. Consumes(x, n, y.offer)
      BY <1>3, <2>0, <2>1, <2>3 DEF Consumes
    <3> HIDE DEF n
    <3>4. Fares(x, n, Consume(y))
      BY <2>1, <3>2, <3>3, ConsumeFares DEF Exchange, Awaits
    <3> QED BY <3>1, <3>4 DEF n
  <2> QED BY <1>0, <2>2, <2>3
<1> QED BY <1>1, <1>2, <1>3

\* An end writes what is no offer, and waits as before.
LEMMA SameFares ==
  ASSUME NEW x, Ready(x), x.pc # "done", NEW y, IsEnd(y), y.me = x.me, y.after = x.after, y.peerf = x.peerf,
         y.todo = x.todo, y.round = x.round, y.want = x.want, y.left = x.left, y.tries = x.tries, y.put = x.put,
         y.offer = x.offer, y.pc = x.pc, y.at = x.at, y.phase = x.phase, y.pulls = x.pulls, y.got = x.got,
         y.enq = x.enq, y.chunks = x.chunks, NEW out, Carries(out, {}), NEW n
  PROVE  Fares(x, n, Does(y, out)) /\ Ready(y)
<1> DEFINE d == Does(y, out)
<1>1. IsDeed(d) /\ d.x = y /\ d.out = out /\ d.agree = <<>>
  BY DEF Does, IsDeed
<1> HIDE DEF d
<1>2. Base(y)
  <2>1. y.todo \subseteq Own(x) /\ y.left \subseteq x.left
    BY DEF Ready, Base, Typed
  <2> QED BY <2>1, BaseOn DEF Ready
<1>3. Listed(y)
  BY DEF Ready, Listed, Awaits, Adverts, Own
<1>4. Spot(y)
  BY DEF Ready, Spot, Awaits, Adverts
<1>5. Pulls(y, store[x.me])
  BY GoingOn DEF Ready, Pulls
<1>6. Quiet(x, y, {})
  BY DEF Quiet
<1>7. Ready(y) /\ Sound(x, d)
  BY <1>1, <1>2, <1>3, <1>4, <1>5 DEF Ready, Sound
<1>8. Recorded(d) \/ (x.pc = "bye" /\ d.agree = <<>>)
  BY <1>1 DEF Recorded
<1> QED BY <1>1, <1>6, <1>7, <1>8 DEF Fares, Turn, d

\* Adverts arrive.
LEMMA AdvertFares ==
  ASSUME NEW x, Ready(x), Adverts(x), NEW v
  PROVE  Fares(x, {}, OnAdvert(x, v))
<1> DEFINE r == x.rows \cup v.rows
           k == x.count + Cardinality(v.rows)
           y == [x EXCEPT !.rows = r, !.count = k]
<1>1. OnAdvert(x, v) \in {Abort(x, "limit"), Does(y, <<>>), Consume(y)}
  BY DEF OnAdvert
<1>2. Base(x) /\ Spot(x) /\ Listed(x) /\ x.round = 1 /\ x.pc \in Exchange /\ x.pc # "done"
  BY DEF Ready, Spot, Adverts, Exchange
<1> HIDE DEF r, k
<1>3. /\ IsEnd(y) /\ y.me = x.me /\ y.after = x.after /\ y.peerf = x.peerf /\ y.todo = x.todo /\ y.round = x.round
      /\ y.want = x.want /\ y.left = x.left /\ y.tries = x.tries /\ y.put = x.put /\ y.offer = x.offer /\ y.pc = x.pc
      /\ y.at = x.at /\ y.phase = x.phase /\ y.pulls = x.pulls /\ y.got = x.got /\ y.enq = x.enq /\ y.chunks = x.chunks
  BY <1>2 DEF Base, Typed, IsEnd, Local
<1> HIDE DEF y
<1>4. Fares(x, {}, Abort(x, "limit"))
  BY <1>2, DeadIs, DeadFares
<1>5. Fares(x, {}, Does(y, <<>>)) /\ Ready(y)
  BY <1>2, <1>3, SameFares, CarriesNone
<1>6. Fares(x, {}, Consume(y))
  <2>1. Base(y) /\ Consumes(x, {}, y.offer) /\ y.offer.man \in MaybeMan
    BY <1>2, <1>3, <1>5 DEF Consumes, Listed, Ready
  <2>2. Awaits(x) => y.offer.folder = x.at
    BY <1>2, <1>3 DEF Listed, Awaits, Adverts
  <2> QED BY <1>2, <1>3, <2>1, <2>2, ConsumeFares
<1> QED BY <1>1, <1>4, <1>5, <1>6

\* A request arrives.
LEMMA RequestFares ==
  ASSUME NEW x, Ready(x), x.pc = "serve", NEW f
  PROVE  Fares(x, {}, OnRequest(x, f))
<1>1. Base(x) /\ Spot(x) /\ x.round = 1 /\ x.pc \in Stage
  BY DEF Ready, Spot, Stage
<1>2. Fares(x, {}, Served(x))
  BY <1>1, PhasesAre, OutcomeFares DEF Outcome
<1>3. Fares(x, {}, Abort(x, "unknown_folder"))
  BY <1>1, DeadIs, DeadFares
<1>4. ASSUME Knows(x, f.v.folder), NEW out, out \in {ServeItems(x, f.v.folder, f.v.items), ServePacks(x, f.v.folder, f.v.packs)}
      PROVE  Fares(x, {}, Does(x, out))
  <2>1. f.v.folder \in Folder
    BY <1>1, <1>4, OwnAre DEF Knows, Own
  <2>2. cfg \in Cases /\ x.me \in End /\ store[x.me] \in [Folder -> SUBSET Blob] /\ IsEnd(x)
    BY <1>1 DEF Base, Typed
  <2>3. Carries(out, {})
    BY <1>4, <2>1, <2>2, ItemsServed, PacksServed
  <2> QED BY <2>2, <2>3, SameFares
<1>5. \/ OnRequest(x, f) \in {Served(x), Abort(x, "unknown_folder")}
      \/ Knows(x, f.v.folder) /\ OnRequest(x, f) \in {Does(x, ServeItems(x, f.v.folder, f.v.items)),
                                                        Does(x, ServePacks(x, f.v.folder, f.v.packs))}
  BY DEF OnRequest
<1> QED BY <1>2, <1>3, <1>4, <1>5

\* A goodbye arrives.
LEMMA ByeFares ==
  ASSUME NEW x, Ready(x), x.pc = "bye", NEW f
  PROVE  Fares(x, {}, OnBye(x, f))
<1> DEFINE z == [x EXCEPT !.pc = "done"]
           out == IF x.me = "R" THEN <<Bye("normal")>> ELSE <<>>
           d == Does(z, out)
<1>0. Base(x) /\ Spot(x) /\ Listed(x)
  BY DEF Ready
<1>1. OnBye(x, f) \in {Fails(x, "bye"), d}
  BY DEF OnBye
<1>2. Fares(x, {}, Fails(x, "bye"))
  BY <1>0, DeadIs, DeadFares
<1>3. Carries(out, {})
  BY CarriesNone, CarriesFrame DEF Bye
<1> HIDE DEF out
<1>4. /\ IsEnd(z) /\ z.me = x.me /\ z.after = x.after /\ z.peerf = x.peerf /\ z.todo = x.todo /\ z.round = x.round
      /\ z.want = x.want /\ z.left = x.left /\ z.tries = x.tries /\ z.put = x.put /\ z.pc = "done"
  BY <1>0 DEF Base, Typed, IsEnd, Local
<1>5. IsDeed(d) /\ d.x = z /\ d.out = out /\ d.agree = <<>>
  BY DEF Does, IsDeed
<1> HIDE DEF z, d
<1>6. Base(z)
  BY <1>0, <1>4, BaseOn DEF Base, Typed
<1>7. Listed(z) /\ Spot(z) /\ Pulls(z, store[x.me])
  BY <1>0, <1>4 DEF Listed, Spot, Pulls, Awaits, Adverts, Stage, Own
<1>8. Quiet(x, z, {})
  BY <1>4 DEF Quiet
<1>9. Fares(x, {}, d)
  BY <1>3, <1>4, <1>5, <1>6, <1>7, <1>8 DEF Fares, Sound, Turn
<1> QED BY <1>1, <1>2, <1>9

\* What comes of a frame: a turn, or blobs to store.
Comes(x, n, d) == Fares(x, n, d) \/ (x.pc \in {"batch", "packs"} /\ Reading(x, d))

\* Blobs arrive, one by one or in packs.
LEMMA BlobsCome ==
  ASSUME NEW x, Ready(x), NEW f, GoodFrame(f), f.type \in Expected(x), f.type # "offer"
  PROVE  /\ x.pc = "batch" => Comes(x, {}, IF f.v = {} THEN FetchBlobs(x) ELSE Does(ReadItems(x, f.v), <<>>))
         /\ x.pc = "packs" => Comes(x, {}, OnPacks(x, f))
<1>0. Base(x) /\ Spot(x)
  BY DEF Ready
<1>1. CASE x.pc = "batch"
  <2>1. Going(x, store[x.me]) /\ x.phase # "packs" /\ x.round = 1 /\ x.pc \in Stage /\ f.type = "item_batch"
    BY <1>1 DEF Ready, Pulls, Spot, Stage, Expected
  <2>2. Fares(x, {}, FetchBlobs(x))
    BY <1>0, <2>1, BlobsAre, OutcomeFares
  <2>3. Reading(x, Does(ReadItems(x, f.v), <<>>))
    BY <1>0, <2>1, ItemsAre DEF GoodFrame
  <2> QED BY <1>1, <2>2, <2>3 DEF Comes
<1>2. CASE x.pc = "packs"
  <2> DEFINE want == x.want \ x.got
  <2>1. Going(x, store[x.me]) /\ x.phase = "packs" /\ x.round = 1 /\ x.pc \in Stage
    BY <1>2 DEF Ready, Pulls, Spot, Stage
  <2>2. Pulling(x) /\ Chunked(x, store[x.me][x.at], want)
    BY <1>0, <2>1 DEF Going, Gets, Pulling, Chunked, Base, Typed
  <2>3. Fares(x, {}, FetchChunks(x, want))
    BY <1>0, <2>1, <2>2, ChunksAre, OutcomeFares
  <2>4. Fares(x, {}, Abort(x, "violation"))
    BY <1>0, DeadIs, DeadFares
  <2>5. f.type = "pack_item" => Reading(x, Does(ReadPack(x, f.v), <<>>))
    BY <1>0, <2>1, PackIs DEF GoodFrame
  <2>6. \/ f.type = "pack_item" /\ OnPacks(x, f) = Does(ReadPack(x, f.v), <<>>)
        \/ OnPacks(x, f) \in {FetchChunks(x, want), Abort(x, "violation")}
    BY DEF OnPacks
  <2> HIDE DEF want
  <2> QED BY <1>2, <2>3, <2>4, <2>5, <2>6 DEF Comes
<1> QED BY <1>1, <1>2

\* The offers a frame carries.
Offers(f) == IF f.type = "offer" THEN {f.v} ELSE {}

\* Every frame.
LEMMA HandleComes ==
  ASSUME NEW x, Ready(x), x.pc \notin {"done", "failed"}, NEW f, GoodFrame(f),
         x.pc = "echo" /\ f.type = "offer" => f.v.folder = x.at
  PROVE  Comes(x, Offers(f), Handle(x, f))
<1>0. Base(x) /\ Spot(x) /\ IsEnd(x)
  BY DEF Ready, Base, Typed
<1>1. \A err : Fares(x, Offers(f), Abort(x, err))
  BY <1>0, DeadIs, DeadFares
<1>2. Fares(x, Offers(f), Does(x, <<>>))
  BY <1>0, SameFares, CarriesNone
<1>3. CASE \/ \E err : Handle(x, f) = Abort(x, err)
           \/ Handle(x, f) = Does(x, <<>>)
  BY <1>1, <1>2, <1>3 DEF Comes
<1>4. CASE f.type \in Expected(x) /\ f.type = "offer" /\ Handle(x, f) = OnOffer(x, f.v)
  <2>1. x.pc \in {"offer", "echo"}
    BY <1>0, <1>4 DEF Expected, Spot, Exchange, Stage
  <2>2. Fares(x, {f.v}, OnOffer(x, f.v))
    BY <1>4, <2>1, OfferFares DEF GoodFrame
  <2> QED BY <1>4, <2>2 DEF Comes, Offers
<1>5. CASE f.type \in Expected(x) /\ f.type = "advert" /\ Handle(x, f) = OnAdvert(x, f.v)
  <2>1. Adverts(x)
    BY <1>0, <1>5 DEF Expected, Spot, Exchange, Stage, Adverts
  <2> QED BY <1>5, <2>1, AdvertFares DEF Comes, Offers
<1>6. CASE f.type \in Expected(x) /\ f.type = "bye" /\ Handle(x, f) = OnBye(x, f)
  <2>1. x.pc = "bye"
    BY <1>0, <1>6 DEF Expected, Spot, Exchange, Stage
  <2> QED BY <1>6, <2>1, ByeFares DEF Comes, Offers
<1>7. CASE f.type \in Expected(x) /\ x.pc = "serve" /\ Handle(x, f) = OnRequest(x, f)
  <2>1. f.type # "offer"
    BY <1>7 DEF Expected
  <2> QED BY <1>7, <2>1, RequestFares DEF Comes, Offers
<1>8. CASE f.type \in Expected(x) /\ x.pc = "batch"
           /\ Handle(x, f) = IF f.v = {} THEN FetchBlobs(x) ELSE Does(ReadItems(x, f.v), <<>>)
  <2>1. f.type # "offer"
    BY <1>8 DEF Expected
  <2> QED BY <1>8, <2>1, BlobsCome DEF Offers
<1>9. CASE f.type \in Expected(x) /\ x.pc = "packs" /\ Handle(x, f) = OnPacks(x, f)
  <2>1. f.type # "offer"
    BY <1>9 DEF Expected
  <2> QED BY <1>9, <2>1, BlobsCome DEF Offers
<1>10. f.type \in Expected(x) => f.type \in {"offer", "advert", "bye"} \/ x.pc \in {"serve", "batch", "packs"}
  BY <1>0 DEF Expected, Spot, Exchange, Stage
<1>11. \/ \E err : Handle(x, f) = Abort(x, err)
       \/ Handle(x, f) = Does(x, <<>>)
       \/ /\ f.type \in Expected(x)
          /\ \/ f.type = "offer" /\ Handle(x, f) = OnOffer(x, f.v)
             \/ f.type = "advert" /\ Handle(x, f) = OnAdvert(x, f.v)
             \/ f.type = "bye" /\ Handle(x, f) = OnBye(x, f)
             \/ x.pc = "serve" /\ Handle(x, f) = OnRequest(x, f)
             \/ x.pc = "batch" /\ Handle(x, f) = IF f.v = {} THEN FetchBlobs(x) ELSE Does(ReadItems(x, f.v), <<>>)
             \/ x.pc = "packs" /\ Handle(x, f) = OnPacks(x, f)
  BY <1>10 DEF Handle
<1> QED BY <1>3, <1>4, <1>5, <1>6, <1>7, <1>8, <1>9, <1>11

-----------------------------------------------------------------------------
(* The handshake.                                                           *)

\* A deed that is a turn, before or after the handshake.
Steps(x, n, d) ==
  /\ IsDeed(d) /\ Base(d.x) /\ d.x.me = x.me
  /\ Listed(d.x) /\ Placed(d.x) /\ Pulls(d.x, store[x.me])
  /\ Recorded(d) \/ (x.pc = "bye" /\ d.agree = <<>>)
  /\ \E o : Carries(d.out, o) /\ Turn(x, n, d.x, o)

\* An end in the handshake.
Shakes(x) == Base(x) /\ Placed(x) /\ x.pc \in Shake

\* It fails.
LEMMA ShakeFails ==
  ASSUME NEW x, Shakes(x), NEW n, NEW err
  PROVE  Steps(x, n, Fails(x, err)) /\ Steps(x, n, Abort(x, err))
<1>1. ASSUME NEW d, Dead(x, d), d.x.keys = x.keys PROVE Steps(x, n, d)
  <2>1. Listed(d.x) /\ Pulls(d.x, store[x.me]) /\ Recorded(d)
    BY <1>1 DEF Dead, Listed, Awaits, Adverts, Pulls, Recorded
  <2>2. Placed(d.x)
    BY <1>1 DEF Shakes, Dead, Placed, Shake, Awaits, Adverts, Stage
  <2>3. Quiet(x, d.x, {})
    BY <1>1 DEF Dead, Quiet
  <2> QED BY <1>1, <2>1, <2>2, <2>3 DEF Dead, Steps, Turn
<1>2. Dead(x, Fails(x, err)) /\ Dead(x, Abort(x, err))
  BY DeadIs DEF Shakes
<1>3. Fails(x, err).x.keys = x.keys /\ Abort(x, err).x.keys = x.keys
  BY FailKeeps DEF Shakes, Base, Typed, Keeps, Same
<1> QED BY <1>1, <1>2, <1>3

\* It goes on to the next frame.
LEMMA ShakeGoes ==
  ASSUME NEW x, Shakes(x), NEW z, IsEnd(z), z.me = x.me, z.after = x.after, z.peerf = x.peerf, z.todo = x.todo,
         z.round = x.round, z.want = x.want, z.left = x.left, z.tries = x.tries, z.put = x.put, z.keys = x.keys,
         z.pc \in Shake, NEW out, Carries(out, {}), NEW n
  PROVE  Steps(x, n, Does(z, out))
<1> DEFINE d == Does(z, out)
<1>1. IsDeed(d) /\ d.x = z /\ d.out = out /\ d.agree = <<>>
  BY DEF Does, IsDeed
<1> HIDE DEF d
<1>2. Base(z)
  <2>1. z.todo \subseteq Own(x) /\ z.left \subseteq x.left
    BY DEF Shakes, Base, Typed
  <2> QED BY <2>1, BaseOn DEF Shakes
<1>3. Listed(z) /\ Pulls(z, store[x.me]) /\ Recorded(d)
  BY <1>1 DEF Listed, Awaits, Adverts, Pulls, Recorded, Shake
<1>4. Placed(z)
  BY DEF Shakes, Placed, Shake, Awaits, Adverts, Stage
<1>5. Quiet(x, z, {})
  BY DEF Shakes, Quiet
<1> QED BY <1>1, <1>2, <1>3, <1>4, <1>5 DEF Steps, Turn, d

\* It is through: the first round begins.
LEMMA ShakeEnds ==
  ASSUME NEW x, Shakes(x), NEW auths, NEW p, Carries(p, {})
  PROVE  LET d == StartRound(Established(x, auths), 1)
         IN  Steps(x, {}, d) /\ Steps(x, {}, [d EXCEPT !.out = p \o @])
<1> DEFINE k == TrafficKeys(x.me, x.hellos, auths)
           z == Established(x, auths)
           d == StartRound(z, 1)
           b == [d EXCEPT !.out = p \o @]
<1>0. k # <<>> /\ Base(x) /\ IsEnd(x)
  BY KeysAre DEF Shakes, Base, Typed
<1>1. /\ IsEnd(z) /\ z.me = x.me /\ z.after = x.after /\ z.peerf = x.peerf /\ z.todo = x.todo /\ z.round = x.round
      /\ z.want = x.want /\ z.left = x.left /\ z.tries = x.tries /\ z.put = x.put /\ z.keys = k
  <2> HIDE DEF k
  <2>1. z = [x EXCEPT !.keys = k, !.sealing = cfg.encryption[x.me]]
    BY DEF Established, k
  <2> QED BY <1>0, <2>1 DEF IsEnd, Local
<1> HIDE DEF z, k
<1>2. Base(z)
  BY <1>0, <1>1, BaseOn DEF Base, Typed
<1>3. NewRound(z, d, 1) /\ d.x.after = z.after
  BY <1>2, RoundIs
<1>4. d.x.keys = z.keys /\ IsDeed(d)
  BY <1>1, RoundKeeps DEF Keeps, Same
<1> HIDE DEF d
<1>5. NewRound(z, b, 1) /\ b.x = d.x
  BY <1>3, <1>4, StagedAfter
<1> HIDE DEF b
<1>6. ASSUME NEW g, NewRound(z, g, 1), g.x.after = x.after, g.x.keys # <<>> PROVE Steps(x, {}, g)
  <2>1. PICK o : Carries(g.out, o) /\ Begins(g.x, o)
    BY <1>6 DEF NewRound
  <2>2. g.x.pc = "offer" \/ (g.x.pc = "echo" /\ g.x.at # NoFolder)
    BY <1>6, <2>1 DEF NewRound, Begins, Says, Base, Typed, End
  <2>3. Placed(g.x) /\ Pulls(g.x, store[x.me])
    BY <1>6, <2>2 DEF NewRound, Placed, Pulls, Awaits, Adverts, Stage, Exchange, Shake
  <2>4. Enters(x, {}, g.x, o)
    BY <1>6, <2>1 DEF NewRound, Enters, Shakes
  <2> QED BY <1>1, <1>6, <2>1, <2>2, <2>3, <2>4 DEF NewRound, Steps, Turn, Recorded
<1> QED BY <1>0, <1>1, <1>3, <1>4, <1>5, <1>6 DEF b, d, z

\* Every frame of the handshake.
LEMMA HandshakeSteps ==
  ASSUME NEW x, Shakes(x), NEW f
  PROVE  Steps(x, Offers(f), Handshake(x, f))
<1> DEFINE n == Offers(f)
<1>0. Base(x) /\ IsEnd(x) /\ x.pc \in {"hello", "ack", "auth", "confirm"}
  BY DEF Shakes, Base, Typed, Shake
<1>1. \A err : Steps(x, n, Fails(x, err)) /\ Steps(x, n, Abort(x, err))
  BY ShakeFails
<1> HIDE DEF n
<1>2. Steps(x, n, OnHello(x, f))
  <2> DEFINE v == Negotiate(cfg.version[x.me], f.v.version)
             ack == HelloAck(x.me, v)
             h == <<f, ack>>
             z == [x EXCEPT !.pc = "auth", !.version = v, !.peerMax = f.v.version, !.peerFlags = f.v.flags, !.hellos = h]
  <2>1. (\E err : OnHello(x, f) = Abort(x, err)) \/ OnHello(x, f) = Does(z, <<ack>>)
    BY Zenon DEF OnHello
  <2>2. Carries(<<ack>>, {})
    <3>1. IsFrame(Hello(x.me)) /\ Hello(x.me).v = [k \in DOMAIN Hello(x.me).v |-> Hello(x.me).v[k]]
      BY FramesAre DEF Hello
    <3>2. GoodFrame(ack) /\ ack.type = "hello_ack"
      BY <3>1 DEF HelloAck, GoodFrame, IsFrame
    <3> HIDE DEF ack
    <3>3. Carries(<<ack>>, IF ack.type = "offer" THEN {ack.v} ELSE {})
      BY <3>2, CarriesOne
    <3> QED BY <3>2, <3>3
  <2> HIDE DEF v, ack, h
  <2>3. /\ IsEnd(z) /\ z.me = x.me /\ z.after = x.after /\ z.peerf = x.peerf /\ z.todo = x.todo /\ z.round = x.round
        /\ z.want = x.want /\ z.left = x.left /\ z.tries = x.tries /\ z.put = x.put /\ z.keys = x.keys /\ z.pc = "auth"
    BY <1>0 DEF IsEnd, Local
  <2> HIDE DEF z
  <2>4. Steps(x, n, Does(z, <<ack>>))
    BY <2>2, <2>3, ShakeGoes DEF Shake
  <2> QED BY <1>1, <2>1, <2>4
<1>3. Steps(x, n, OnHelloAck(x, f))
  <2> DEFINE h == <<Hello(x.me), f>>
             proof == SealAuth(x.me, "i2r", h)
             init == AuthProof("auth_init", f.v.agreed, proof)
             z == [x EXCEPT !.pc = "confirm", !.version = f.v.agreed, !.peerMax = f.v.version,
                            !.peerFlags = f.v.flags, !.hellos = h, !.auth = init]
  <2>1. (\E err : OnHelloAck(x, f) = Abort(x, err)) \/ OnHelloAck(x, f) = Does(z, <<init>>)
    BY Zenon DEF OnHelloAck
  <2>2. Carries(<<init>>, {})
    <3> HIDE DEF proof
    <3> QED BY CarriesFrame DEF AuthProof
  <2> HIDE DEF h, init
  <2>3. /\ IsEnd(z) /\ z.me = x.me /\ z.after = x.after /\ z.peerf = x.peerf /\ z.todo = x.todo /\ z.round = x.round
        /\ z.want = x.want /\ z.left = x.left /\ z.tries = x.tries /\ z.put = x.put /\ z.keys = x.keys /\ z.pc = "confirm"
    BY <1>0 DEF IsEnd, Local
  <2> HIDE DEF z
  <2>4. Steps(x, n, Does(z, <<init>>))
    BY <2>2, <2>3, ShakeGoes DEF Shake
  <2> QED BY <1>1, <2>1, <2>4
<1>4. Steps(x, n, OnAuthInit(x, f))
  <2> DEFINE proof == SealAuth(x.me, "r2i", x.hellos)
             confirm == AuthProof("auth_confirm", x.version, proof)
             p == <<confirm>>
             auths == <<f, confirm>>
             next == StartRound(Established(x, auths), 1)
  <2>1. \/ \E err : OnAuthInit(x, f) = Abort(x, err)
        \/ f.type = "auth_init" /\ OnAuthInit(x, f) = [next EXCEPT !.out = p \o @]
    BY Zenon DEF OnAuthInit
  <2>2. Carries(p, {})
    <3> HIDE DEF proof
    <3> QED BY CarriesFrame DEF AuthProof
  <2> HIDE DEF p, auths
  <2>3. Steps(x, {}, [next EXCEPT !.out = p \o @])
    BY <2>2, ShakeEnds
  <2> QED BY <1>1, <2>1, <2>3 DEF n, Offers
<1>5. Steps(x, n, OnAuthConfirm(x, f))
  <2> DEFINE auths == <<x.auth, f>>
             next == StartRound(Established(x, auths), 1)
  <2>1. \/ \E err : OnAuthConfirm(x, f) = Abort(x, err)
        \/ f.type = "auth_confirm" /\ OnAuthConfirm(x, f) = next
    BY Zenon DEF OnAuthConfirm
  <2> HIDE DEF auths
  <2>2. Steps(x, {}, next)
    BY CarriesNone, ShakeEnds
  <2> QED BY <1>1, <2>1, <2>2 DEF n, Offers
<1>6. Handshake(x, f) \in {Fails(x, "bye"), OnHello(x, f), OnHelloAck(x, f), OnAuthInit(x, f), OnAuthConfirm(x, f)}
  BY <1>0 DEF Handshake
<1> QED BY <1>1, <1>2, <1>3, <1>4, <1>5, <1>6 DEF n

-----------------------------------------------------------------------------
(* The exchange as a whole.                                                 *)

\* What an end has recorded: nothing before the end, then what both have alike.
Agrees(x, a) ==
  /\ a \in [Folder -> MaybeMan]
  /\ x.pc \notin {"bye", "done", "failed"} => \A f \in Folder : a[f] = NoManifest
  /\ \A f \in Folder : a[f] # NoManifest => x.round = 2 /\ f \in Agreeing(x) /\ a[f] = x.after[f]
  /\ x.pc \in {"bye", "done"} => \A f \in Agreeing(x) : a[f] = x.after[f]

\* An end with its store st and its ledger a.
Fine(x, st, a) ==
  /\ cfg \in Cases /\ st \in [Folder -> SUBSET Blob] /\ Typed(x) /\ Held(x, st)
  /\ Placed(x) /\ Listed(x) /\ Pulls(x, st) /\ Agrees(x, a)

\* Both ends are fine, and with the offers on their way to them they are a pair.
Exchanged ==
  /\ store = [e \in End |-> store[e]] /\ agreed = [e \in End |-> agreed[e]]
  /\ broken \in BOOLEAN /\ faults \in 0 .. MaxFaults
  /\ \A e \in End : Fine(s[e], store[e], agreed[e])
  /\ \E a, b : Carries(chan["I"], a) /\ Carries(chan["R"], b) /\ Pair(s["I"], s["R"], a, b)

\* The configuration does not change.
LEMMA FineOn ==
  ASSUME UNCHANGED cfg, NEW e, NEW x, NEW st, NEW a, Fine(x, st, a), s'[e] = x, store'[e] = st, agreed'[e] = a
  PROVE  Fine(s[e], store[e], agreed[e])'
<1>1. cfg' \in Cases /\ st \in [Folder -> SUBSET Blob] /\ Placed(x)
  BY DEF Fine
<1>2. Typed(s[e])'
  BY DEF Fine, Typed, Own
<1>3. Held(s[e], store[e])'
  BY DEF Fine, Held
<1>4. Listed(s[e])'
  BY DEF Fine, Listed, Own
<1>5. Pulls(s[e], store[e])'
  BY DEF Fine, Pulls, Going, Wanted, Own, Target, Gets, Below
<1>6. Agrees(s[e], agreed[e])'
  BY DEF Fine, Agrees, Agreeing, Own
<1> QED BY <1>1, <1>2, <1>3, <1>4, <1>5, <1>6 DEF Fine

\* Nor does what the ends are to each other.
LEMMA PairOn ==
  ASSUME UNCHANGED cfg, NEW x, NEW y, NEW a, NEW b, Pair(x, y, a, b), s'["I"] = x, s'["R"] = y
  PROVE  Pair(s["I"], s["R"], a, b)'
<1>1. OneOffer(s["I"], s["R"], a, b)' /\ Places(s["I"], s["R"], a, b)'
      /\ Echoes(s["I"], s["R"], a, b)' /\ Echoes(s["R"], s["I"], b, a)'
  BY DEF Pair
<1>2. Current(s["I"], s["R"], a)' /\ Current(s["R"], s["I"], b)'
  BY DEF Pair, Current, EffectiveManifest, Knows
<1>3. Known(s["I"], s["R"])' /\ Known(s["R"], s["I"])'
  BY DEF Pair, Known, EffectiveManifest, Knows
<1> QED BY <1>1, <1>2, <1>3 DEF Pair

\* What is recorded is what both have alike.
LEMMA AgreesAfter ==
  ASSUME NEW x, NEW n, NEW d, Steps(x, n, d), NEW a, Agrees(x, a), x.pc \notin {"done", "failed"},
         NEW b, b = [f \in Folder |-> IF f \in DOMAIN d.agree THEN d.agree[f] ELSE a[f]]
  PROVE  Agrees(d.x, b)
<1> DEFINE z == d.x
<1>0. Base(z) /\ Placed(z) /\ z.me = x.me /\ a \in [Folder -> MaybeMan]
  BY DEF Steps, Agrees
<1>1. /\ Agreeing(z) \subseteq Folder /\ z.after \in [Folder -> MaybeMan]
  BY <1>0, OwnAre DEF Agreeing, Base, Typed
<1>2. \/ d.agree = <<>> /\ (z.pc \notin {"bye", "done"} \/ x.pc = "bye")
      \/ z.pc = "bye" /\ d.agree = [f \in Agreeing(z) |-> z.after[f]]
  BY DEF Steps, Recorded
<1>3. b \in [Folder -> MaybeMan]
  BY <1>0, <1>1, <1>2
<1>4. x.pc = "bye" => /\ z.pc \in {"bye", "done", "failed"} /\ z.round = x.round
                      /\ z.after = x.after /\ z.peerf = x.peerf /\ Agreeing(z) = Agreeing(x)
  <2>1. PICK o : Turn(x, n, z, o)
    BY DEF Steps
  <2>2. x.pc = "bye" => Quiet(x, z, o)
    BY <2>1 DEF Turn, Opens, Answers, Announces, Closes, Enters, Goes, Consumes, Awaits, Adverts, Stage, Shake
  <2> QED BY <1>0, <2>2 DEF Quiet, Agreeing, Own, Stage, Shake
<1>5. x.pc # "bye" => \A f \in Folder : a[f] = NoManifest
  BY DEF Agrees
<1>6. z.pc = "bye" => z.round = 2
  BY <1>0 DEF Placed
<1> HIDE DEF z
<1>7. CASE d.agree = <<>> /\ (z.pc \notin {"bye", "done"} \/ x.pc = "bye")
  <2>1. b = a
    BY <1>0, <1>7
  <2> QED BY <1>3, <1>4, <1>5, <1>7, <2>1 DEF Agrees, z
<1>8. CASE z.pc = "bye" /\ d.agree = [f \in Agreeing(z) |-> z.after[f]]
  <2>1. \A f \in Folder : b[f] = IF f \in Agreeing(z) THEN z.after[f] ELSE a[f]
    BY <1>8
  <2>2. \A f \in Folder : f \notin Agreeing(z) => a[f] = NoManifest
    BY <1>4, <1>5 DEF Agrees
  <2> QED BY <1>1, <1>3, <1>6, <1>8, <2>1, <2>2 DEF Agrees, z
<1> QED BY <1>2, <1>7, <1>8

\* An end that differs in its counters only.
Alike(x, z) ==
  /\ IsEnd(z) /\ z.me = x.me /\ z.pc = x.pc /\ z.round = x.round /\ z.keys = x.keys /\ z.at = x.at /\ z.todo = x.todo
  /\ z.offer = x.offer /\ z.peerf = x.peerf /\ z.after = x.after /\ z.pulls = x.pulls /\ z.phase = x.phase
  /\ z.want = x.want /\ z.left = x.left /\ z.got = x.got /\ z.tries = x.tries /\ z.enq = x.enq
  /\ z.chunks = x.chunks /\ z.put = x.put

\* It is as fine as before.
LEMMA AlikeFine ==
  ASSUME NEW x, NEW z, Alike(x, z), NEW st, NEW a, Fine(x, st, a)
  PROVE  Fine(z, st, a) /\ Turn(x, {}, z, {})
<1>1. Own(z) = Own(x) /\ Agreeing(z) = Agreeing(x)
  BY DEF Alike, Own, Agreeing
<1>2. Typed(z) /\ Held(z, st)
  BY <1>1 DEF Fine, Alike, Typed, Held
<1>3. Placed(z)
  BY DEF Fine, Alike, Placed, Awaits, Adverts
<1>4. Listed(z)
  BY <1>1 DEF Fine, Alike, Listed, Awaits, Adverts
<1>5. Pulls(z, st)
  BY GoingOn DEF Fine, Alike, Pulls
<1>6. Agrees(z, a)
  BY <1>1 DEF Fine, Alike, Agrees
<1>7. Turn(x, {}, z, {})
  BY DEF Turn, Quiet, Alike
<1> QED BY <1>2, <1>3, <1>4, <1>5, <1>6, <1>7 DEF Fine

\* An end x and its peer y, a on its way to the end and b to the peer.
Both(e, x, y, a, b) == IF e = "I" THEN Pair(x, y, a, b) ELSE Pair(y, x, b, a)

\* A frame holds none of the offers on their way, or the one there is.
Takes(n, a) == n = {} \/ n = a

\* An end takes a turn.
LEMMA BothTurn ==
  ASSUME NEW e \in End, NEW x, NEW y, NEW z, NEW a, NEW b, NEW n, NEW o, Both(e, x, y, a, b),
         Placed(x), Placed(y), Placed(z), x.me = e, Takes(n, a), Turn(x, n, z, o),
         e = "R" /\ x.round = 0 => y.round = 0
  PROVE  Both(e, z, y, a \ n, b \cup o) /\ (o = {} \/ b = {})
<1>1. CASE e = "I"
  BY <1>1, InitTurns DEF Both, Takes
<1>2. CASE e = "R"
  BY <1>2, RespTurns DEF Both, Takes
<1> QED BY <1>1, <1>2 DEF End

\* Fewer offers.
LEMMA BothLess ==
  ASSUME NEW e, NEW x, NEW y, NEW a, NEW b, Both(e, x, y, a, b), NEW c \in SUBSET a, NEW d \in SUBSET b
  PROVE  Both(e, x, y, c, d)
BY PairLess DEF Both

\* The echo an end waits for is the one it gets.
LEMMA BothEchoes ==
  ASSUME NEW e, NEW x, NEW y, NEW a, NEW b, Both(e, x, y, a, b), x.pc = "echo", NEW v \in a
  PROVE  v.folder = x.at
BY DEF Both, Pair, Echoes

-----------------------------------------------------------------------------
(* Steps of the exchange.                                                   *)

\* What a deed changes.
LEMMA Effects ==
  ASSUME Ends, store = [a \in End |-> store[a]], agreed = [a \in End |-> agreed[a]], NEW e \in End, NEW d, NEW rest,
         IsDeed(d), IsEnd(d.x), Act(e, d, rest)
  PROVE  /\ \E t : s'[e] = [d.x EXCEPT !.tx = t, !.put = {}]
         /\ s'[Other(e)] = s[Other(e)] /\ store'[Other(e)] = store[Other(e)] /\ agreed'[Other(e)] = agreed[Other(e)]
         /\ store' = [a \in End |-> store'[a]] /\ agreed' = [a \in End |-> agreed'[a]]
         /\ store'[e] = IF d.x.put = {} THEN store[e] ELSE [store[e] EXCEPT ![d.x.at] = @ \cup d.x.put]
         /\ agreed'[e] = [f \in Folder |-> IF f \in DOMAIN d.agree THEN d.agree[f] ELSE agreed[e][f]]
         /\ chan'[e] = rest /\ Sent(d.x, d.out, chan[Other(e)], chan'[Other(e)])
<1> DEFINE t == d.x.tx + Sealed(d.out)
           z == [d.x EXCEPT !.tx = t, !.put = {}]
           st == [store[e] EXCEPT ![d.x.at] = @ \cup d.x.put]
           ag == [f \in Folder |-> IF f \in DOMAIN d.agree THEN d.agree[f] ELSE agreed[e][f]]
<1>1. Other(e) \in End /\ Other(e) # e
  BY DEF End, Other
<1>2. s' = [s EXCEPT ![e] = z]
  BY DEF Act
<1>3. s'[e] = z /\ s'[Other(e)] = s[Other(e)]
  <2> HIDE DEF z
  <2> QED BY <1>1, <1>2 DEF Ends
<1>4. agreed' = [agreed EXCEPT ![e] = ag]
  BY Zenon DEF Act
<1>5. agreed'[e] = ag /\ agreed'[Other(e)] = agreed[Other(e)] /\ agreed' = [a \in End |-> agreed'[a]]
  <2> HIDE DEF ag
  <2> QED BY <1>1, <1>4
<1>6. store' = IF d.x.put = {} THEN store ELSE [store EXCEPT ![e] = st]
  BY DEF Act
<1>7. store'[e] = (IF d.x.put = {} THEN store[e] ELSE st) /\ store'[Other(e)] = store[Other(e)]
      /\ store' = [a \in End |-> store'[a]]
  <2> HIDE DEF st
  <2> QED BY <1>1, <1>6
<1>8. chan'[e] = rest /\ Sent(d.x, d.out, chan[Other(e)], chan'[Other(e)])
  BY Acts DEF Sent
<1> QED BY <1>3, <1>5, <1>7, <1>8

\* Frames are on their way, or lost with the connection.
LEMMA CarriesSent ==
  ASSUME NEW x, NEW out, NEW q, NEW p, NEW b, NEW o, Carries(q, b), Carries(out, o), o = {} \/ b = {}, Sent(x, out, q, p)
  PROVE  Carries(p, b) \/ Carries(p, b \cup o)
<1>1. Carries(q \o SealFrames(x, out), b \cup o)
  BY CarriesSealed, CarriesCat
<1> QED BY <1>1 DEF Sent

\* The exchange after a step of one end.
LEMMA Settles ==
  ASSUME Exchanged, UNCHANGED cfg, broken' \in BOOLEAN, faults' \in 0 .. MaxFaults,
         NEW e \in End, NEW z, NEW a, NEW b, NEW c, s'[e] = z, Fine(z, store'[e], agreed'[e]),
         s'[Other(e)] = s[Other(e)], store'[Other(e)] = store[Other(e)], agreed'[Other(e)] = agreed[Other(e)],
         store' = [g \in End |-> store'[g]], agreed' = [g \in End |-> agreed'[g]],
         Carries(chan'[e], a), Carries(chan'[Other(e)], c), c \subseteq b, Both(e, z, s[Other(e)], a, b)
  PROVE  Exchanged'
<1>1. Both(e, z, s[Other(e)], a, c)
  BY BothLess
<1>2. Other(e) \in End /\ \A g \in End : g = e \/ g = Other(e)
  BY DEF End, Other
<1>3. Fine(s[e], store[e], agreed[e])'
  BY FineOn
<1>4. Fine(s[Other(e)], store[Other(e)], agreed[Other(e)])
  BY <1>2 DEF Exchanged
<1>5. Fine(s[Other(e)], store[Other(e)], agreed[Other(e)])'
  <2> DEFINE g == Other(e)
             u == s[g]
             v == store[g]
             w == agreed[g]
  <2>1. Fine(u, v, w) /\ s'[g] = u /\ store'[g] = v /\ agreed'[g] = w
    BY <1>4
  <2>2. Other(e)' = Other(e)
    BY DEF Other
  <2>3. e = "I" \/ e = "R"
    BY DEF End
  <2>4. CASE e = "I"
    <3>1. Fine(s["R"], store["R"], agreed["R"])'
      BY <2>1, <2>4, FineOn DEF Other
    <3> QED BY <2>4, <3>1 DEF Other
  <2>5. CASE e = "R"
    <3>1. Fine(s["I"], store["I"], agreed["I"])'
      BY <2>1, <2>5, FineOn DEF Other
    <3> QED BY <2>5, <3>1 DEF Other
  <2> QED BY <2>3, <2>4, <2>5
<1>6. \A g \in End : Fine(s[g], store[g], agreed[g])'
  BY <1>2, <1>3, <1>5
<1>7. \E m, k : Carries(chan'["I"], m) /\ Carries(chan'["R"], k) /\ Pair(s["I"], s["R"], m, k)'
  <2>1. CASE e = "I"
    <3>1. Pair(s["I"], s["R"], a, c)'
      BY <1>1, <2>1, PairOn DEF Both, Other
    <3> QED BY <2>1, <3>1 DEF Other
  <2>2. CASE e = "R"
    <3>1. Pair(s["I"], s["R"], c, a)'
      BY <1>1, <2>2, PairOn DEF Both, Other
    <3> QED BY <2>2, <3>1 DEF Other
  <2> QED BY <2>1, <2>2 DEF End
<1> QED BY <1>6, <1>7 DEF Exchanged

\* The responder is through the handshake before the initiator.
LEMMA KeysFirst ==
  ASSUME Inv, Exchanged
  PROVE  s["R"].round = 0 => s["I"].round = 0
<1>1. Placed(s["I"]) /\ Placed(s["R"])
  BY DEF Exchanged, Fine, End
<1> QED BY <1>1 DEF Inv, Initiates, Placed

\* A turn takes effect.
LEMMA DeedStep ==
  ASSUME Inv, Exchanged, UNCHANGED <<cfg, broken, faults>>, NEW e \in End, NEW x, Alike(s[e], x),
         NEW a, NEW b, NEW n, Takes(n, a), NEW rest, Carries(rest, a \ n), Carries(chan[Other(e)], b),
         Both(e, s[e], s[Other(e)], a, b),
         x.pc \notin {"done", "failed"}, NEW d, Steps(x, n, d), Act(e, d, rest)
  PROVE  Exchanged'
<1> DEFINE y == s[Other(e)]
           z == s'[e]
           w == d.x
           st == store'[e]
<1>0. /\ Ends /\ Fine(s[e], store[e], agreed[e]) /\ Placed(y) /\ s[e].me = e
      /\ store = [g \in End |-> store[g]] /\ agreed = [g \in End |-> agreed[g]]
  BY DEF Inv, Ends, Exchanged, Fine, End, Other
<1>1. Fine(x, store[e], agreed[e]) /\ Turn(s[e], {}, x, {}) /\ x.me = e /\ x.round = s[e].round
  BY <1>0, AlikeFine DEF Alike
<1>2. e = "R" /\ x.round = 0 => y.round = 0
  BY <1>1, KeysFirst DEF Other
<1>3. Both(e, x, y, a, b)
  <2>1. Both(e, x, y, a \ {}, b \cup {})
    BY <1>0, <1>1, <1>2, BothTurn DEF Fine, Takes
  <2>2. a \ {} = a /\ b \cup {} = b
    OBVIOUS
  <2> QED BY <2>1, <2>2
<1>4. PICK o : Carries(d.out, o) /\ Turn(x, n, w, o)
  BY DEF Steps
<1>5. Both(e, w, y, a \ n, b \cup o) /\ (o = {} \/ b = {})
  <2>1. Placed(x) /\ Placed(w)
    BY <1>1 DEF Fine, Steps
  <2>2. Turn(x, n, w, o)
    BY <1>4
  <2>3. Placed(y) /\ x.me = e /\ (e = "R" /\ x.round = 0 => y.round = 0)
    BY <1>0, <1>1, <1>2
  <2>4. Both(e, x, y, a, b)
    BY <1>3
  <2> HIDE DEF y, w
  <2>5. Both(e, w, y, a \ n, b \cup o)
    BY ONLY e \in End, Takes(n, a), <2>1, <2>2, <2>3, <2>4, BothTurn
  <2>6. o = {} \/ b = {}
    BY ONLY e \in End, Takes(n, a), <2>1, <2>2, <2>3, <2>4, BothTurn
  <2> QED BY <2>5, <2>6
<1>6. IsDeed(d) /\ IsEnd(w) /\ w.me = e /\ w.put = {} /\ Base(w)
  BY <1>1 DEF Steps, Base, Typed
<1>7. /\ \E t : z = [w EXCEPT !.tx = t, !.put = {}]
      /\ s'[Other(e)] = s[Other(e)] /\ store'[Other(e)] = store[Other(e)] /\ agreed'[Other(e)] = agreed[Other(e)]
      /\ store' = [g \in End |-> store'[g]] /\ agreed' = [g \in End |-> agreed'[g]]
      /\ store'[e] = store[e]
      /\ agreed'[e] = [f \in Folder |-> IF f \in DOMAIN d.agree THEN d.agree[f] ELSE agreed[e][f]]
      /\ chan'[e] = rest /\ Sent(w, d.out, chan[Other(e)], chan'[Other(e)])
  <2>1. /\ \E t : z = [w EXCEPT !.tx = t, !.put = {}]
        /\ s'[Other(e)] = s[Other(e)] /\ store'[Other(e)] = store[Other(e)] /\ agreed'[Other(e)] = agreed[Other(e)]
        /\ store' = [g \in End |-> store'[g]] /\ agreed' = [g \in End |-> agreed'[g]]
        /\ st = IF w.put = {} THEN store[e] ELSE [store[e] EXCEPT ![w.at] = @ \cup w.put]
        /\ agreed'[e] = [f \in Folder |-> IF f \in DOMAIN d.agree THEN d.agree[f] ELSE agreed[e][f]]
        /\ chan'[e] = rest /\ Sent(w, d.out, chan[Other(e)], chan'[Other(e)])
    <3>1. IsDeed(d) /\ IsEnd(w)
      BY <1>6
    <3> QED BY <1>0, <3>1, Effects
  <2>2. store'[e] = store[e]
    BY <1>6, <2>1
  <2> QED BY <2>1, <2>2
<1>8. Alike(w, z)
  <2>1. PICK t : z = [w EXCEPT !.tx = t, !.put = {}]
    BY <1>7
  <2> HIDE DEF z, w
  <2> QED BY <1>6, <2>1 DEF Alike, IsEnd, Local
<1>9. Fine(w, store'[e], agreed'[e])
  <2>1. Agrees(w, agreed'[e])
    BY <1>1, <1>7, AgreesAfter DEF Fine
  <2>2. cfg \in Cases /\ store[e] \in [Folder -> SUBSET Blob] /\ Typed(w) /\ Held(w, store[e])
    BY <1>6 DEF Base
  <2>3. Listed(w) /\ Placed(w) /\ Pulls(w, store[e])
    BY <1>1 DEF Steps
  <2> QED BY <1>7, <2>1, <2>2, <2>3 DEF Fine
<1>10. Fine(z, store'[e], agreed'[e]) /\ Turn(w, {}, z, {})
  BY <1>8, <1>9, AlikeFine
<1>11. w.round = 0 => x.round = 0
  BY <1>1, <1>4 DEF Fine, Placed, Turn, Quiet, Opens, Answers, Announces, Closes, Over, Enters
<1>12. Both(e, z, y, a \ n, b \cup o)
  <2> DEFINE p == a \ n
             q == b \cup o
  <2>1. Placed(w) /\ Placed(z)
    BY <1>9, <1>10 DEF Fine
  <2>2. Both(e, w, y, p, q)
    BY <1>5
  <2> HIDE DEF y, w, z, p, q
  <2>3. Both(e, z, y, p \ {}, q \cup {})
    BY <1>0, <1>2, <1>6, <1>10, <1>11, <2>1, <2>2, BothTurn DEF Takes
  <2>4. p \ {} = p /\ q \cup {} = q
    OBVIOUS
  <2> QED BY <2>3, <2>4 DEF p, q
<1>13. Carries(chan'[Other(e)], b) \/ Carries(chan'[Other(e)], b \cup o)
  <2> DEFINE q == chan[Other(e)]
             p == chan'[Other(e)]
             out == d.out
  <2>1. Carries(q, b) /\ Carries(out, o) /\ (o = {} \/ b = {}) /\ Sent(w, out, q, p)
    BY <1>4, <1>5, <1>7
  <2> HIDE DEF q, p, w, out
  <2>2. Carries(p, b) \/ Carries(p, b \cup o)
    BY <2>1, CarriesSent
  <2> QED BY <2>2 DEF p
<1>14. PICK c : Carries(chan'[Other(e)], c) /\ c \subseteq b \cup o
  BY <1>13
<1>15. Carries(chan'[e], a \ n)
  BY <1>7
<1> DEFINE p == a \ n
           q == b \cup o
<1>16. /\ s'[e] = z /\ Both(e, z, s[Other(e)], p, q) /\ Carries(chan'[e], p) /\ c \subseteq q
  BY <1>12, <1>14, <1>15
<1>17. UNCHANGED cfg /\ broken' \in BOOLEAN /\ faults' \in 0 .. MaxFaults
  BY DEF Exchanged
<1> HIDE DEF p, q, y, z, w
<1> QED BY <1>7, <1>10, <1>14, <1>16, <1>17, Settles

\* Blobs that are read are stored.
LEMMA ReadStep ==
  ASSUME Inv, Exchanged, UNCHANGED <<cfg, broken, faults>>, NEW e \in End, NEW x, Alike(s[e], x),
         NEW a, NEW b, NEW n, NEW rest, Carries(rest, a \ n), Carries(chan[Other(e)], b),
         Both(e, s[e], s[Other(e)], a, b),
         x.pc \in {"batch", "packs"}, NEW d, Reading(x, d), d.x.keys = x.keys, Act(e, d, rest)
  PROVE  Exchanged'
<1> DEFINE y == s[Other(e)]
           z == s'[e]
           w == d.x
           ag == agreed[e]
           st == store'[e]
<1>0. /\ Ends /\ Fine(s[e], store[e], agreed[e]) /\ Placed(y) /\ s[e].me = e
      /\ store = [g \in End |-> store[g]] /\ agreed = [g \in End |-> agreed[g]]
  BY DEF Inv, Ends, Exchanged, Fine, End, Other
<1>1. Fine(x, store[e], ag) /\ Turn(s[e], {}, x, {}) /\ x.me = e /\ x.round = s[e].round
  BY <1>0, AlikeFine DEF Alike
<1>2. e = "R" /\ x.round = 0 => y.round = 0
  BY <1>1, KeysFirst DEF Other
<1>3. Both(e, x, y, a, b)
  <2>1. Both(e, x, y, a \ {}, b \cup {})
    BY <1>0, <1>1, <1>2, BothTurn DEF Fine, Takes
  <2>2. a \ {} = a /\ b \cup {} = b
    OBVIOUS
  <2> QED BY <2>1, <2>2
<1>4. IsDeed(d) /\ IsEnd(w) /\ d.out = <<>> /\ d.agree = <<>>
  BY DEF Reading
<1>5. /\ \E t : z = [w EXCEPT !.tx = t, !.put = {}]
      /\ s'[Other(e)] = s[Other(e)] /\ store'[Other(e)] = store[Other(e)] /\ agreed'[Other(e)] = agreed[Other(e)]
      /\ store' = [g \in End |-> store'[g]] /\ agreed' = [g \in End |-> agreed'[g]]
      /\ st = IF w.put = {} THEN store[e] ELSE [store[e] EXCEPT ![w.at] = @ \cup w.put]
      /\ agreed'[e] = [f \in Folder |-> IF f \in DOMAIN d.agree THEN d.agree[f] ELSE agreed[e][f]]
      /\ chan'[e] = rest /\ Sent(w, d.out, chan[Other(e)], chan'[Other(e)])
  BY <1>0, <1>4, Effects
<1>6. agreed'[e] = ag
  <2>1. ag \in [Folder -> MaybeMan]
    BY <1>1 DEF Fine, Agrees
  <2> QED BY <1>4, <1>5, <2>1
<1>7. /\ IsEnd(z) /\ z.me = e /\ z.pc = x.pc /\ z.round = x.round /\ z.after = x.after /\ z.peerf = x.peerf
      /\ z.todo = x.todo /\ z.want = x.want /\ z.left = x.left /\ z.tries = x.tries
      /\ z.pulls = x.pulls /\ z.at = x.at /\ z.phase = x.phase /\ z.enq = x.enq /\ z.chunks = x.chunks
      /\ z.offer = x.offer /\ z.put = {} /\ z.keys = x.keys /\ z.got = w.got
  <2>1. PICK t : z = [w EXCEPT !.tx = t, !.put = {}]
    BY <1>5
  <2>2. /\ IsEnd(z) /\ z.me = w.me /\ z.pc = w.pc /\ z.round = w.round /\ z.after = w.after /\ z.peerf = w.peerf
        /\ z.todo = w.todo /\ z.want = w.want /\ z.left = w.left /\ z.tries = w.tries
        /\ z.pulls = w.pulls /\ z.at = w.at /\ z.phase = w.phase /\ z.enq = w.enq /\ z.chunks = w.chunks
        /\ z.offer = w.offer /\ z.put = {} /\ z.keys = w.keys /\ z.got = w.got
    <3> HIDE DEF z, w
    <3> QED BY <1>4, <2>1 DEF IsEnd, Local
  <2> QED BY <1>1, <2>2 DEF Reading
<1>8. /\ Going(x, store[e]) /\ (x.pc = "packs" <=> x.phase = "packs") /\ x.at \in Folder
      /\ store[e] \in [Folder -> SUBSET Blob]
  BY <1>1 DEF Fine, Pulls, Going
<1>9. /\ st \in [Folder -> SUBSET Blob] /\ \A f \in Folder : store[e][f] \subseteq st[f]
      /\ w.got \subseteq st[x.at]
  <2>1. w.put \subseteq Blob /\ w.at = x.at /\ w.got \subseteq store[e][x.at] \cup w.put
    BY <1>1 DEF Reading
  <2> HIDE DEF w, st
  <2> QED BY <1>5, <1>8, <2>1
<1> HIDE DEF z, w, st
<1>10. Typed(z) /\ Own(z) = Own(x)
  BY <1>1, <1>7 DEF Fine, Typed, Own
<1>11. Held(z, st)
  BY <1>1, <1>7, <1>9 DEF Fine, Held
<1>12. Placed(z)
  BY <1>1, <1>7 DEF Fine, Placed, Awaits, Adverts
<1>13. Listed(z)
  BY <1>7 DEF Listed, Awaits, Adverts
<1>14. Pulls(z, st)
  <2>1. Target(z) = Target(x)
    BY <1>7 DEF Target
  <2>2. store[e][x.at] \subseteq st[x.at]
    BY <1>8, <1>9
  <2>3. Wanted(z) /\ z.at \in Folder /\ z.at \in DOMAIN z.peerf /\ Target(z) \in Man
    BY <1>7, <1>8, <1>10, <2>1 DEF Going, Wanted
  <2>4. Gets(z, st[z.at])
    BY <1>7, <1>8, <1>9, <2>1, <2>2 DEF Going, Gets, Below
  <2> QED BY <1>7, <1>8, <2>3, <2>4 DEF Pulls, Going
<1>15. Agrees(z, ag)
  BY <1>1, <1>7 DEF Fine, Agrees
<1>16. Fine(z, st, ag)
  BY <1>1, <1>9, <1>10, <1>11, <1>12, <1>13, <1>14, <1>15 DEF Fine
<1>17. Turn(x, {}, z, {})
  BY <1>1, <1>7 DEF Turn, Quiet
<1>18. Both(e, z, y, a, b)
  <2>1. Placed(x)
    BY <1>1 DEF Fine
  <2> HIDE DEF y
  <2>2. Both(e, z, y, a \ {}, b \cup {})
    BY <1>0, <1>1, <1>2, <1>3, <1>12, <1>17, <2>1, BothTurn DEF Takes
  <2>3. a \ {} = a /\ b \cup {} = b
    OBVIOUS
  <2> QED BY <2>2, <2>3
<1>19. Carries(chan'[Other(e)], b)
  <2> DEFINE q == chan[Other(e)]
             p == chan'[Other(e)]
             out == d.out
  <2>1. Carries(q, b) /\ Carries(out, {}) /\ Sent(w, out, q, p)
    BY <1>4, <1>5, CarriesNone
  <2> HIDE DEF q, p, out
  <2>2. Carries(p, b) \/ Carries(p, b \cup {})
    BY <2>1, CarriesSent
  <2>3. b \cup {} = b
    OBVIOUS
  <2> QED BY <2>2, <2>3 DEF p
<1> DEFINE m == a \ n
<1>20. Both(e, z, s[Other(e)], m, b) /\ s'[e] = z /\ Carries(chan'[e], m)
  <2>1. m \in SUBSET a
    OBVIOUS
  <2> QED BY <1>5, <1>18, <2>1, BothLess DEF z
<1>21. Fine(z, store'[e], agreed'[e])
  BY <1>6, <1>16 DEF st
<1>22. UNCHANGED cfg /\ broken' \in BOOLEAN /\ faults' \in 0 .. MaxFaults
  BY DEF Exchanged
<1> HIDE DEF m, y, ag
<1> QED BY <1>5, <1>19, <1>20, <1>21, <1>22, Settles

\* The exchange, seen from one end.
LEMMA SeenFrom ==
  ASSUME Exchanged, NEW e \in End
  PROVE  \E a, b : Carries(chan[e], a) /\ Carries(chan[Other(e)], b) /\ Both(e, s[e], s[Other(e)], a, b)
<1>1. PICK a, b : Carries(chan["I"], a) /\ Carries(chan["R"], b) /\ Pair(s["I"], s["R"], a, b)
  BY DEF Exchanged
<1>2. CASE e = "I"
  BY <1>1, <1>2 DEF Both, Other
<1>3. CASE e = "R"
  BY <1>1, <1>3 DEF Both, Other
<1> QED BY <1>2, <1>3 DEF End

\* An end is like itself, also with a slot of its counter taken.
LEMMA AlikeSelf ==
  ASSUME NEW x, IsEnd(x)
  PROVE  Alike(x, x) /\ Alike(x, [x EXCEPT !.rx = @ + 1])
<1> DEFINE z == [x EXCEPT !.rx = @ + 1]
<1>1. Alike(x, x)
  BY DEF Alike
<1>2. Alike(x, z)
  BY DEF Alike, IsEnd, Local
<1> QED BY <1>1, <1>2

\* What is fine is ready, for an end past the handshake.
LEMMA FineReady ==
  ASSUME NEW e, NEW x, x.me = e, NEW a, Fine(x, store[e], a)
  PROVE  /\ x.pc \in Shake => Shakes(x)
         /\ x.pc \notin Shake /\ x.pc # "failed" => Ready(x) /\ x.pc \in Open
<1>1. Base(x) /\ Placed(x) /\ Listed(x) /\ Pulls(x, store[x.me])
  BY DEF Fine, Base
<1>2. x.pc \notin Shake /\ x.pc # "failed" => Spot(x) /\ x.pc \in Open
  BY <1>1 DEF Placed, Spot, Shake, Exchange, Stage, Open
<1> QED BY <1>1, <1>2 DEF Shakes, Ready

\* A turn past the handshake.
LEMMA FaresSteps ==
  ASSUME NEW x, NEW n, NEW d, Fares(x, n, d), d.x.keys = x.keys, Placed(x), x.round # 0
  PROVE  Steps(x, n, d)
<1>1. d.x.round # 0 /\ Spot(d.x)
  BY DEF Fares, Sound, Spot
<1>2. Placed(d.x)
  BY <1>1 DEF Placed, Spot, Shake, Exchange, Stage
<1> QED BY <1>2 DEF Fares, Sound, Steps

\* A frame is taken from a stream, with the offer if it is one.
LEMMA CarriesHead ==
  ASSUME NEW q, NEW a, Carries(q, a), q # <<>>
  PROVE  /\ GoodFrame(Head(q)) /\ Takes(Offers(Head(q)), a) /\ Carries(Tail(q), a \ Offers(Head(q)))
         /\ Head(q).type = "offer" => Head(q).v \in a
<1> DEFINE f == Head(q)
           n == Offers(f)
<1>1. /\ GoodFrame(f)
      /\ f.type = "offer" => a = {f.v} /\ Carries(Tail(q), {})
      /\ f.type # "offer" => Carries(Tail(q), a)
  BY CarriesRest
<1>2. a \ {} = a /\ a \ a = {}
  OBVIOUS
<1>3. CASE f.type = "offer"
  <2>1. n = a
    BY <1>1, <1>3 DEF Offers
  <2> QED BY <1>1, <1>2, <1>3, <2>1 DEF Takes
<1>4. CASE f.type # "offer"
  <2>1. n = {}
    BY <1>4 DEF Offers
  <2> QED BY <1>1, <1>2, <1>4, <2>1 DEF Takes
<1> QED BY <1>3, <1>4

\* A frame of the handshake is read.
LEMMA ShakeRead ==
  ASSUME Inv, Exchanged, NEW e \in End, Receive(e), Handshaking(s[e])
  PROVE  Exchanged'
<1> DEFINE x == s[e]
           f == Head(chan[e])
           d == Handshake(x, f)
           n == Offers(f)
           rest == Tail(chan[e])
<1>1. chan[e] # <<>> /\ x.pc \notin {"done", "failed"} /\ UNCHANGED <<cfg, broken, faults>> /\ Act(e, d, rest)
  BY DEF Receive, Ended
<1>2. IsEnd(x) /\ x.me = e /\ Fine(x, store[e], agreed[e])
  BY DEF Inv, Ends, Exchanged
<1>3. PICK a, b : Carries(chan[e], a) /\ Carries(chan[Other(e)], b) /\ Both(e, s[e], s[Other(e)], a, b)
  BY SeenFrom
<1>4. Takes(n, a) /\ Carries(rest, a \ n)
  BY <1>1, <1>3, CarriesHead
<1>5. Shakes(x)
  BY <1>2, FineReady DEF Handshaking, Shake
<1>6. Steps(x, n, d)
  BY <1>5, HandshakeSteps
<1>7. Alike(s[e], x)
  BY <1>2, AlikeSelf
<1>8. x.pc \notin {"done", "failed"}
  BY <1>1
<1> HIDE DEF d, n, rest, f, x
<1> QED BY <1>1, <1>3, <1>4, <1>6, <1>7, <1>8, DeedStep

\* What an end does with a frame after the handshake.
LEMMA OpenComes ==
  ASSUME Inv, Exchanged, NEW e \in End, Receive(e), ~Handshaking(s[e])
  PROVE  LET x == [s[e] EXCEPT !.rx = @ + 1]
             f == Head(chan[e])
         IN  Comes(x, Offers(f), Handle(x, f))
<1> DEFINE x == [s[e] EXCEPT !.rx = @ + 1]
           y == s[Other(e)]
           f == Head(chan[e])
           d == Handle(x, f)
           n == Offers(f)
           rest == Tail(chan[e])
<1>1. chan[e] # <<>> /\ s[e].pc \notin {"done", "failed"} /\ UNCHANGED <<cfg, broken, faults>> /\ Act(e, d, rest)
  <2>1. chan[e] # <<>> /\ s[e].pc \notin {"done", "failed"} /\ UNCHANGED <<cfg, broken, faults>>
    BY DEF Receive, Ended
  <2>2. Act(e, d, rest)
    BY Reads
  <2> QED BY <2>1, <2>2
<1>2. IsEnd(s[e]) /\ s[e].me = e /\ Fine(s[e], store[e], agreed[e]) /\ s[e].pc \notin Shake
  BY DEF Inv, Ends, Exchanged, Handshaking, Shake
<1>3. PICK a, b : Carries(chan[e], a) /\ Carries(chan[Other(e)], b) /\ Both(e, s[e], y, a, b)
  BY SeenFrom
<1>4. GoodFrame(f) /\ Takes(n, a) /\ Carries(rest, a \ n) /\ (f.type = "offer" => f.v \in a)
  BY <1>1, <1>3, CarriesHead
<1>5. Alike(s[e], x)
  BY <1>2, AlikeSelf
<1> HIDE DEF x, y, d, n, rest, f
<1>6. x.pc = s[e].pc /\ x.me = e /\ x.at = s[e].at /\ IsEnd(x)
  BY <1>2, <1>5 DEF Alike
<1>7. Fine(x, store[e], agreed[e])
  BY <1>2, <1>5, AlikeFine
<1>8. Ready(x) /\ x.pc \in Open \ {"done", "failed"}
  BY <1>1, <1>2, <1>6, <1>7, FineReady
<1>9. x.pc = "echo" /\ f.type = "offer" => f.v.folder = x.at
  <2>1. SUFFICES ASSUME x.pc = "echo", f.type = "offer" PROVE f.v.folder = x.at
    OBVIOUS
  <2> DEFINE w == s[e]
             v == f.v
  <2>2. Both(e, w, y, a, b) /\ w.pc = "echo" /\ v \in a /\ w.at = x.at
    BY <1>3, <1>4, <1>6, <2>1
  <2> HIDE DEF w, v
  <2>3. v.folder = w.at
    BY <2>2, BothEchoes
  <2> QED BY <2>2, <2>3 DEF v
<1>10. Comes(x, n, d)
  BY <1>4, <1>8, <1>9, HandleComes DEF d, n
<1> QED BY <1>10 DEF d, n, x, f

\* A frame is read after the handshake.
LEMMA OpenRead ==
  ASSUME Inv, Exchanged, NEW e \in End, Receive(e), ~Handshaking(s[e])
  PROVE  Exchanged'
<1> DEFINE x == [s[e] EXCEPT !.rx = @ + 1]
           y == s[Other(e)]
           f == Head(chan[e])
           d == Handle(x, f)
           n == Offers(f)
           rest == Tail(chan[e])
<1>1. chan[e] # <<>> /\ s[e].pc \notin {"done", "failed"} /\ UNCHANGED <<cfg, broken, faults>> /\ Act(e, d, rest)
  <2>1. chan[e] # <<>> /\ s[e].pc \notin {"done", "failed"} /\ UNCHANGED <<cfg, broken, faults>>
    BY DEF Receive, Ended
  <2>2. Act(e, d, rest)
    BY Reads
  <2> QED BY <2>1, <2>2
<1>2. IsEnd(s[e]) /\ s[e].me = e /\ Fine(s[e], store[e], agreed[e]) /\ s[e].pc \notin Shake
  BY DEF Inv, Ends, Exchanged, Handshaking, Shake
<1>3. PICK a, b : Carries(chan[e], a) /\ Carries(chan[Other(e)], b) /\ Both(e, s[e], y, a, b)
  BY SeenFrom
<1>4. GoodFrame(f) /\ Takes(n, a) /\ Carries(rest, a \ n) /\ (f.type = "offer" => f.v \in a)
  BY <1>1, <1>3, CarriesHead
<1>5. Alike(s[e], x)
  BY <1>2, AlikeSelf
<1>10. Comes(x, n, d)
  BY OpenComes
<1> HIDE DEF x, y, d, n, rest, f
<1>6. x.pc = s[e].pc /\ x.me = e /\ x.at = s[e].at /\ IsEnd(x)
  BY <1>2, <1>5 DEF Alike
<1>7. Fine(x, store[e], agreed[e])
  BY <1>2, <1>5, AlikeFine
<1>8. Ready(x) /\ x.pc \in Open \ {"done", "failed"}
  BY <1>1, <1>2, <1>6, <1>7, FineReady
<1>11. d.x.keys = x.keys
  BY <1>6, <1>8, HandleKeeps DEF d, Keeps, Same
<1>12. CASE Fares(x, n, d)
  <2>1. Placed(x) /\ x.round # 0
    BY <1>7, <1>8 DEF Fine, Ready, Spot
  <2>2. Steps(x, n, d)
    BY <1>11, <1>12, <2>1, FaresSteps
  <2>3. x.pc \notin {"done", "failed"} /\ Both(e, s[e], s[Other(e)], a, b)
    BY <1>3, <1>8 DEF y
  <2> QED BY <1>1, <1>3, <1>4, <1>5, <2>2, <2>3, DeedStep
<1>13. CASE x.pc \in {"batch", "packs"} /\ Reading(x, d)
  <2>1. Both(e, s[e], s[Other(e)], a, b)
    BY <1>3 DEF y
  <2> QED BY <1>1, <1>3, <1>4, <1>5, <1>11, <1>13, <2>1, ReadStep
<1> QED BY <1>10, <1>12, <1>13 DEF Comes

\* The connection is found closed.
LEMMA CloseStep ==
  ASSUME Inv, Exchanged, NEW e \in End, Eof(e)
  PROVE  Exchanged'
<1> DEFINE x == s[e]
           d == Fails(x, "io")
           rest == <<>>
<1>1. chan[e] = rest /\ x.pc \notin {"done", "failed"} /\ UNCHANGED <<cfg, broken, faults>> /\ Act(e, d, rest)
  BY DEF Eof, Ended
<1>2. IsEnd(x) /\ x.me = e /\ Fine(x, store[e], agreed[e])
  BY DEF Inv, Ends, Exchanged
<1>3. PICK a, b : Carries(chan[e], a) /\ Carries(chan[Other(e)], b) /\ Both(e, s[e], s[Other(e)], a, b)
  BY SeenFrom
<1>4. Takes({}, a) /\ Carries(rest, a \ {})
  <2>1. a \ {} = a
    OBVIOUS
  <2> QED BY <1>1, <1>3, <2>1 DEF Takes
<1>5. Steps(x, {}, d)
  <2>1. CASE x.pc \in Shake
    BY <1>2, <2>1, FineReady, ShakeFails
  <2>2. CASE x.pc \notin Shake
    <3>1. Ready(x)
      BY <1>1, <1>2, <2>2, FineReady
    <3>2. Fares(x, {}, d)
      BY <3>1, DeadIs, DeadFares DEF Ready
    <3>3. d.x.keys = x.keys
      BY <1>2, FailKeeps DEF Keeps, Same
    <3>4. Placed(x) /\ x.round # 0
      BY <1>2, <3>1 DEF Fine, Ready, Spot
    <3> QED BY <3>2, <3>3, <3>4, FaresSteps
  <2> QED BY <2>1, <2>2
<1>6. Alike(s[e], x) /\ x.pc \notin {"done", "failed"}
  BY <1>1, <1>2, AlikeSelf
<1> HIDE DEF d, x, rest
<1> QED BY <1>1, <1>3, <1>4, <1>5, <1>6, DeedStep

\* The environment changes what is on its way, and the ends stay.
LEMMA Remains ==
  ASSUME Exchanged, UNCHANGED <<cfg, s, store, agreed>>, broken' \in BOOLEAN, faults' \in 0 .. MaxFaults,
         NEW a, NEW b, Carries(chan'["I"], a), Carries(chan'["R"], b), Pair(s["I"], s["R"], a, b)
  PROVE  Exchanged'
<1>1. \A e \in End : Fine(s[e], store[e], agreed[e])'
  BY FineOn DEF Exchanged
<1>2. Pair(s["I"], s["R"], a, b)'
  BY PairOn
<1>3. (store = [e \in End |-> store[e]] /\ agreed = [e \in End |-> agreed[e]])'
  BY DEF Exchanged
<1> QED BY <1>1, <1>2, <1>3 DEF Exchanged

\* A fault is counted.
LEMMA FaultCount ==
  ASSUME faults \in 0 .. MaxFaults, faults < MaxFaults, faults' = faults + 1
  PROVE  faults' \in 0 .. MaxFaults
BY WireAssumption

\* A frame is changed on its way.
LEMMA CorruptOn ==
  ASSUME Inv, Exchanged, NEW e \in End, Corrupt(e)
  PROVE  Exchanged'
<1>1. UNCHANGED <<cfg, s, store, agreed, broken>> /\ chan[e] # <<>> /\ faults < MaxFaults /\ faults' = faults + 1
  BY DEF Corrupt
<1>2. PICK f \in Changed(Head(chan[e])) : chan' = [chan EXCEPT ![e] = <<f>> \o Tail(@)]
  BY DEF Corrupt
<1>3. PICK a, b : Carries(chan["I"], a) /\ Carries(chan["R"], b) /\ Pair(s["I"], s["R"], a, b)
  BY DEF Exchanged
<1> DEFINE r == <<f>> \o Tail(chan[e])
<1>4. chan' = [chan EXCEPT ![e] = r] /\ chan = [g \in End |-> chan[g]] /\ "I" \in End /\ "R" \in End
  BY <1>2 DEF Inv, Ends, End
<1>5. Carries(chan[e], a) => Carries(r, a)
  BY <1>1, <1>2, CarriesChanged
<1>6. Carries(chan[e], b) => Carries(r, b)
  BY <1>1, <1>2, CarriesChanged
<1> HIDE DEF r
<1>7. Carries(chan'["I"], a) /\ Carries(chan'["R"], b)
  <2>1. CASE e = "I"
    BY <1>3, <1>4, <1>5, <2>1
  <2>2. CASE e = "R"
    BY <1>3, <1>4, <1>6, <2>2
  <2> QED BY <2>1, <2>2 DEF End
<1>8. UNCHANGED <<cfg, s, store, agreed>> /\ broken' \in BOOLEAN /\ faults' \in 0 .. MaxFaults
  BY <1>1, FaultCount DEF Exchanged
<1> QED BY <1>3, <1>7, <1>8, Remains

\* The connection breaks.
LEMMA BreakOn ==
  ASSUME Inv, Exchanged, Break
  PROVE  Exchanged'
<1>1. UNCHANGED <<cfg, s, store, agreed>> /\ broken' = TRUE /\ faults < MaxFaults /\ faults' = faults + 1
  BY DEF Break
<1>2. PICK i \in 0 .. Len(chan["I"]), r \in 0 .. Len(chan["R"]) :
        chan' = [chan EXCEPT !["I"] = SubSeq(@, 1, i), !["R"] = SubSeq(@, 1, r)]
  BY DEF Break
<1>3. PICK a, b : Carries(chan["I"], a) /\ Carries(chan["R"], b) /\ Pair(s["I"], s["R"], a, b)
  BY DEF Exchanged
<1>4. chan'["I"] = SubSeq(chan["I"], 1, i) /\ chan'["R"] = SubSeq(chan["R"], 1, r)
  BY <1>2 DEF Inv, Ends, End
<1>5. PICK c \in SUBSET a : Carries(SubSeq(chan["I"], 1, i), c)
  BY <1>2, <1>3, CarriesCut
<1>6. PICK d \in SUBSET b : Carries(SubSeq(chan["R"], 1, r), d)
  BY <1>2, <1>3, CarriesCut
<1>7. Pair(s["I"], s["R"], c, d)
  BY <1>3, <1>5, <1>6, PairLess
<1>8. UNCHANGED <<cfg, s, store, agreed>> /\ broken' \in BOOLEAN /\ faults' \in 0 .. MaxFaults
  BY <1>1, FaultCount DEF Exchanged
<1>9. Carries(chan'["I"], c) /\ Carries(chan'["R"], d)
  BY <1>4, <1>5, <1>6
<1> QED BY <1>7, <1>8, <1>9, Remains

\* A frame of a later release is sent.
LEMMA ExtendOn ==
  ASSUME Inv, Exchanged, NEW e \in End, Extend(e)
  PROVE  Exchanged'
<1> DEFINE x == s[e]
           y == s[Other(e)]
           z == [x EXCEPT !.tx = @ + 1]
           g == Frame("extension", "none")
           q == chan[Other(e)]
           p == q \o SealFrames(x, <<g>>)
<1>1. UNCHANGED <<cfg, store, agreed, broken>> /\ faults < MaxFaults /\ faults' = faults + 1
  BY DEF Extend
<1>2. s' = [s EXCEPT ![e] = z] /\ chan' = [chan EXCEPT ![Other(e)] = p]
  <2>1. s' = [s EXCEPT ![e] = z]
    BY DEF Extend
  <2>2. chan' = [chan EXCEPT ![Other(e)] = p]
    BY Zenon DEF Extend
  <2> QED BY <2>1, <2>2
<1>3. /\ Ends /\ IsEnd(x) /\ x.me = e /\ Fine(x, store[e], agreed[e]) /\ Placed(y)
      /\ store = [a \in End |-> store[a]] /\ agreed = [a \in End |-> agreed[a]]
      /\ Other(e) \in End /\ Other(e) # e
  BY DEF Inv, Ends, Exchanged, Fine, End, Other
<1>4. PICK a, b : Carries(chan[e], a) /\ Carries(q, b) /\ Both(e, x, y, a, b)
  BY SeenFrom
<1>5. Alike(x, z)
  BY <1>3 DEF Alike, IsEnd, Local
<1>6. Carries(p, b)
  <2>1. GoodFrame(g) /\ g.type # "offer"
    BY DEF GoodFrame, Frame, IsFrame
  <2>2. Carries(<<g>>, {})
    BY <2>1, CarriesOne
  <2> DEFINE t == SealFrames(x, <<g>>)
  <2>3. Carries(t, {})
    BY <2>2, CarriesSealed
  <2> HIDE DEF t, q, g
  <2>4. Carries(q \o t, b \cup {})
    BY <1>4, <2>3, CarriesCat
  <2>5. b \cup {} = b
    OBVIOUS
  <2> QED BY <2>4, <2>5 DEF t
<1> HIDE DEF z, p
<1>7. s'[e] = z /\ s'[Other(e)] = s[Other(e)] /\ chan'[e] = chan[e] /\ chan'[Other(e)] = p
  BY <1>2, <1>3 DEF Ends
<1>8. Fine(z, store[e], agreed[e]) /\ Turn(x, {}, z, {})
  BY <1>3, <1>5, AlikeFine
<1>9. Both(e, z, y, a, b)
  <2>1. Placed(x) /\ Placed(z) /\ Takes({}, a) /\ (e = "R" /\ x.round = 0 => y.round = 0)
    BY <1>3, <1>8, KeysFirst DEF Fine, Takes, Other
  <2> HIDE DEF x, y
  <2>2. Both(e, z, y, a \ {}, b \cup {})
    BY <1>3, <1>4, <1>8, <2>1, BothTurn
  <2>3. a \ {} = a /\ b \cup {} = b
    OBVIOUS
  <2> QED BY <2>2, <2>3
<1>10. UNCHANGED cfg /\ broken' \in BOOLEAN /\ faults' \in 0 .. MaxFaults
  BY <1>1, FaultCount DEF Exchanged
<1>11. /\ store'[Other(e)] = store[Other(e)] /\ agreed'[Other(e)] = agreed[Other(e)]
       /\ store' = [a1 \in End |-> store'[a1]] /\ agreed' = [a1 \in End |-> agreed'[a1]]
       /\ Fine(z, store'[e], agreed'[e])
  BY <1>1, <1>3, <1>8
<1>12. Carries(chan'[e], a) /\ Carries(chan'[Other(e)], b) /\ b \subseteq b /\ Both(e, z, s[Other(e)], a, b)
  BY <1>4, <1>6, <1>7, <1>9
<1> HIDE DEF x, y, g, q
<1> QED BY <1>7, <1>10, <1>11, <1>12, Settles

\* The connection has just been opened.
LEMMA InitExchanged ==
  ASSUME Init
  PROVE  Exchanged
<1>1. \A e \in End : s[e] = Fresh(cfg, e)
  BY DEF Init
<1>2. cfg \in Cases /\ store = cfg.store /\ broken \in BOOLEAN /\ faults \in 0 .. MaxFaults
  <2>1. cfg \in Cases /\ store = cfg.store /\ broken = FALSE /\ faults = 0
    BY DEF Init
  <2>2. 0 \in 0 .. MaxFaults
    BY WireAssumption
  <2> QED BY <2>1, <2>2
<1>3. ASSUME NEW e \in End
      PROVE  /\ IsEnd(s[e]) /\ s[e].me = e /\ s[e].keys = <<>> /\ s[e].round = 0 /\ s[e].pc \in Shake
             /\ s[e].after = cfg.cur[e] /\ s[e].peerf = <<>> /\ s[e].todo = {} /\ s[e].want = {} /\ s[e].left = {}
             /\ s[e].tries = 0 /\ s[e].put = {}
  <2>1. s[e] = Fresh(cfg, e)
    BY <1>1
  <2> DEFINE x == Fresh(cfg, e)
  <2>2. /\ IsEnd(x) /\ x.me = e /\ x.keys = <<>> /\ x.round = 0 /\ x.pc = (IF e = "I" THEN "ack" ELSE "hello")
        /\ x.after = cfg.cur[e] /\ x.peerf = <<>> /\ x.todo = {} /\ x.want = {} /\ x.left = {}
        /\ x.tries = 0 /\ x.put = {}
    BY DEF Fresh, IsEnd, Local
  <2> HIDE DEF x
  <2>3. x.pc \in Shake
    BY <2>2 DEF Shake
  <2> QED BY <2>1, <2>2, <2>3 DEF x
<1>4. \A e \in End : cfg.cur[e] \in [Folder -> MaybeMan] /\ store[e] \in [Folder -> SUBSET Blob]
  BY <1>2, CasesAssumption DEF MaybeMan, Man
<1>5. store = [e \in End |-> store[e]] /\ agreed = [e \in End |-> agreed[e]]
      /\ \A e \in End : agreed[e] = [f \in Folder |-> NoManifest]
  <2>1. agreed = [e \in End |-> [f \in Folder |-> NoManifest]]
    BY DEF Init
  <2>2. "I" \in End
    BY DEF End
  <2> QED BY <1>2, <2>1, <2>2, CasesAssumption
<1>6. ASSUME NEW e \in End PROVE Fine(s[e], store[e], agreed[e])
  <2> DEFINE x == s[e]
  <2>1. Typed(x)
    <3>1. x.peerf \in [DOMAIN x.peerf -> MaybeMan]
      <4>1. <<>> \in Seq(MaybeMan) /\ Len(<<>>) = 0
        OBVIOUS
      <4>2. <<>> \in [1 .. Len(<<>>) -> MaybeMan] /\ DOMAIN <<>> = 1 .. Len(<<>>)
        BY <4>1
      <4> QED BY <1>3, <4>2
    <3>2. x.tries \in 0 .. MaxRetries
      BY <1>3, WireAssumption
    <3> QED BY <1>3, <1>4, <3>1, <3>2 DEF Typed
  <2>2. Held(x, store[e])
    BY <1>3 DEF Held
  <2>3. Placed(x) /\ Listed(x) /\ Pulls(x, store[e])
    BY <1>3 DEF Placed, Listed, Pulls, Awaits, Adverts, Shake, Stage
  <2>4. Agrees(x, agreed[e])
    <3>1. agreed[e] \in [Folder -> MaybeMan] /\ \A f \in Folder : agreed[e][f] = NoManifest
      BY <1>5 DEF MaybeMan
    <3> QED BY <1>3, <3>1 DEF Agrees, Shake
  <2> QED BY <1>2, <1>4, <2>1, <2>2, <2>3, <2>4 DEF Fine
<1>7. chan["I"] = <<>> /\ chan["R"] = <<Hello("I")>>
  BY DEF Init, End
<1>8. Carries(chan["I"], {}) /\ Carries(chan["R"], {})
  <2> DEFINE g == Hello("I")
  <2>1. GoodFrame(g) /\ g.type = "hello"
    BY FramesAre DEF Hello, GoodFrame
  <2> HIDE DEF g
  <2>2. Carries(<<g>>, {})
    BY <2>1, CarriesOne
  <2> QED BY <1>7, <2>2, CarriesNone DEF g
<1>9. Pair(s["I"], s["R"], {}, {})
  BY <1>3 DEF Pair, OneOffer, Places, Echoes, Current, Known, Shake, Stage, Adverts, Awaits, Past, End
<1> QED BY <1>2, <1>5, <1>6, <1>8, <1>9 DEF Exchanged

\* Every step keeps the exchange.
LEMMA StepExchanged ==
  ASSUME Inv, Exchanged, [Next]_vars
  PROVE  Exchanged'
<1>1. CASE UNCHANGED vars
  <2>1. UNCHANGED <<cfg, s, store, agreed, chan>> /\ broken' \in BOOLEAN /\ faults' \in 0 .. MaxFaults
    BY <1>1 DEF vars, Exchanged
  <2>2. PICK a, b : Carries(chan["I"], a) /\ Carries(chan["R"], b) /\ Pair(s["I"], s["R"], a, b)
    BY DEF Exchanged
  <2> QED BY <2>1, <2>2, Remains
<1>2. CASE Break
  BY <1>2, BreakOn
<1>3. ASSUME NEW e \in End, Receive(e) PROVE Exchanged'
  BY <1>3, ShakeRead, OpenRead
<1>4. ASSUME NEW e \in End, Eof(e) \/ Corrupt(e) \/ Extend(e) PROVE Exchanged'
  BY <1>4, CloseStep, CorruptOn, ExtendOn
<1> QED
  BY <1>1, <1>2, <1>3, <1>4 DEF Next

\* At any time, for any folders, blobs, limits and number of faults: each end is
\* well placed in run_engine(), and what it read of the other's second offers, or
\* has still to read, is what the other has.
THEOREM ExchangeInvariance == Spec => []Exchanged
<1>1. Init => Exchanged
  BY InitExchanged
<1>2. Inv /\ Exchanged /\ [Next]_vars => Exchanged'
  BY StepExchanged
<1> QED
  BY <1>1, <1>2, WireInvariance, PTL DEF Spec

\* The state of the wire has its type; in particular an end that pulls does so in
\* a folder that exists.
THEOREM WireTypes == Spec => []TypeOK
<1>1. Exchanged => TypeOK
  <2> SUFFICES ASSUME Exchanged PROVE TypeOK
    OBVIOUS
  <2>1. cfg \in Cases /\ broken \in BOOLEAN /\ faults \in 0 .. MaxFaults
    BY DEF Exchanged, Fine, End
  <2>2. ASSUME NEW e \in End
        PROVE  /\ store[e] \in [Folder -> SUBSET Blob] /\ agreed[e] \in [Folder -> Blob \cup {NoManifest}]
               /\ s[e].want \subseteq Blob /\ s[e].left \subseteq s[e].want /\ s[e].tries \in 0 .. MaxRetries
               /\ s[e].pc \in {"batch", "packs"} => s[e].at \in Folder
    <3>1. Fine(s[e], store[e], agreed[e])
      BY DEF Exchanged
    <3>2. MaybeMan \subseteq Blob \cup {NoManifest}
      BY DEF MaybeMan, Man, Kind
    <3>3. agreed[e] \in [Folder -> Blob \cup {NoManifest}]
      BY <3>1, <3>2 DEF Fine, Agrees
    <3> QED BY <3>1, <3>3 DEF Fine, Typed, Pulls, Going
  <2> QED BY <2>1, <2>2 DEF TypeOK
<1> QED
  BY <1>1, ExchangeInvariance, PTL

\* What an end recorded, the other has; two ends that are done have recorded the
\* same.
LEMMA RecordedBoth ==
  ASSUME Exchanged, NEW e \in End, NEW f \in Folder, agreed[e][f] # NoManifest
  PROVE  /\ s[Other(e)].after[f] = agreed[e][f] /\ s[e].after[f] = agreed[e][f]
         /\ s[Other(e)].pc = "done" => agreed[Other(e)][f] = agreed[e][f]
<1> DEFINE x == s[e]
           y == s[Other(e)]
           m == agreed[e][f]
<1>1. Fine(x, store[e], agreed[e]) /\ Fine(y, store[Other(e)], agreed[Other(e)])
  BY DEF Exchanged, End, Other
<1>2. PICK a, b : Both(e, x, y, a, b)
  BY SeenFrom
<1>3. Known(x, y) /\ Known(y, x)
  BY <1>2 DEF Both, Pair
<1>4. x.round = 2 /\ f \in Own(x) /\ f \in DOMAIN x.peerf /\ x.after[f] = x.peerf[f] /\ m = x.after[f] /\ m # NoManifest
  BY <1>1 DEF Fine, Agrees, Agreeing
<1>5. EffectiveManifest(y, f) = m
  BY <1>3, <1>4 DEF Known
<1>6. y.after[f] = m /\ f \in Own(y)
  BY <1>4, <1>5 DEF EffectiveManifest, Knows, Own
<1>7. EffectiveManifest(x, f) = m
  BY <1>4 DEF EffectiveManifest, Knows, Own
<1>8. ASSUME y.pc = "done" PROVE agreed[Other(e)][f] = m
  <2>1. f \in DOMAIN y.peerf /\ y.round = 2
    BY <1>1, <1>6, <1>8 DEF Fine, Listed, Placed
  <2>2. y.peerf[f] = m
    BY <1>3, <1>7, <2>1 DEF Known
  <2>3. f \in Agreeing(y)
    BY <1>4, <1>6, <2>1, <2>2 DEF Agreeing
  <2> QED BY <1>1, <1>6, <1>8, <2>3 DEF Fine, Agrees
<1> QED BY <1>4, <1>6, <1>8

\* What finish_after_sync() records, the other end offered in its second round and
\* still has; an end that came without a manifest has stored every blob below it,
\* however requests were split, served, retried or turned into packs.
THEOREM AgreementsWhole == Spec => []AgreedWhole
<1>1. Inv /\ Exchanged => AgreedWhole
  <2> SUFFICES ASSUME Inv, Exchanged, NEW e \in End, NEW f \in Folder, agreed[e][f] # NoManifest
               PROVE  /\ s[Other(e)].after[f] = agreed[e][f]
                      /\ cfg.cur[e][f] = NoManifest => Needs(agreed[e][f]) \subseteq store[e][f]
    BY DEF AgreedWhole
  <2>1. s[Other(e)].after[f] = agreed[e][f] /\ s[e].after[f] = agreed[e][f]
    BY RecordedBoth
  <2>2. Fine(s[e], store[e], agreed[e]) /\ s[e].me = e
    BY DEF Inv, Ends, Exchanged
  <2>3. cfg.cur[e][f] = NoManifest => Needs(agreed[e][f]) \subseteq store[e][f]
    BY <2>1, <2>2 DEF Fine, Held
  <2> QED BY <2>1, <2>3
<1> QED
  BY <1>1, WireInvariance, ExchangeInvariance, PTL

\* Two ends that ran to the end recorded the same manifests for the same folders.
THEOREM AgreementsMutual == Spec => []AgreedMutual
<1>1. Exchanged => AgreedMutual
  <2> SUFFICES ASSUME Exchanged, \A e \in End : s[e].pc = "done"
               PROVE  agreed["I"] = agreed["R"]
    BY DEF AgreedMutual
  <2>1. agreed["I"] \in [Folder -> MaybeMan] /\ agreed["R"] \in [Folder -> MaybeMan]
    BY DEF Exchanged, Fine, Agrees, End
  <2>2. ASSUME NEW f \in Folder PROVE agreed["I"][f] = agreed["R"][f]
    <3>1. "I" \in End /\ "R" \in End /\ Other("I") = "R" /\ Other("R") = "I"
      BY DEF End, Other
    <3>2. agreed["I"][f] # NoManifest => agreed["R"][f] = agreed["I"][f]
      BY <3>1, RecordedBoth
    <3>3. agreed["R"][f] # NoManifest => agreed["I"][f] = agreed["R"][f]
      BY <3>1, RecordedBoth
    <3> QED BY <3>2, <3>3
  <2> QED BY <2>1, <2>2
<1> QED
  BY <1>1, ExchangeInvariance, PTL

-----------------------------------------------------------------------------
(* What is sealed, and under which keys.                                    *)

\* An end seals once it has keys, and has read nothing sealed before; a sealed frame
\* is sealed under the keys of its sender; an end that accepted one has the same.
Wrapped ==
  \A e \in End :
    /\ s[e].sealing => s[e].keys # <<>>
    /\ Handshaking(s[e]) => s[e].rx = 0
    /\ \A i \in 1 .. Len(chan[e]) : ~PreAuth(chan[e][i]) => chan[e][i].sealed \in {<<>>, s[Other(e)].keys}
    /\ s[e].sealing /\ s[e].rx > 0 /\ s[e].pc # "failed" => s["I"].keys = s["R"].keys

\* Frames go out under the keys of their sender.
LEMMA SealsUnder ==
  ASSUME NEW x, NEW q, NEW o, Carries(q, o), NEW i \in 1 .. Len(SealFrames(x, q))
  PROVE  LET g == SealFrames(x, q)[i] IN ~PreAuth(g) => g.sealed \in {<<>>, x.keys}
<1> DEFINE r == SealFrames(x, q)
           G(j) == IF PreAuth(q[j]) THEN q[j] ELSE [q[j] EXCEPT !.sealed = Cipher(x), !.seq = x.tx + j - 1]
<1>1. PICK S : q \in Seq(S)
  BY DEF Carries, IsSeq
<1>2. Len(q) \in Nat /\ DOMAIN q = 1 .. Len(q)
  BY <1>1
<1>3. r = [j \in 1 .. Len(q) |-> G(j)]
  BY <1>2, Zenon DEF SealFrames
<1> DEFINE T == {G(j) : j \in 1 .. Len(q)}
<1>4. r \in [1 .. Len(q) -> T]
  <2> HIDE DEF r, G
  <2> QED BY <1>3
<1>5. r \in Seq(T) /\ Len(r) = Len(q)
  <2> HIDE DEF T, r
  <2> QED BY <1>2, <1>4
<1>6. i \in 1 .. Len(q) /\ r[i] = G(i)
  <2> HIDE DEF G, T
  <2> QED BY <1>3, <1>5
<1>7. GoodFrame(q[i])
  BY <1>6 DEF Carries
<1>8. ~PreAuth(G(i)) => G(i).sealed = Cipher(x)
  BY <1>7 DEF GoodFrame, IsFrame
<1>9. Cipher(x) \in {<<>>, x.keys}
  BY DEF Cipher
<1> QED BY <1>6, <1>8, <1>9

\* Frames that an end sent, after those on their way.
LEMMA SentUnder ==
  ASSUME NEW q, IsSeq(q), NEW x, NEW out, NEW o, Carries(out, o), NEW p, Sent(x, out, q, p), NEW i \in 1 .. Len(p)
  PROVE  (\E j \in 1 .. Len(q) : p[i] = q[j]) \/ (~PreAuth(p[i]) => p[i].sealed \in {<<>>, x.keys})
<1>1. CASE p = q
  BY <1>1
<1>2. CASE p = q \o SealFrames(x, out)
  <2> DEFINE t == SealFrames(x, out)
  <2>1. IsSeq(t)
    BY CarriesSealed DEF Carries
  <2>2. \A j \in 1 .. Len(t) : ~PreAuth(t[j]) => t[j].sealed \in {<<>>, x.keys}
    BY SealsUnder
  <2> HIDE DEF t
  <2>3. Catted(q, t, p)
    BY <1>2, <2>1, Cats DEF t
  <2>4. i \in 1 .. Len(q) \/ (i - Len(q) \in 1 .. Len(t) /\ (i - Len(q)) + Len(q) = i)
    BY <2>3 DEF Catted
  <2>5. CASE i \in 1 .. Len(q)
    BY <2>3, <2>5 DEF Catted
  <2>6. CASE i - Len(q) \in 1 .. Len(t) /\ (i - Len(q)) + Len(q) = i
    <3> DEFINE k == i - Len(q)
    <3>1. k \in 1 .. Len(t) /\ k + Len(q) = i
      BY <2>6
    <3> HIDE DEF k
    <3>2. p[i] = t[k]
      BY <2>3, <3>1 DEF Catted
    <3> QED BY <2>2, <3>1, <3>2
  <2> QED BY <2>4, <2>5, <2>6
<1> QED BY <1>1, <1>2 DEF Sent

\* One end has moved and is now as x.
LEMMA WrapOn ==
  ASSUME Wrapped, NEW e \in End, s'[Other(e)] = s[Other(e)], NEW x,
         s'[e].keys = x.keys, s'[e].sealing = x.sealing, s'[e].rx = x.rx, s'[e].pc = x.pc,
         s[e].keys = <<>> \/ x.keys = s[e].keys, x.sealing => x.keys # <<>>, Handshaking(x) => x.rx = 0,
         x.sealing /\ x.rx > 0 /\ x.pc # "failed" => x.keys = s[Other(e)].keys,
         \A i \in 1 .. Len(chan'[e]) : \E j \in 1 .. Len(chan[e]) : chan'[e][i] = chan[e][j],
         \A i \in 1 .. Len(chan'[Other(e)]) :
           \/ \E j \in 1 .. Len(chan[Other(e)]) : chan'[Other(e)][i] = chan[Other(e)][j]
           \/ ~PreAuth(chan'[Other(e)][i]) => chan'[Other(e)][i].sealed \in {<<>>, x.keys}
  PROVE  Wrapped'
<1> DEFINE o == Other(e)
<1>1. o \in End /\ Other(o) = e /\ \A a \in End : a = e \/ a = o
  BY DEF End, Other
<1>2. \A y, z : (s["I"].keys = s["R"].keys) <=> (s[e].keys = s[o].keys)
  BY DEF End, Other
<1>3. (s'["I"].keys = s'["R"].keys) <=> (s'[e].keys = s'[o].keys)
  BY DEF End, Other
<1>4. Handshaking(s'[e]) <=> Handshaking(x)
  BY DEF Handshaking
<1> HIDE DEF o
<1>5. /\ s'[e].sealing => s'[e].keys # <<>>
      /\ Handshaking(s'[e]) => s'[e].rx = 0
      /\ \A i \in 1 .. Len(chan'[e]) : ~PreAuth(chan'[e][i]) => chan'[e][i].sealed \in {<<>>, s'[o].keys}
      /\ s'[e].sealing /\ s'[e].rx > 0 /\ s'[e].pc # "failed" => s'["I"].keys = s'["R"].keys
  <2>1. \A i \in 1 .. Len(chan'[e]) : ~PreAuth(chan'[e][i]) => chan'[e][i].sealed \in {<<>>, s'[o].keys}
    BY DEF Wrapped, o
  <2>2. s'[e].sealing /\ s'[e].rx > 0 /\ s'[e].pc # "failed" => s'["I"].keys = s'["R"].keys
    BY <1>3 DEF o
  <2> QED BY <1>4, <2>1, <2>2
<1>6. /\ s'[o].sealing => s'[o].keys # <<>>
      /\ Handshaking(s'[o]) => s'[o].rx = 0
      /\ \A i \in 1 .. Len(chan'[o]) : ~PreAuth(chan'[o][i]) => chan'[o][i].sealed \in {<<>>, s'[e].keys}
      /\ s'[o].sealing /\ s'[o].rx > 0 /\ s'[o].pc # "failed" => s'["I"].keys = s'["R"].keys
  <2>1. s'[o] = s[o]
    BY DEF o
  <2>2. \A j \in 1 .. Len(chan[o]) : ~PreAuth(chan[o][j]) => chan[o][j].sealed \in {<<>>, s[e].keys}
    BY <1>1 DEF Wrapped
  <2>3. \A i \in 1 .. Len(chan'[o]) : ~PreAuth(chan'[o][i]) => chan'[o][i].sealed \in {<<>>, s'[e].keys}
    BY <2>2 DEF o
  <2>4. ASSUME s[o].sealing, s[o].rx > 0, s[o].pc # "failed" PROVE s'[e].keys = s'[o].keys
    <3>1. s[e].keys = s[o].keys /\ s[o].keys # <<>>
      BY <1>1, <1>2, <2>4 DEF Wrapped
    <3> QED BY <2>1, <3>1
  <2> QED BY <1>1, <1>3, <2>1, <2>3, <2>4 DEF Wrapped
<1>7. Other(e)' = o /\ Other(o)' = e
  BY <1>1 DEF o, Other
<1> QED BY <1>1, <1>5, <1>6, <1>7 DEF Wrapped, Other, End

\* What the counters are after a frame of the handshake.
LEMMA ShakeRx ==
  ASSUME NEW x, IsEnd(x), x.keys = <<>>, ~x.sealing, x.rx = 0, Handshaking(x), NEW f
  PROVE  LET d == Handshake(x, f) IN d.x.rx = 0 /\ (d.x.sealing => d.x.keys # <<>>)
<1>1. ASSUME NEW err PROVE /\ Fails(x, err).x.rx = 0 /\ ~Fails(x, err).x.sealing
                           /\ Abort(x, err).x.rx = 0 /\ ~Abort(x, err).x.sealing
  <2> DEFINE y == [x EXCEPT !.pc = "failed", !.err = err]
             d == Fails(x, err)
  <2>1. y.rx = 0 /\ ~y.sealing
    BY DEF IsEnd, Local
  <2>2. d = Does(y, <<>>)
    BY DEF Fails
  <2> HIDE DEF y
  <2>3. IsDeed(d) /\ d.x = y
    BY <2>2 DEF IsDeed, Does
  <2>4. PICK r : Abort(x, err) = [d EXCEPT !.out = <<Bye(r)>>]
    BY Zenon DEF Abort
  <2> HIDE DEF d
  <2>5. Abort(x, err).x = y
    BY <2>3, <2>4 DEF IsDeed
  <2> QED BY <2>1, <2>3, <2>5 DEF d
<1>2. ASSUME NEW auths, NEW p
      PROVE  LET d == StartRound(Established(x, auths), 1)
             IN  /\ d.x.rx = 0 /\ d.x.keys # <<>>
                 /\ [d EXCEPT !.out = p \o @].x.rx = 0 /\ [d EXCEPT !.out = p \o @].x.keys # <<>>
  <2> DEFINE k == TrafficKeys(x.me, x.hellos, auths)
             z == Established(x, auths)
             d == StartRound(z, 1)
             b == [d EXCEPT !.out = p \o @]
  <2>1. IsEnd(z) /\ z.rx = 0 /\ z.keys # <<>>
    <3>1. k # <<>>
      BY KeysAre
    <3>2. z = [x EXCEPT !.keys = k, !.sealing = cfg.encryption[x.me]]
      BY DEF Established
    <3> HIDE DEF z, k
    <3> QED BY <3>1, <3>2 DEF IsEnd, Local
  <2> HIDE DEF z
  <2>2. IsDeed(d) /\ d.x.keys = z.keys
    BY <2>1, RoundKeeps DEF Keeps, Same
  <2>3. d.x.rx = 0
    <3> DEFINE y == [z EXCEPT !.round = 1, !.peerf = <<>>, !.todo = ToSet(cfg.folders[z.me])]
    <3>1. IsEnd(y) /\ y.rx = 0
      BY <2>1 DEF IsEnd, Local
    <3>2. d = AnnounceNext(y) \/ \E out : d = Does([y EXCEPT !.pc = "offer"], out)
      BY Zenon DEF StartRound
    <3> HIDE DEF y
    <3> HIDE DEF d
    <3>3. CASE d = AnnounceNext(y)
      <4>1. PICK f1, t, out : AnnounceNext(y) = Does([y EXCEPT !.pc = "echo", !.at = f1, !.todo = t], out)
        BY Zenon DEF AnnounceNext
      <4> DEFINE w == [y EXCEPT !.pc = "echo", !.at = f1, !.todo = t]
      <4>2. w.rx = 0
        BY <3>1 DEF IsEnd, Local
      <4> HIDE DEF w
      <4>3. d = Does(w, out)
        BY <3>3, <4>1 DEF w
      <4> QED BY <4>2, <4>3 DEF Does
    <3>4. CASE \E out : d = Does([y EXCEPT !.pc = "offer"], out)
      <4>1. PICK out : d = Does([y EXCEPT !.pc = "offer"], out)
        BY <3>4
      <4> DEFINE w == [y EXCEPT !.pc = "offer"]
      <4>2. w.rx = 0
        BY <3>1 DEF IsEnd, Local
      <4> HIDE DEF w
      <4>3. d = Does(w, out)
        BY <4>1 DEF w
      <4> QED BY <4>2, <4>3 DEF Does
    <3> QED BY <3>2, <3>3, <3>4
  <2> HIDE DEF d
  <2>4. b.x = d.x
    BY <2>2 DEF IsDeed
  <2> QED BY <2>1, <2>2, <2>3, <2>4 DEF b, d, z
<1>3. OnHello(x, f).x.rx = 0 /\ ~OnHello(x, f).x.sealing
  <2> DEFINE d == OnHello(x, f)
  <2>1. \/ \E err : d = Abort(x, err)
        \/ \E v, m, g, h, out : d = Does([x EXCEPT !.pc = "auth", !.version = v, !.peerMax = m, !.peerFlags = g, !.hellos = h], out)
    BY Zenon DEF OnHello
  <2> HIDE DEF d
  <2>2. ASSUME \E err : d = Abort(x, err) PROVE d.x.rx = 0 /\ ~d.x.sealing
    BY <1>1, <2>2
  <2>3. ASSUME \E v, m, g, h, out : d = Does([x EXCEPT !.pc = "auth", !.version = v, !.peerMax = m, !.peerFlags = g, !.hellos = h], out) PROVE d.x.rx = 0 /\ ~d.x.sealing
    <3>1. PICK v, m, g, h, out : d = Does([x EXCEPT !.pc = "auth", !.version = v, !.peerMax = m, !.peerFlags = g, !.hellos = h], out)
      BY <2>3
    <3> DEFINE w == [x EXCEPT !.pc = "auth", !.version = v, !.peerMax = m, !.peerFlags = g, !.hellos = h]
    <3>2. w.rx = 0 /\ ~w.sealing
      BY DEF IsEnd, Local
    <3> HIDE DEF w
    <3>3. d = Does(w, out)
      BY <3>1 DEF w
    <3> QED BY <3>2, <3>3 DEF Does
  <2>4. d.x.rx = 0 /\ ~d.x.sealing
    BY <2>1, <2>2, <2>3
  <2> QED BY <2>4 DEF d
<1>4. OnHelloAck(x, f).x.rx = 0 /\ ~OnHelloAck(x, f).x.sealing
  <2> DEFINE d == OnHelloAck(x, f)
             h == <<Hello(x.me), f>>
             init == AuthProof("auth_init", f.v.agreed, SealAuth(x.me, "i2r", h))
             w == [x EXCEPT !.pc = "confirm", !.version = f.v.agreed, !.peerMax = f.v.version,
                            !.peerFlags = f.v.flags, !.hellos = h, !.auth = init]
  <2>1. (\E err : d = Abort(x, err)) \/ d = Does(w, <<init>>)
    BY Zenon DEF OnHelloAck
  <2> HIDE DEF h, init
  <2>2. w.rx = 0 /\ ~w.sealing
    BY DEF IsEnd, Local
  <2> HIDE DEF w
  <2>3. Does(w, <<init>>).x = w
    BY DEF Does
  <2> HIDE DEF d
  <2>4. d.x.rx = 0 /\ ~d.x.sealing
    BY <1>1, <2>1, <2>2, <2>3
  <2> QED BY <2>4 DEF d
<1>5. OnAuthInit(x, f).x.rx = 0 /\ (OnAuthInit(x, f).x.sealing => OnAuthInit(x, f).x.keys # <<>>)
  <2> DEFINE d == OnAuthInit(x, f)
  <2>1. \/ \E err : d = Abort(x, err)
        \/ \E a, p : d = [StartRound(Established(x, a), 1) EXCEPT !.out = p \o @]
    BY Zenon DEF OnAuthInit
  <2> HIDE DEF d
  <2>2. ASSUME \E err : d = Abort(x, err) PROVE d.x.rx = 0 /\ (d.x.sealing => d.x.keys # <<>>)
    BY <1>1, <2>2
  <2>3. ASSUME \E a, p : d = [StartRound(Established(x, a), 1) EXCEPT !.out = p \o @] PROVE d.x.rx = 0 /\ (d.x.sealing => d.x.keys # <<>>)
    <3>1. PICK a, p : d = [StartRound(Established(x, a), 1) EXCEPT !.out = p \o @]
      BY <2>3
    <3> DEFINE b == StartRound(Established(x, a), 1)
    <3>2. [b EXCEPT !.out = p \o @].x.rx = 0 /\ [b EXCEPT !.out = p \o @].x.keys # <<>>
      BY <1>2
    <3>3. d = [b EXCEPT !.out = p \o @]
      BY <3>1
    <3> HIDE DEF b
    <3> QED BY <3>2, <3>3
  <2>4. d.x.rx = 0 /\ (d.x.sealing => d.x.keys # <<>>)
    BY <2>1, <2>2, <2>3
  <2> QED BY <2>4 DEF d
<1>6. OnAuthConfirm(x, f).x.rx = 0 /\ (OnAuthConfirm(x, f).x.sealing => OnAuthConfirm(x, f).x.keys # <<>>)
  <2>1. \/ \E err : OnAuthConfirm(x, f) = Abort(x, err)
        \/ \E a : OnAuthConfirm(x, f) = StartRound(Established(x, a), 1)
    BY Zenon DEF OnAuthConfirm
  <2> QED BY <1>1, <1>2, <2>1
<1>7. Handshake(x, f) \in {Fails(x, "bye"), OnHello(x, f), OnHelloAck(x, f), OnAuthInit(x, f), OnAuthConfirm(x, f)}
  BY DEF Handshake, Handshaking
<1> QED BY <1>1, <1>3, <1>4, <1>5, <1>6, <1>7

\* A frame that is accepted after the handshake was opened.
LEMMA Opened ==
  ASSUME NEW x, IsEnd(x), x.pc \in Open \ {"done", "failed"}, NEW f, Handle(x, f).x.pc # "failed"
  PROVE  OpenError(x, f) = "none" /\ ~PreAuth(f)
<1>1. \A err : Abort(x, err).x.pc = "failed"
  BY FailIs
<1>2. OpenError(x, f) = "none"
  BY <1>1 DEF Handle
<1>3. PreAuth(f) => f.type \in KNOWN_TYPES /\ f.type \notin Expected(x)
  BY DEF PreAuth, KNOWN_TYPES, Expected, Open
<1>4. PreAuth(f) => Handle(x, f) = Abort(x, "violation")
  BY <1>2, <1>3 DEF Handle
<1> QED BY <1>1, <1>2, <1>4

\* A deed of one end takes effect.
LEMMA WrapDeed ==
  ASSUME Inv, Exchanged, Wrapped, NEW e \in End, NEW d, IsDeed(d), IsEnd(d.x), NEW o, Carries(d.out, o),
         NEW rest, Act(e, d, rest), \A i \in 1 .. Len(rest) : \E j \in 1 .. Len(chan[e]) : rest[i] = chan[e][j],
         s[e].keys = <<>> \/ d.x.keys = s[e].keys, d.x.sealing => d.x.keys # <<>>, Handshaking(d.x) => d.x.rx = 0,
         d.x.sealing /\ d.x.rx > 0 /\ d.x.pc # "failed" => d.x.keys = s[Other(e)].keys
  PROVE  Wrapped'
<1> DEFINE x == d.x
           out == d.out
           q == chan[Other(e)]
           p == chan'[Other(e)]
<1>1. Ends /\ store = [a \in End |-> store[a]] /\ agreed = [a \in End |-> agreed[a]] /\ Other(e) \in End
  BY DEF Inv, Exchanged, End, Other
<1>2. /\ \E t : s'[e] = [x EXCEPT !.tx = t, !.put = {}]
      /\ s'[Other(e)] = s[Other(e)] /\ chan'[e] = rest /\ Sent(x, out, q, p)
  <2>1. /\ \E t : s'[e] = [d.x EXCEPT !.tx = t, !.put = {}]
        /\ s'[Other(e)] = s[Other(e)] /\ store'[Other(e)] = store[Other(e)] /\ agreed'[Other(e)] = agreed[Other(e)]
        /\ store' = [a \in End |-> store'[a]] /\ agreed' = [a \in End |-> agreed'[a]]
        /\ store'[e] = IF d.x.put = {} THEN store[e] ELSE [store[e] EXCEPT ![d.x.at] = @ \cup d.x.put]
        /\ agreed'[e] = [f \in Folder |-> IF f \in DOMAIN d.agree THEN d.agree[f] ELSE agreed[e][f]]
        /\ chan'[e] = rest /\ Sent(d.x, d.out, chan[Other(e)], chan'[Other(e)])
    BY <1>1, Effects
  <2> QED BY <2>1
<1>3. s'[e].keys = x.keys /\ s'[e].sealing = x.sealing /\ s'[e].rx = x.rx /\ s'[e].pc = x.pc
  <2>1. IsEnd(x)
    OBVIOUS
  <2> HIDE DEF x
  <2> QED BY <1>2, <2>1 DEF IsEnd, Local
<1>4. IsSeq(q)
  BY DEF Exchanged, Carries, End, Other
<1>5. \A i \in 1 .. Len(p) : (\E j \in 1 .. Len(q) : p[i] = q[j]) \/ (~PreAuth(p[i]) => p[i].sealed \in {<<>>, x.keys})
  <2> HIDE DEF p, q, x
  <2> QED BY <1>2, <1>4, SentUnder
<1>6. \A i \in 1 .. Len(chan'[e]) : \E j \in 1 .. Len(chan[e]) : chan'[e][i] = chan[e][j]
  BY <1>2
<1>7. /\ Wrapped /\ e \in End /\ s'[Other(e)] = s[Other(e)]
      /\ s[e].keys = <<>> \/ x.keys = s[e].keys
      /\ x.sealing => x.keys # <<>>
      /\ Handshaking(x) => x.rx = 0
      /\ x.sealing /\ x.rx > 0 /\ x.pc # "failed" => x.keys = s[Other(e)].keys
  BY <1>2
<1> HIDE DEF x
<1> QED BY ONLY <1>3, <1>5, <1>6, <1>7, WrapOn

\* The rest of a stream.
LEMMA RestOf ==
  ASSUME Exchanged, NEW e \in End, chan[e] # <<>>
  PROVE  /\ \A i \in 1 .. Len(Tail(chan[e])) : \E j \in 1 .. Len(chan[e]) : Tail(chan[e])[i] = chan[e][j]
         /\ 1 \in 1 .. Len(chan[e]) /\ Head(chan[e]) = chan[e][1]
<1>1. IsStream(chan[e])
  BY DEF Exchanged, Carries, GoodFrame, IsStream, End
<1> QED BY <1>1, StreamTail

\* A frame of the handshake is read.
LEMMA ShakeWraps ==
  ASSUME Inv, Exchanged, Wrapped, NEW e \in End, Receive(e), Handshaking(s[e])
  PROVE  Wrapped'
<1> DEFINE x == s[e]
           f == Head(chan[e])
           d == Handshake(x, f)
           rest == Tail(chan[e])
<1>1. chan[e] # <<>> /\ Act(e, d, rest)
  BY DEF Receive
<1>2. IsEnd(x) /\ x.me = e /\ Fine(x, store[e], agreed[e])
  BY DEF Inv, Ends, Exchanged
<1>3. Shakes(x) /\ x.keys = <<>>
  <2>1. x.pc \in Shake
    BY DEF Handshaking, Shake
  <2>2. Shakes(x)
    BY <1>2, <2>1, FineReady
  <2> QED BY <2>1, <2>2 DEF Shakes, Placed
<1>4. PICK o : IsDeed(d) /\ IsEnd(d.x) /\ Carries(d.out, o)
  <2>1. Steps(x, Offers(f), d)
    BY <1>3, HandshakeSteps
  <2> QED BY <2>1 DEF Steps, Base, Typed
<1>5. x.rx = 0 /\ ~x.sealing
  BY <1>3 DEF Wrapped
<1>6. d.x.rx = 0 /\ (d.x.sealing => d.x.keys # <<>>)
  BY <1>2, <1>3, <1>5, ShakeRx
<1>7. ~(d.x.rx > 0)
  BY <1>6
<1>8. \A i \in 1 .. Len(rest) : \E j \in 1 .. Len(chan[e]) : rest[i] = chan[e][j]
  BY <1>1, RestOf
<1> HIDE DEF d, rest
<1> QED BY <1>1, <1>3, <1>4, <1>6, <1>7, <1>8, WrapDeed

\* A frame is read after the handshake.
LEMMA OpenWraps ==
  ASSUME Inv, Exchanged, Wrapped, NEW e \in End, Receive(e), ~Handshaking(s[e])
  PROVE  Wrapped'
<1> DEFINE x == [s[e] EXCEPT !.rx = @ + 1]
           f == Head(chan[e])
           d == Handle(x, f)
           rest == Tail(chan[e])
<1>1. /\ chan[e] # <<>> /\ Act(e, d, rest) /\ IsEnd(s[e])
      /\ s[e].pc \notin {"done", "failed"}
  BY Reads
<1>2. IsEnd(x) /\ x.keys = s[e].keys /\ x.sealing = s[e].sealing /\ x.pc = s[e].pc
  BY <1>1 DEF IsEnd, Local
<1>3. x.pc \in Open \ {"done", "failed"}
  <2>1. s[e].pc \notin Shake /\ Fine(s[e], store[e], agreed[e])
    BY DEF Handshaking, Shake, Exchanged
  <2>2. Placed(s[e])
    BY <2>1 DEF Fine
  <2> QED BY <1>1, <1>2, <2>1, <2>2 DEF Placed, Shake, Exchange, Stage, Open
<1>4. Comes(x, Offers(f), d)
  BY OpenComes
<1>5. 1 \in 1 .. Len(chan[e]) /\ f = chan[e][1] /\ \A i \in 1 .. Len(rest) : \E j \in 1 .. Len(chan[e]) : rest[i] = chan[e][j]
  BY <1>1, RestOf
<1> HIDE DEF x, f, rest
<1>6. Keeps(x, d)
  BY <1>2, <1>3, HandleKeeps
<1>7. d.x.pc # "failed" => OpenError(x, f) = "none" /\ ~PreAuth(f)
  BY <1>2, <1>3, Opened
<1> HIDE DEF d
<1>8. PICK o : Carries(d.out, o)
  BY <1>4, CarriesNone DEF Comes, Fares, Reading
<1>9. /\ IsDeed(d) /\ IsEnd(d.x) /\ d.x.keys = s[e].keys /\ d.x.sealing = s[e].sealing /\ d.x.pc \in Open
  BY <1>2, <1>6 DEF Keeps, Same
<1>10. d.x.sealing => d.x.keys # <<>>
  BY <1>9 DEF Wrapped
<1>11. ~Handshaking(d.x)
  BY <1>9 DEF Handshaking, Open
<1>12. ASSUME d.x.sealing, d.x.pc # "failed" PROVE d.x.keys = s[Other(e)].keys
  <2>1. f.sealed = x.keys
    BY <1>2, <1>7, <1>9, <1>12 DEF OpenError
  <2>2. f.sealed \in {<<>>, s[Other(e)].keys}
    BY <1>5, <1>7, <1>12 DEF Wrapped
  <2> QED BY <1>2, <1>9, <1>10, <1>12, <2>1, <2>2
<1> QED BY <1>1, <1>5, <1>8, <1>9, <1>10, <1>11, <1>12, WrapDeed

\* The stream ends.
LEMMA CloseWraps ==
  ASSUME Inv, Exchanged, Wrapped, NEW e \in End, Eof(e)
  PROVE  Wrapped'
<1> DEFINE d == Fails(s[e], "io")
           rest == <<>>
<1>1. Act(e, d, rest) /\ IsEnd(s[e])
  BY DEF Eof, Inv, Ends
<1>2. IsDeed(d) /\ Same(s[e], d.x) /\ d.x.pc = "failed" /\ d.out = <<>>
  <2>1. IsDeed(d) /\ Same(s[e], d.x) /\ d.x.pc = "failed"
    BY <1>1, FailIs
  <2>2. d.out = <<>>
    BY DEF Fails, Does
  <2> QED BY <2>1, <2>2
<1> HIDE DEF d
<1>3. Carries(d.out, {}) /\ IsEnd(d.x) /\ d.x.keys = s[e].keys /\ d.x.sealing = s[e].sealing
  BY <1>2, CarriesNone DEF Same
<1>4. (d.x.sealing => d.x.keys # <<>>) /\ ~Handshaking(d.x)
  BY <1>2, <1>3 DEF Wrapped, Handshaking
<1>5. \A i \in 1 .. Len(rest) : \E j \in 1 .. Len(chan[e]) : rest[i] = chan[e][j]
  BY StreamNone
<1> HIDE DEF rest
<1> QED BY <1>1, <1>2, <1>3, <1>4, <1>5, WrapDeed

\* What is on its way changes, and neither its kind nor its seal.
LEMMA WrapStay ==
  ASSUME Wrapped, UNCHANGED s,
         \A e \in End : \A i \in 1 .. Len(chan'[e]) : \E j \in 1 .. Len(chan[e]) :
           chan'[e][i].type = chan[e][j].type /\ chan'[e][i].sealed = chan[e][j].sealed
  PROVE  Wrapped'
<1>1. ASSUME NEW e \in End, NEW i \in 1 .. Len(chan'[e]), ~PreAuth(chan'[e][i])
      PROVE  chan'[e][i].sealed \in {<<>>, s[Other(e)].keys}
  <2>1. PICK j \in 1 .. Len(chan[e]) : chan'[e][i].type = chan[e][j].type /\ chan'[e][i].sealed = chan[e][j].sealed
    OBVIOUS
  <2>2. ~PreAuth(chan[e][j])
    BY <1>1, <2>1 DEF PreAuth
  <2> QED BY <2>1, <2>2 DEF Wrapped
<1>2. ASSUME NEW e \in End PROVE Other(e)' = Other(e) /\ s'[e] = s[e] /\ s'[Other(e)] = s[Other(e)]
  BY DEF Other
<1> QED BY <1>1, <1>2 DEF Wrapped, Other

\* A changed frame is of the same kind and as sealed as before.
LEMMA ChangedSeal ==
  ASSUME NEW f, IsFrame(f), NEW g \in Changed(f)
  PROVE  g.type = f.type /\ g.sealed = f.sealed
<1>1. (\E v : g = [f EXCEPT !.v = v]) \/ g = [f EXCEPT !.bad = TRUE]
  <2>1. CASE f.type \in {"auth_init", "auth_confirm"}
    <3>1. g = [f EXCEPT !.bad = TRUE] \/ g = [f EXCEPT !.v = [f.v EXCEPT !.version = <<1, 7>>]]
      BY <2>1 DEF Changed
    <3> QED BY <3>1
  <2>2. CASE f.type \notin {"auth_init", "auth_confirm"}
    BY <2>2 DEF Changed
  <2> QED BY <2>1, <2>2
<1> QED BY <1>1 DEF IsFrame

\* A frame is changed.
LEMMA CorruptWraps ==
  ASSUME Inv, Exchanged, Wrapped, NEW e \in End, Corrupt(e)
  PROVE  Wrapped'
<1>1. UNCHANGED s /\ chan[e] # <<>> /\ chan = [a \in End |-> chan[a]]
  BY DEF Corrupt, Inv, Ends
<1>2. PICK g \in Changed(Head(chan[e])) : chan' = [chan EXCEPT ![e] = <<g>> \o Tail(chan[e])]
  BY DEF Corrupt
<1>3. IsStream(chan[e])
  BY DEF Exchanged, Carries, GoodFrame, IsStream, End
<1> DEFINE q == chan[e]
           r == <<g>> \o Tail(q)
<1>4. 1 \in 1 .. Len(q) /\ Head(q) = q[1] /\ IsFrame(q[1])
  BY <1>1, <1>3, StreamTail
<1>5. IsFrame(g) /\ g.type = q[1].type /\ g.sealed = q[1].sealed
  <2>1. IsFrame(g)
    BY <1>2, <1>4, ChangedIs
  <2>2. g.type = q[1].type /\ g.sealed = q[1].sealed
    BY <1>2, <1>4, ChangedSeal
  <2> QED BY <2>1, <2>2
<1>6. Len(r) = Len(q) /\ r[1] = g /\ \A i \in 1 .. Len(q) : i # 1 => r[i] = q[i]
  <2>1. IsStream(q) /\ q # <<>>
    BY <1>1, <1>3
  <2> HIDE DEF q
  <2> QED BY <1>5, <2>1, StreamPut
<1>7. chan' = [chan EXCEPT ![e] = r]
  BY <1>2
<1> HIDE DEF r
<1>8. ASSUME NEW a \in End, NEW i \in 1 .. Len(chan'[a])
      PROVE  \E j \in 1 .. Len(chan[a]) : chan'[a][i].type = chan[a][j].type /\ chan'[a][i].sealed = chan[a][j].sealed
  <2>1. CASE a = e
    <3>1. chan'[a] = r
      BY <1>1, <1>7, <2>1
    <3>2. i \in 1 .. Len(q) /\ (r[i].type = q[i].type /\ r[i].sealed = q[i].sealed)
      BY <1>5, <1>6, <3>1
    <3> QED BY <2>1, <3>1, <3>2
  <2>2. CASE a # e
    <3>1. chan'[a] = chan[a]
      BY <1>1, <1>7, <2>2
    <3> QED BY <3>1
  <2> QED BY <2>1, <2>2
<1> QED BY <1>1, <1>8, WrapStay

\* The connection breaks.
LEMMA BreakWraps ==
  ASSUME Inv, Exchanged, Wrapped, Break
  PROVE  Wrapped'
<1>1. UNCHANGED s /\ chan = [a \in End |-> chan[a]] /\ "I" \in End /\ "R" \in End
  BY DEF Break, Inv, Ends, End
<1>2. PICK n \in 0 .. Len(chan["I"]), m \in 0 .. Len(chan["R"]) :
        chan' = [chan EXCEPT !["I"] = SubSeq(@, 1, n), !["R"] = SubSeq(@, 1, m)]
  BY DEF Break
<1>3. chan'["I"] = SubSeq(chan["I"], 1, n) /\ chan'["R"] = SubSeq(chan["R"], 1, m)
  BY <1>1, <1>2
<1>4. IsStream(chan["I"]) /\ IsStream(chan["R"])
  BY DEF Exchanged, Carries, GoodFrame, IsStream
<1>5. /\ \A i \in 1 .. Len(chan'["I"]) : i \in 1 .. Len(chan["I"]) /\ chan'["I"][i] = chan["I"][i]
      /\ \A i \in 1 .. Len(chan'["R"]) : i \in 1 .. Len(chan["R"]) /\ chan'["R"][i] = chan["R"][i]
  BY <1>3, <1>4, StreamCut
<1>6. \A a \in End : \A i \in 1 .. Len(chan'[a]) : \E j \in 1 .. Len(chan[a]) :
        chan'[a][i].type = chan[a][j].type /\ chan'[a][i].sealed = chan[a][j].sealed
  BY <1>5 DEF End
<1> QED BY <1>1, <1>6, WrapStay

\* A frame of a later release is sent.
LEMMA ExtendWraps ==
  ASSUME Inv, Exchanged, Wrapped, NEW e \in End, Extend(e)
  PROVE  Wrapped'
<1> DEFINE x == s[e]
           z == [x EXCEPT !.tx = @ + 1]
           g == Frame("extension", "none")
           q == chan[Other(e)]
           p == q \o SealFrames(x, <<g>>)
<1>1. s' = [s EXCEPT ![e] = z] /\ chan' = [chan EXCEPT ![Other(e)] = p]
  <2>1. s' = [s EXCEPT ![e] = z]
    BY DEF Extend
  <2>2. chan' = [chan EXCEPT ![Other(e)] = p]
    BY Zenon DEF Extend
  <2> QED BY <2>1, <2>2
<1>2. Ends /\ IsEnd(x) /\ Other(e) \in End /\ Other(e) # e
  BY DEF Inv, Ends, End, Other
<1>3. z.keys = x.keys /\ z.sealing = x.sealing /\ z.rx = x.rx /\ z.pc = x.pc
  <2> HIDE DEF x
  <2> QED BY <1>2 DEF IsEnd, Local
<1> HIDE DEF z, p
<1>4. s'[e] = z /\ s'[Other(e)] = s[Other(e)] /\ chan'[e] = chan[e] /\ chan'[Other(e)] = p
  BY <1>1, <1>2 DEF Ends
<1>5. Carries(<<g>>, {}) /\ IsSeq(q)
  <2>1. GoodFrame(g) /\ g.type # "offer"
    BY DEF GoodFrame, Frame, IsFrame
  <2>2. IsSeq(q)
    BY DEF Exchanged, Carries, End, Other
  <2> QED BY <2>1, <2>2, CarriesOne
<1> DEFINE out == <<g>>
<1>6. Sent(x, out, q, p)
  BY DEF Sent, p
<1>7. \A i \in 1 .. Len(p) : (\E j \in 1 .. Len(q) : p[i] = q[j]) \/ (~PreAuth(p[i]) => p[i].sealed \in {<<>>, x.keys})
  <2>1. Carries(out, {})
    BY <1>5
  <2> HIDE DEF q, x, out
  <2> QED BY <1>5, <1>6, <2>1, SentUnder
<1>8. /\ x.sealing => x.keys # <<>>
      /\ Handshaking(x) => x.rx = 0
      /\ x.sealing /\ x.rx > 0 /\ x.pc # "failed" => x.keys = s[Other(e)].keys
  BY DEF Wrapped, End, Other
<1>9. \A i \in 1 .. Len(chan'[e]) : \E j \in 1 .. Len(chan[e]) : chan'[e][i] = chan[e][j]
  BY <1>4
<1> QED BY <1>3, <1>4, <1>7, <1>8, <1>9, WrapOn

\* The connection has just been opened.
LEMMA InitWraps ==
  ASSUME Init
  PROVE  Wrapped
<1>1. ASSUME NEW e \in End PROVE s[e].rx = 0 /\ ~s[e].sealing
  BY DEF Init, Fresh
<1>2. chan["I"] = <<>> /\ chan["R"] = <<Hello("I")>>
  BY DEF Init, End
<1>3. ASSUME NEW e \in End, NEW i \in 1 .. Len(chan[e]) PROVE PreAuth(chan[e][i])
  <2>1. CASE e = "I"
    BY <1>2, <2>1, StreamNone
  <2>2. CASE e = "R"
    <3> DEFINE g == Hello("I")
    <3>1. g.type = "hello"
      BY FramesAre DEF Hello
    <3> HIDE DEF g
    <3>2. chan[e] = <<g>> /\ Len(<<g>>) = 1 /\ <<g>>[1] = g
      BY <1>2, <2>2 DEF g
    <3>3. i = 1
      BY <3>2
    <3> QED BY <3>1, <3>2, <3>3 DEF PreAuth
  <2> QED BY <2>1, <2>2 DEF End
<1> QED BY <1>1, <1>3 DEF Wrapped

\* Every step keeps what is sealed.
LEMMA StepWraps ==
  ASSUME Inv, Exchanged, Wrapped, [Next]_vars
  PROVE  Wrapped'
<1>1. CASE UNCHANGED vars
  <2>1. UNCHANGED <<s, chan>>
    BY <1>1 DEF vars
  <2> QED BY <2>1, WrapStay
<1>2. CASE Break
  BY <1>2, BreakWraps
<1>3. ASSUME NEW e \in End, Receive(e) PROVE Wrapped'
  BY <1>3, ShakeWraps, OpenWraps
<1>4. ASSUME NEW e \in End, Eof(e) \/ Corrupt(e) \/ Extend(e) PROVE Wrapped'
  BY <1>4, CloseWraps, CorruptWraps, ExtendWraps
<1> QED
  BY <1>1, <1>2, <1>3, <1>4 DEF Next

\* Two ends through the handshake saw the same HELLO frames, have the same secrets
\* and version, and each other; what either accepts sealed is sealed under the keys
\* that both have.  The version in the header of a proof may have been changed.
THEOREM OneSession == Spec => []SameSession
<1>1. Inv /\ Wrapped => SameSession
  <2> SUFFICES ASSUME Inv, Wrapped, \A e \in End : s[e].keys # <<>>
               PROVE  /\ s["I"].hellos = s["R"].hellos
                      /\ s["I"].keys.prk = s["R"].keys.prk
                      /\ s["I"].version = s["R"].version
                      /\ \A e \in End : cfg.expect[e] = cfg.id[Other(e)]
                      /\ \A e \in End : s[e].sealing /\ s[e].rx > 0 /\ s[e].pc # "failed" => s["I"].keys = s["R"].keys
    BY DEF SameSession
  <2>1. s["I"].keys # <<>> /\ s["R"].keys # <<>>
    BY DEF End
  <2>2. /\ s["I"].hellos # <<>> /\ s["R"].hellos = s["I"].hellos
        /\ KdfHandshake("R", s["R"].hellos) = KdfHandshake("I", s["I"].hellos)
        /\ s["R"].keys.prk = KdfHandshake("R", s["R"].hellos)
        /\ s["I"].keys.prk = KdfHandshake("I", s["I"].hellos)
        /\ cfg.expect["R"] = cfg.id["I"] /\ cfg.expect["I"] = cfg.id["R"]
    BY <2>1 DEF Inv, RespondsTo, Initiates
  <2>3. s["I"].version = s["R"].version
    BY <2>2 DEF Inv, Hellos
  <2>4. \A e \in End : cfg.expect[e] = cfg.id[Other(e)]
    BY <2>2 DEF End, Other
  <2>5. \A e \in End : s[e].sealing /\ s[e].rx > 0 /\ s[e].pc # "failed" => s["I"].keys = s["R"].keys
    BY DEF Wrapped
  <2> QED BY <2>2, <2>3, <2>4, <2>5
<1>2. Init => Wrapped
  BY InitWraps
<1>3. Inv /\ Exchanged /\ Wrapped /\ [Next]_vars => Wrapped'
  BY StepWraps
<1> QED
  BY <1>1, <1>2, <1>3, WireInvariance, ExchangeInvariance, PTL DEF Spec
=============================================================================

-------------------------------- MODULE Wire --------------------------------
(***************************************************************************)
(* Wire protocol v1 of crates/ferry-proto, frame by frame: the handshake    *)
(* and key schedule of secure.rs, and run_engine() of engine.rs, by which   *)
(* two devices compare any number of folders, pull what they lack by items  *)
(* or by whole packs, compare again and record what they agree on.  An end  *)
(* acts when it reads a frame: it processes it and writes frames until it   *)
(* has to read again.  Connections break and bytes change on the way.       *)
(***************************************************************************)
EXTENDS Integers, Sequences, FiniteSets, SequencesExt, FiniteSetsExt

CONSTANTS
    Folder,         \* folder identifiers
    Blob,           \* pairs of a kind ("manifest", "node", "chunk") and a name
    Refs,           \* the blobs that a blob names, a function
    Cases,          \* the configurations of the two ends
    MaxRows,        \* IndexAdvert::MAX_ROWS
    MaxAdvertRows,  \* MAX_ADVERT_ROWS_TOTAL
    MaxRequest,     \* MAX_REQUEST_ITEMS
    MaxBatch,       \* MAX_BATCH_ITEMS
    MaxRetries,     \* EngineConfig::max_retries
    MaxFaults,      \* bound: frames changed, connections broken, extension frames
    NoManifest, NoFolder

ASSUME WireAssumption ==
    /\ MaxRows \in Nat \ {0} /\ MaxRequest \in Nat \ {0} /\ MaxBatch \in Nat \ {0}
    /\ MaxAdvertRows \in Nat /\ MaxRetries \in Nat /\ MaxFaults \in Nat
    /\ IsFiniteSet(Blob) /\ Refs \in [Blob -> SUBSET Blob]
    /\ NoManifest \notin Blob /\ NoFolder \notin Folder

VARIABLES
    cfg,    \* EngineConfig of both ends, chosen at the start
    chan,   \* the frames on their way to each end
    s,      \* each end's locals
    store,  \* each end's stores: the blobs it can read, by folder
    agreed, \* each end's AgreementLedger: the manifest agreed on, by folder
    broken, \* the connection is lost
    faults  \* what the environment did

vars == <<cfg, chan, s, store, agreed, broken, faults>>

End == {"I", "R"}
Other(e) == IF e = "I" THEN "R" ELSE "I"

\* A manifest names the root node, a node names nodes and chunks.
Kind(k) == {b \in Blob : b[1] = k}
ASSUME RefsAssumption ==
    /\ Blob = Kind("manifest") \cup Kind("node") \cup Kind("chunk")
    /\ \A b \in Kind("manifest") : Refs[b] # {} /\ Refs[b] \subseteq Kind("node")
    /\ \A b \in Kind("node") : Refs[b] \subseteq Kind("node") \cup Kind("chunk")
    /\ \A b \in Kind("chunk") : Refs[b] = {}

\* An end is configured with folders that exist, none of them twice, and with stores
\* and packs of blobs.
ASSUME CasesAssumption ==
    \A c \in Cases, e \in End :
      /\ c.folders[e] \in Seq(Folder) /\ IsInjective(c.folders[e])
      /\ c.cur[e] \in [Folder -> Kind("manifest") \cup {NoManifest}]
      /\ c.store = [a \in End |-> c.store[a]] /\ c.store[e] \in [Folder -> SUBSET Blob]
      /\ \A f \in Folder : /\ IsFiniteSet(c.packs[e][f])
                            /\ \A p \in c.packs[e][f] : p.blobs \subseteq Blob

-----------------------------------------------------------------------------
(* Frames.                                                                  *)

\* A sealed frame names the keys it is sealed under.
Frame(type, v) == [type |-> type, v |-> v, sealed |-> <<>>, seq |-> 0, bad |-> FALSE]

KNOWN_TYPES == {"hello", "hello_ack", "auth_init", "auth_confirm", "offer", "advert",
                "request_items", "request_packs", "item_batch", "pack_item", "bye"}

Hello(e) == Frame("hello", [version |-> cfg.version[e], agreed |-> cfg.version[e], flags |-> cfg.flags[e],
                            eph |-> <<"eph", e>>, stat |-> cfg.id[e], nonce |-> "fresh"])
HelloAck(e, v) == [Hello(e) EXCEPT !.type = "hello_ack", !.v.agreed = v]
\* FrameBody::version is in the header of every frame; of these two it goes into the
\* final transcript and nothing checks it.
AuthProof(type, version, proof) == Frame(type, [version |-> version, proof |-> proof])
FolderOffer(f, man) == Frame("offer", [folder |-> f, man |-> man])
Sentinel == FolderOffer(NoFolder, NoManifest)
IndexAdvert(rows, more) == Frame("advert", [rows |-> rows, more |-> more])
RequestItems(f, items) == Frame("request_items", [folder |-> f, items |-> items])
RequestPacks(f, packs) == Frame("request_packs", [folder |-> f, packs |-> packs])
ItemBatch(items) == Frame("item_batch", items)
PackItem(pack) == Frame("pack_item", pack)
Bye(reason) == Frame("bye", reason)

\* Consecutive pieces of at most n elements of a set.
Pieces(set, n) ==
    LET q == SetToSeq(set)
        k == (Len(q) + n - 1) \div n
    IN  [i \in 1 .. k |-> {q[j] : j \in ((i - 1) * n + 1) .. (IF i * n < Len(q) THEN i * n ELSE Len(q))}]

-----------------------------------------------------------------------------
(* The key schedule, symbolically: a key is what went into its derivation.   *)

\* negotiate(): majors must match, the lower minor wins.
Compatible(a, b) == a[1] = b[1]
Negotiate(a, b) == IF a[2] <= b[2] THEN a ELSE b

Dh(secret, public) == {secret, public}

\* Mutant: the keys are not bound to the transcript.
KdfHandshakeUnbound(e, hellos) ==
    LET peer == hellos[IF e = "I" THEN 2 ELSE 1].v
    IN  [th |-> <<>>, e1 |-> Dh(<<"eph", e>>, peer.eph), m1 |-> {}, m2 |-> {}]

\* transcript_hash() of the hello frames as this end saw them, and the three
\* shared secrets of kdf_handshake().
KdfHandshake(e, hellos) ==
    LET peer == hellos[IF e = "I" THEN 2 ELSE 1].v
    IN  [th |-> hellos,
         e1 |-> Dh(<<"eph", e>>, peer.eph),
         m1 |-> IF e = "I" THEN Dh(<<"stat", cfg.id[e]>>, peer.eph) ELSE Dh(<<"eph", e>>, <<"stat", peer.stat>>),
         m2 |-> IF e = "I" THEN Dh(<<"eph", e>>, <<"stat", peer.stat>>) ELSE Dh(<<"stat", cfg.id[e]>>, peer.eph)]

\* traffic_keys() over the final transcript, one key for each direction.
TrafficKeys(e, hellos, auths) == [prk |-> KdfHandshake(e, hellos), final |-> hellos \o auths]

SealAuth(e, dir, hellos) == [dir |-> dir, key |-> KdfHandshake(e, hellos), id |-> cfg.id[e]]
OpenAuth(e, dir, hellos, f) == ~f.bad /\ f.v.proof.dir = dir /\ f.v.proof.key = KdfHandshake(e, hellos)

\* send_frame(): sealed under the sender's keys and counter, or plain in development
\* mode; send_preauth() never seals.
PreAuth(f) == f.type \in {"hello", "hello_ack", "auth_init", "auth_confirm"}
Cipher(x) == IF x.sealing THEN x.keys ELSE <<>>
SealFrames(x, frames) ==
    [i \in DOMAIN frames |-> IF PreAuth(frames[i]) THEN frames[i]
                             ELSE [frames[i] EXCEPT !.sealed = Cipher(x), !.seq = x.tx + i - 1]]
Sealed(frames) == Len(SelectSeq(frames, LAMBDA f : ~PreAuth(f)))

\* open_frame() and FrameBody::parse() of a frame after the handshake; the frame
\* has already taken its slot of the counter.
OpenError(x, f) ==
    CASE x.sealing /\ (f.sealed # x.keys \/ f.bad \/ f.seq # x.rx - 1) -> "auth"
      [] ~x.sealing /\ f.sealed # <<>> -> "violation"
      [] OTHER -> "none"

\* recv_frame(): an unknown type is skipped only if the peer has a higher minor
\* version and flags this end does not know.
Skips(x) == x.peerMax[1] = 1 /\ x.peerMax[2] > 0 /\ x.peerFlags \ {"extension"} # {}

-----------------------------------------------------------------------------
(* What an end does next: its locals x and the frames it writes.            *)

Does(x, out) == [x |-> x, out |-> out, agree |-> <<>>]

Fails(x, err) == Does([x EXCEPT !.pc = "failed", !.err = err], <<>>)

\* abort() and the error path of establish(): errors but Io and ByeReceived are
\* announced with a BYE.
Abort(x, err) ==
    LET reason == CASE err \in {"version", "violation", "auth", "limit"} -> err
                    [] err = "identity" -> "auth"
                    [] OTHER -> "internal"
    IN  [Fails(x, err) EXCEPT !.out = <<Bye(reason)>>]

\* Folders of this end, and the manifest it announces for one.
Knows(x, f) == f \in ToSet(cfg.folders[x.me])
EffectiveManifest(x, f) == IF Knows(x, f) THEN x.after[f] ELSE NoManifest

\* The folder of a set that comes first in the configuration: a loop over folders
\* takes them in this order; x.at is the one it has come to.
First(x, fs) ==
    LET own == cfg.folders[x.me]
    IN  own[CHOOSE i \in DOMAIN own : own[i] \in fs /\ \A j \in 1 .. i - 1 : own[j] \notin fs]

\* send_my_adverts(): the location table in pieces, at least one frame.
Rows(e, f) == UNION {{<<b, p.name>> : b \in p.blobs} : p \in cfg.packs[e][f]}
SendMyAdverts(x, f) ==
    LET parts == IF Knows(x, f) THEN Pieces(Rows(x.me, f), MaxRows) ELSE <<>>
    IN  IF parts = <<>> THEN <<IndexAdvert({}, FALSE)>>
        ELSE [i \in DOMAIN parts |-> IndexAdvert(parts[i], i # Len(parts))]

\* announce() and echo().
Announce(x, f) == <<FolderOffer(f, EffectiveManifest(x, f))>> \o (IF x.round = 1 THEN SendMyAdverts(x, f) ELSE <<>>)
AnnounceNext(x) == LET f == First(x, x.todo)
                   IN  Does([x EXCEPT !.pc = "echo", !.at = f, !.todo = @ \ {f}], Announce(x, f))

-----------------------------------------------------------------------------
(* Pulling.                                                                 *)

Target(x) == x.peerf[x.at]
Stored(x) == store[x.me][x.at]

\* The next request of fetch_blobs(): a group of what is outstanding.
Ask(x) == LET group == Head(Pieces(x.left, MaxRequest))
          IN  Does([x EXCEPT !.pc = "batch", !.left = @ \ group], <<RequestItems(x.at, group)>>)

Fetch(x, phase, want) == [x EXCEPT !.phase = phase, !.want = want, !.left = want, !.got = {}, !.tries = 0]

PullNeeded(mine, theirs) == theirs # NoManifest /\ mine # theirs

\* Mutant: the other end's stage is judged as if it were this end's.
StageNeededMine(x, whose) ==
    {f \in ToSet(cfg.folders[x.me]) : f \in DOMAIN x.peerf /\ PullNeeded(cfg.cur[x.me][f], x.peerf[f])}

\* stage_needed(): the folders whose stage of the given role takes place, as this
\* end sees it.
StageNeeded(x, whose) ==
    {f \in ToSet(cfg.folders[x.me]) \cap DOMAIN x.peerf :
        IF whose = x.me THEN PullNeeded(cfg.cur[x.me][f], x.peerf[f])
                        ELSE PullNeeded(x.peerf[f], cfg.cur[x.me][f])}

\* The start of exchange_offers().
StartRound(x, r) ==
    LET y == [x EXCEPT !.round = r, !.peerf = <<>>, !.todo = ToSet(cfg.folders[x.me])]
    IN  IF x.me = "R" THEN Does([y EXCEPT !.pc = "offer"], <<>>)
        ELSE IF y.todo = {} THEN Does([y EXCEPT !.pc = "offer"], <<Sentinel>>)
        ELSE AnnounceNext(y)

\* run_stage(): the pull of the next folder, or the marker that ends the stage,
\* after which the initiator may have to serve.
RunStage(x) ==
    IF x.pulls # {}
    THEN LET f == First(x, x.pulls)
             y == [x EXCEPT !.at = f, !.pulls = @ \ {f}]
         IN  Ask(Fetch(y, "manifest", {Target(y)}))
    ELSE LET marker == RequestItems(NoFolder, {})
             next == IF x.me = "I" /\ StageNeeded(x, "R") # {}
                     THEN Does([x EXCEPT !.pc = "serve"], <<>>)
                     ELSE StartRound(x, 2)
         IN  [next EXCEPT !.out = <<marker>> \o @]

\* folder_phases() once the first offers are exchanged.
FolderPhases(x) ==
    LET mine == StageNeeded(x, x.me)
        theirs == StageNeeded(x, Other(x.me))
    IN  IF x.me = "R" /\ theirs # {} THEN Does([x EXCEPT !.pc = "serve"], <<>>)
        ELSE IF mine # {} THEN RunStage([x EXCEPT !.pulls = mine])
        ELSE IF theirs # {} THEN Does([x EXCEPT !.pc = "serve"], <<>>)
        ELSE StartRound(x, 2)

\* The end of serve_stage().
Served(x) == IF x.me = "R" /\ StageNeeded(x, "R") # {}
             THEN RunStage([x EXCEPT !.pulls = StageNeeded(x, "R")])
             ELSE StartRound(x, 2)

\* One folder is pulled: an end without a manifest takes the peer's.
FolderPulled(x) ==
    LET f == x.at
        y == [x EXCEPT !.after[f] = IF cfg.cur[x.me][f] = NoManifest THEN Target(x) ELSE @]
    IN  RunStage(y)

\* fetch_via_packs(): the packs that hold enough of what is wanted.
WorthPacks(x) ==
    LET min == IF cfg.granularity[x.me] = "auto" THEN 2 ELSE 1
        named == {r[2] : r \in {q \in x.adv[x.at] : q[1] \in x.want}}
    IN  IF cfg.granularity[x.me] = "items" THEN {}
        ELSE {p \in named : Cardinality({b \in x.want : <<b, p>> \in x.adv[x.at]}) >= min}

FetchChunks(x, want) == IF want = {} THEN FolderPulled(x) ELSE Ask(Fetch(x, "chunks", want))

\* One request for all of them: there are fewer packs here than MAX_REQUEST_PACKS,
\* and fewer frames in an answer than the round may have.
FetchViaPacks(x, want) ==
    LET y == Fetch(x, "packs", want)
    IN  IF want = {} \/ WorthPacks(y) = {} THEN FetchChunks(x, want)
        ELSE Does([y EXCEPT !.pc = "packs"], <<RequestPacks(x.at, WorthPacks(y))>>)

\* pull_folder(): the manifest, the nodes breadth first, then the chunks.
PullFolder(x) ==
    LET named == UNION {Refs[b] : b \in x.want}
        nodes == {b \in named : b[1] = "node"} \ x.enq
        chunks == x.chunks \cup {b \in named : b[1] = "chunk"}
        y == [x EXCEPT !.enq = @ \cup nodes, !.chunks = chunks]
    IN  CASE x.phase = "manifest" -> Ask([Fetch(x, "nodes", named) EXCEPT !.enq = named, !.chunks = {}])
          [] x.phase = "nodes" /\ nodes # {} -> Ask(Fetch(y, "nodes", nodes))
          [] x.phase = "nodes" /\ nodes = {} -> FetchViaPacks(y, chunks \ Stored(x))
          [] OTHER -> FolderPulled(x)

\* The end of one answer in fetch_blobs(): the next group, the next try for what
\* was rejected or not served, or on with the folder.
FetchBlobs(x) ==
    LET open == x.want \ x.got
    IN  CASE x.left # {} -> Ask(x)
          [] x.left = {} /\ open = {} -> PullFolder(x)
          [] x.left = {} /\ open # {} /\ x.tries < MaxRetries -> Ask([x EXCEPT !.left = open, !.tries = @ + 1])
          [] OTHER -> Abort(x, "missing")

\* Mutant: an item counts as received although its bytes, which the store names
\* by their own hash, are not the ones asked for.
ReadItemsUnverified(x, items) ==
    [x EXCEPT !.put = {i.blob : i \in {j \in items : ~j.bad}}, !.got = @ \cup {i.blob : i \in items}]

\* read_item_batches(): what matches its hash is stored, the rest is rejected.
ReadItems(x, items) ==
    LET good == {i.blob : i \in {j \in items : ~j.bad}}
    IN  [x EXCEPT !.put = good, !.got = @ \cup good, !.rejections = @ + Cardinality({j \in items : j.bad})]

\* The answer to a request for packs.
ReadPack(x, p) ==
    IF p.bad THEN [x EXCEPT !.rejections = @ + 1]
    ELSE [x EXCEPT !.put = p.blobs,
                   !.got = @ \cup {b \in x.want : <<b, p.name>> \in x.adv[x.at] /\ b \in p.blobs \cup Stored(x)}]

-----------------------------------------------------------------------------
(* Serving.                                                                 *)

\* Mutant: the empty batch is left out when nothing was found.
ServeItemsBare(x, f, items) ==
    LET parts == Pieces(items \cap store[x.me][f], MaxBatch)
    IN  [i \in DOMAIN parts |-> ItemBatch({[blob |-> b, bad |-> FALSE] : b \in parts[i]})]
          \o (IF parts = <<>> THEN <<>> ELSE <<ItemBatch({})>>)

\* serve_items() and serve_packs(): what is there, then the empty batch.
ServeItems(x, f, items) ==
    LET parts == Pieces(items \cap store[x.me][f], MaxBatch)
    IN  [i \in DOMAIN parts |-> ItemBatch({[blob |-> b, bad |-> FALSE] : b \in parts[i]})] \o <<ItemBatch({})>>

ServePacks(x, f, names) ==
    LET found == SetToSeq({p \in cfg.packs[x.me][f] : p.name \in names /\ p.blobs \subseteq store[x.me][f]})
    IN  [i \in DOMAIN found |-> PackItem([name |-> found[i].name, blobs |-> found[i].blobs, bad |-> FALSE])]
          \o <<ItemBatch({})>>

-----------------------------------------------------------------------------
(* Offers.                                                                  *)

\* Mutant: agreement on the offers of the first round.
FinishAfterFirst(x) ==
    LET same == {f \in ToSet(cfg.folders[x.me]) \cap DOMAIN x.remote : x.after[f] # NoManifest /\ x.after[f] = x.remote[f]}
        y == [x EXCEPT !.pc = "bye"]
    IN  [Does(y, IF x.me = "I" THEN <<Bye("normal")>> ELSE <<>>) EXCEPT !.agree = [f \in same |-> x.after[f]]]

\* finish_after_sync(): equal manifests are recorded as agreed; run_engine() then
\* says goodbye.
FinishAfterSync(x) ==
    LET same == {f \in ToSet(cfg.folders[x.me]) \cap DOMAIN x.peerf : x.after[f] # NoManifest /\ x.after[f] = x.peerf[f]}
        y == [x EXCEPT !.pc = "bye"]
    IN  [Does(y, IF x.me = "I" THEN <<Bye("normal")>> ELSE <<>>) EXCEPT !.agree = [f \in same |-> x.after[f]]]

EndRound(x) == IF x.round = 1 THEN FolderPhases([x EXCEPT !.remote = x.peerf]) ELSE FinishAfterSync(x)

\* The responder announces what the initiator did not.
OffersLeft(x) ==
    IF x.todo # {} THEN AnnounceNext(x)
    ELSE IF x.me = "I" THEN Does([x EXCEPT !.pc = "offer"], <<Sentinel>>)
    ELSE LET next == EndRound(x) IN [next EXCEPT !.out = <<Sentinel>> \o @]

Noted(x) == LET f == x.offer.folder
            IN  [x EXCEPT !.peerf = [g \in DOMAIN @ \cup {f} |-> IF g = f THEN x.offer.man ELSE @[g]],
                          !.adv = IF x.round = 2 THEN @ ELSE [g \in DOMAIN @ \cup {f} |-> IF g = f THEN x.rows ELSE @[g]]]

\* consume_announcement() and the echo; consume_echo() and the next announcement.
ConsumeAnnouncement(x) == Does([Noted(x) EXCEPT !.pc = "offer"], Announce(x, x.offer.folder))
ConsumeEcho(x) == OffersLeft(Noted(x))

Consume(x) == IF x.pc \in {"echo", "echo_advert"} THEN ConsumeEcho(x) ELSE ConsumeAnnouncement(x)

\* The folders that the initiator did not announce.
Unseen(x) == ToSet(cfg.folders[x.me]) \ DOMAIN x.peerf

\* expect_offer(): the sentinel ends the list of the peer.
OnOffer(x, offer) ==
    LET y == [x EXCEPT !.offer = offer, !.rows = {}, !.count = 0]
    IN  IF x.pc = "offer" /\ offer.folder = NoFolder
        THEN IF x.me = "I" THEN EndRound(x) ELSE OffersLeft([x EXCEPT !.todo = Unseen(x)])
        ELSE IF x.round = 1 THEN Does([y EXCEPT !.pc = IF x.pc = "echo" THEN "echo_advert" ELSE "offer_advert"], <<>>)
        ELSE Consume(y)

\* recv_advert_map().
OnAdvert(x, a) ==
    LET y == [x EXCEPT !.rows = @ \cup a.rows, !.count = @ + Cardinality(a.rows)]
    IN  CASE y.count > MaxAdvertRows -> Abort(x, "limit")
          [] y.count <= MaxAdvertRows /\ a.more -> Does(y, <<>>)
          [] OTHER -> Consume(y)

-----------------------------------------------------------------------------
(* The handshake.                                                           *)

Established(x, auths) ==
    [x EXCEPT !.keys = TrafficKeys(x.me, x.hellos, auths), !.sealing = cfg.encryption[x.me]]

\* The responder reads HELLO.
OnHello(x, f) ==
    IF f.type # "hello" THEN Abort(x, "violation")
    ELSE IF f.v.stat # cfg.expect[x.me] THEN Abort(x, "identity")
    ELSE IF ~Compatible(cfg.version[x.me], f.v.version) THEN Abort(x, "version")
    ELSE LET v == Negotiate(cfg.version[x.me], f.v.version)
             ack == HelloAck(x.me, v)
         IN  Does([x EXCEPT !.pc = "auth", !.version = v, !.peerMax = f.v.version, !.peerFlags = f.v.flags,
                            !.hellos = <<f, ack>>], <<ack>>)

\* The initiator reads HELLO_ACK and proves that it has its key.
OnHelloAck(x, f) ==
    IF f.type # "hello_ack" THEN Abort(x, "violation")
    ELSE IF f.v.stat # cfg.expect[x.me] THEN Abort(x, "identity")
    ELSE IF ~Compatible(cfg.version[x.me], f.v.version) THEN Abort(x, "version")
    ELSE IF f.v.agreed # Negotiate(cfg.version[x.me], f.v.version) THEN Abort(x, "violation")
    ELSE LET hellos == <<Hello(x.me), f>>
             init == AuthProof("auth_init", f.v.agreed, SealAuth(x.me, "i2r", hellos))
         IN  Does([x EXCEPT !.pc = "confirm", !.version = f.v.agreed, !.peerMax = f.v.version,
                            !.peerFlags = f.v.flags, !.hellos = hellos, !.auth = init], <<init>>)

\* The responder checks the initiator's proof and answers with its own.
OnAuthInit(x, f) ==
    LET confirm == AuthProof("auth_confirm", x.version, SealAuth(x.me, "r2i", x.hellos))
        next == StartRound(Established(x, <<f, confirm>>), 1)
    IN  IF f.type # "auth_init" THEN Abort(x, "violation")
        ELSE IF ~OpenAuth(x.me, "i2r", x.hellos, f) THEN Abort(x, "auth")
        ELSE IF f.v.proof.id # cfg.expect[x.me] THEN Abort(x, "identity")
        ELSE [next EXCEPT !.out = <<confirm>> \o @]

\* The initiator checks the responder's proof; the first offers follow.
OnAuthConfirm(x, f) ==
    IF f.type # "auth_confirm" THEN Abort(x, "violation")
    ELSE IF ~OpenAuth(x.me, "r2i", x.hellos, f) THEN Abort(x, "auth")
    ELSE IF f.v.proof.id # cfg.expect[x.me] THEN Abort(x, "identity")
    ELSE StartRound(Established(x, <<x.auth, f>>), 1)

Handshaking(x) == x.pc \in {"hello", "ack", "auth", "confirm"}

\* recv_preauth() and the match on the role in handshake_internal().
Handshake(x, f) ==
    IF f.type = "bye" THEN Fails(x, "bye")
    ELSE CASE x.pc = "hello" -> OnHello(x, f)
           [] x.pc = "ack" -> OnHelloAck(x, f)
           [] x.pc = "auth" -> OnAuthInit(x, f)
           [] x.pc = "confirm" -> OnAuthConfirm(x, f)

-----------------------------------------------------------------------------
(* One frame after the handshake.                                           *)

\* serve_stage(): the empty request ends it.
OnRequest(x, f) ==
    IF f.type = "request_items" /\ f.v.items = {} THEN Served(x)
    ELSE IF ~Knows(x, f.v.folder) THEN Abort(x, "unknown_folder")
    ELSE Does(x, IF f.type = "request_items" THEN ServeItems(x, f.v.folder, f.v.items)
                                             ELSE ServePacks(x, f.v.folder, f.v.packs))

OnPacks(x, f) ==
    CASE f.type = "pack_item" -> Does(ReadPack(x, f.v), <<>>)
      [] f.type = "item_batch" /\ f.v = {} -> FetchChunks(x, x.want \ x.got)
      [] OTHER -> Abort(x, "violation")

\* recv_expect_bye(); the responder mirrors it.
OnBye(x, f) == IF f.v # "normal" THEN Fails(x, "bye")
               ELSE Does([x EXCEPT !.pc = "done"], IF x.me = "R" THEN <<Bye("normal")>> ELSE <<>>)

\* The types that an end waits for.
Expected(x) ==
    CASE x.pc \in {"offer", "echo"} -> {"offer"}
      [] x.pc \in {"offer_advert", "echo_advert"} -> {"advert"}
      [] x.pc = "serve" -> {"request_items", "request_packs"}
      [] x.pc = "batch" -> {"item_batch"}
      [] x.pc = "packs" -> {"pack_item", "item_batch"}
      [] x.pc = "bye" -> {"bye"}

Handle(x, f) ==
    IF OpenError(x, f) # "none" THEN Abort(x, OpenError(x, f))
    ELSE IF f.type \notin KNOWN_TYPES /\ Skips(x) THEN Does(x, <<>>)
    ELSE IF f.type \notin Expected(x) THEN Abort(x, "violation")
    ELSE CASE f.type = "offer" -> OnOffer(x, f.v)
           [] f.type = "advert" -> OnAdvert(x, f.v)
           [] f.type = "bye" -> OnBye(x, f)
           [] x.pc = "serve" -> OnRequest(x, f)
           [] x.pc = "batch" -> IF f.v = {} THEN FetchBlobs(x) ELSE Does(ReadItems(x, f.v), <<>>)
           [] x.pc = "packs" -> OnPacks(x, f)

-----------------------------------------------------------------------------
Ended(e) == s[e].pc \in {"done", "failed"}

\* What an end does takes effect: frames go out unless the connection is lost,
\* blobs are stored and agreements written at the end.
Act(e, d, rest) ==
    LET x == d.x
    IN  /\ s' = [s EXCEPT ![e] = [x EXCEPT !.tx = @ + Sealed(d.out), !.put = {}]]
        /\ chan' = [chan EXCEPT ![e] = rest,
                                ![Other(e)] = IF broken THEN @ ELSE @ \o SealFrames(x, d.out)]
        /\ store' = IF x.put = {} THEN store ELSE [store EXCEPT ![e][x.at] = @ \cup x.put]
        /\ agreed' = [agreed EXCEPT ![e] = [f \in Folder |-> IF f \in DOMAIN d.agree THEN d.agree[f] ELSE @[f]]]

Receive(e) ==
    LET x == s[e]
        f == Head(chan[e])
        y == IF Handshaking(x) THEN x ELSE [x EXCEPT !.rx = @ + 1]
    IN  /\ ~Ended(e) /\ chan[e] # <<>>
        /\ \E d \in {IF Handshaking(x) THEN Handshake(x, f) ELSE Handle(y, f)} : Act(e, d, Tail(chan[e]))
        /\ UNCHANGED <<cfg, broken, faults>>

\* The peer has closed its end, or the connection is lost: ProtoError::Io.
Eof(e) ==
    /\ ~Ended(e) /\ chan[e] = <<>>
    /\ broken \/ Ended(Other(e))
    /\ Act(e, Fails(s[e], "io"), <<>>)
    /\ UNCHANGED <<cfg, broken, faults>>

-----------------------------------------------------------------------------
(* The environment.                                                         *)

\* A frame with one part changed, as far as a receiver can tell frames apart.
Changed(f) ==
    IF f.type \in {"hello", "hello_ack"} THEN
        {[f EXCEPT !.v.flags = @ \cup {"changed"}], [f EXCEPT !.v.nonce = "changed"],
         [f EXCEPT !.v.version = <<1, 7>>], [f EXCEPT !.v.stat = "changed"]}
    ELSE IF f.type \in {"auth_init", "auth_confirm"} THEN {[f EXCEPT !.bad = TRUE], [f EXCEPT !.v.version = <<1, 7>>]}
    ELSE IF f.sealed # <<>> THEN {[f EXCEPT !.bad = TRUE]}
    ELSE IF f.type = "item_batch" THEN {[f EXCEPT !.v = {[i EXCEPT !.bad = TRUE] : i \in f.v}]}
    ELSE IF f.type = "pack_item" THEN {[f EXCEPT !.v.bad = TRUE]}
    ELSE {}

Corrupt(e) ==
    /\ faults < MaxFaults /\ chan[e] # <<>> /\ ~Ended(e)
    /\ \E f \in Changed(Head(chan[e])) : chan' = [chan EXCEPT ![e] = <<f>> \o Tail(@)]
    /\ faults' = faults + 1
    /\ UNCHANGED <<cfg, s, store, agreed, broken>>

\* The connection breaks; what is on its way may still arrive.
Break ==
    /\ faults < MaxFaults /\ ~broken
    /\ broken' = TRUE
    /\ \E i \in 0 .. Len(chan["I"]), r \in 0 .. Len(chan["R"]) :
         chan' = [chan EXCEPT !["I"] = SubSeq(@, 1, i), !["R"] = SubSeq(@, 1, r)]
    /\ faults' = faults + 1
    /\ UNCHANGED <<cfg, s, store, agreed>>

\* A later release of ferry sends a frame that this one does not know.
Extend(e) ==
    /\ faults < MaxFaults
    /\ cfg.version[e][2] > 0 /\ cfg.flags[e] # {"extension"}
    /\ ~broken /\ ~Ended(e) /\ ~Handshaking(s[e])
    /\ chan' = [chan EXCEPT ![Other(e)] = @ \o SealFrames(s[e], <<Frame("extension", "none")>>)]
    /\ s' = [s EXCEPT ![e].tx = @ + 1]
    /\ faults' = faults + 1
    /\ UNCHANGED <<cfg, store, agreed, broken>>

Fresh(c, e) ==
    [me |-> e, pc |-> IF e = "I" THEN "ack" ELSE "hello", err |-> "none", round |-> 0,
     version |-> c.version[e], peerMax |-> c.version[e], peerFlags |-> {},
     hellos |-> <<>>, auth |-> <<>>, keys |-> <<>>, sealing |-> FALSE, tx |-> 0, rx |-> 0,
     at |-> NoFolder, todo |-> {}, offer |-> <<>>, rows |-> {}, count |-> 0, peerf |-> <<>>, adv |-> <<>>, remote |-> <<>>,
     after |-> c.cur[e], pulls |-> {}, phase |-> "none", want |-> {}, left |-> {}, got |-> {}, tries |-> 0,
     enq |-> {}, chunks |-> {}, put |-> {}, rejections |-> 0]

Init ==
    /\ cfg \in Cases
    /\ s = [e \in End |-> Fresh(cfg, e)]
    /\ chan = [e \in End |-> IF e = "R" THEN <<Hello("I")>> ELSE <<>>]
    /\ store = cfg.store
    /\ agreed = [e \in End |-> [f \in Folder |-> NoManifest]]
    /\ broken = FALSE
    /\ faults = 0

Next == Break \/ \E e \in End : Receive(e) \/ Eof(e) \/ Corrupt(e) \/ Extend(e)

\* Each end is a thread that reads as soon as it can.
Fairness == \A e \in End : WF_vars(Receive(e)) /\ WF_vars(Eof(e))

Spec == Init /\ [][Next]_vars /\ Fairness

-----------------------------------------------------------------------------
(* What is checked.                                                         *)

\* The blobs a manifest needs: those in every set that holds it and, with a blob,
\* what that blob names.
Closed == {S \in SUBSET Blob : \A b \in S : Refs[b] \subseteq S}
Needs(man) == {b \in Blob : \A S \in Closed : man \in S => b \in S}

\* Every variable has its type, and an end that waits for a frame waits for a
\* folder and blobs that exist.
TypeOK ==
    /\ cfg \in Cases
    /\ \A e \in End : /\ store[e] \in [Folder -> SUBSET Blob]
                      /\ agreed[e] \in [Folder -> Blob \cup {NoManifest}]
                      /\ s[e].want \subseteq Blob /\ s[e].left \subseteq s[e].want
                      /\ s[e].tries \in 0 .. MaxRetries
                      /\ s[e].pc \in {"batch", "packs"} => s[e].at \in Folder
    /\ broken \in BOOLEAN /\ faults \in 0 .. MaxFaults

\* What the two ends were configured with fits together.
Fit(c) == /\ Compatible(c.version["I"], c.version["R"])
          /\ \A e \in End : c.expect[e] = c.id[Other(e)]
          /\ c.encryption["I"] = c.encryption["R"]
          /\ \A e \in End, f \in Folder : Cardinality(Rows(e, f)) <= MaxAdvertRows
          /\ \A e \in End, f \in Folder : c.cur[e][f] # NoManifest => Needs(c.cur[e][f]) \subseteq c.store[e][f]

\* What an end announces for a folder, and whether an end takes a pull stage of p to
\* be needed: stage_needed() asks about the folders of the end that judges.
OfferOf(c, e, f) == IF f \in ToSet(c.folders[e]) THEN c.cur[e][f] ELSE NoManifest
TakesPlace(c, e, p) ==
    \E f \in ToSet(c.folders[e]) : PullNeeded(OfferOf(c, p, f), OfferOf(c, Other(p), f))

\* Both ends judge alike.  They do not when one has a folder with a manifest that the
\* other does not have, and the other has nothing else to pull: the first then waits
\* for requests and the second for offers (WireStages.cfg shows it).
SeenAlike(c) == \A p \in End : TakesPlace(c, "I", p) <=> TakesPlace(c, "R", p)

\* docs/store-format.md says that the pull stages are "serialized by ROLE so both
\* sides agree without extra messages", and that "no phase can deadlock".
NoPhaseDeadlocks == ~(~broken /\ \A e \in End : ~Ended(e) /\ chan[e] = <<>>)

\* Two ends that fit, judge the stages alike and are left alone stay in step through
\* every phase of run_engine(): neither fails and they never wait for each other,
\* whatever manifests and packs they have.
HonestSucceed ==
    (faults = 0 /\ Fit(cfg) /\ SeenAlike(cfg)) => NoPhaseDeadlocks /\ \A e \in End : s[e].pc # "failed"

\* One session: once both ends are through the handshake they have seen the same
\* HELLO frames, so that neither was given another version or other flags of its
\* peer, have the same secrets, the same version and each other.  Their traffic keys
\* may still differ, by the version in the header of a proof; then no sealed frame
\* is ever accepted, by either.
SameSession ==
    (\A e \in End : s[e].keys # <<>>)
      => /\ s["I"].hellos = s["R"].hellos
         /\ s["I"].keys.prk = s["R"].keys.prk
         /\ s["I"].version = s["R"].version
         /\ \A e \in End : cfg.expect[e] = cfg.id[Other(e)]
         /\ \A e \in End : s[e].sealing /\ s[e].rx > 0 /\ s[e].pc # "failed" => s["I"].keys = s["R"].keys

\* An agreement is whole: the peer offered that manifest in its second round, and
\* an end that came without a manifest of its own can now read everything below.
AgreedWhole ==
    \A e \in End, f \in Folder :
      agreed[e][f] # NoManifest
        => /\ s[Other(e)].after[f] = agreed[e][f]
           /\ cfg.cur[e][f] = NoManifest => Needs(agreed[e][f]) \subseteq store[e][f]

\* The ends agree on what they agree on, once both have said goodbye.
AgreedMutual == (\A e \in End : s[e].pc = "done") => agreed["I"] = agreed["R"]

\* Every session of two ends that judge the stages alike ends, at both ends, whatever
\* breaks and whether or not they fit.
BothEnd == <>(~SeenAlike(cfg) \/ \A e \in End : Ended(e))
=============================================================================

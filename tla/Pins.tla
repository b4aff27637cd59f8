------------------------------- MODULE Pins --------------------------------
(***************************************************************************)
(* Session pins: the pin record (pin/mod.rs), the ledger of held changes    *)
(* (held.rs), the pin gate and the tail of ConvergenceEngine::converge, the *)
(* conflict log (report.rs), and `ferry pin start|stop|release`, for one    *)
(* folder of the device Self.  The daemon's sync thread, commands that the  *)
(* daemon serves and commands that run in a process of their own share the  *)
(* files of .ferry with no lock between them, and with the collector.       *)
(***************************************************************************)
EXTENDS Collect, SequencesExt

CONSTANTS
    Self,           \* this device
    Command,        \* the `ferry pin` commands that are run, one process each
    Edits,          \* the trees a user may leave behind in the folder
    Offers,         \* the manifests peers offer, whoever made them
    InitialTree,    \* the folder at the start, agreed with every peer
    Scopes,         \* the sets of paths that pins are started for
    Duration,       \* --hours
    MaxLogLines,    \* COMPACT_MAX_LINES
    KeepLogLines,   \* COMPACT_KEEP_LINES
    MaxSessions,    \* bound: sessions of the daemon
    MaxTroubles,    \* bound: edits, ends of the daemon, collections and ticks together
    NoPin, NoManifest

ASSUME PinsAssumption ==
    /\ Self \in Device
    /\ Duration \in Nat /\ KeepLogLines \in Nat /\ MaxLogLines \in Nat
    /\ KeepLogLines <= MaxLogLines
    /\ MaxSessions \in Nat /\ MaxTroubles \in Nat
    /\ "sync" \notin Command
    /\ IsFiniteSet(Path)
    /\ {InitialTree} \cup Edits \subseteq Tree
    /\ Offers \subseteq {m \in Manifest : ValidTree(m.tree)}
    /\ Scopes \subseteq SUBSET Path

Peer == Device \ {Self}
Thread == Command \cup {"sync"}

VARIABLES
    folder,     \* the live tree
    scanned,    \* the tree of the manifest the daemon's sessions offer
    copies,     \* the conflict copies in the folder: path and losing version
    log,        \* conflicts.jsonl
    pin,        \* pin-state.json
    held,       \* held/<author>.jsonl
    agreed,     \* the agreement ledger: a manifest for each device, or NoManifest
    staged,     \* blobs in the open packs of the daemon's store
    daemon,     \* [up, gen]: is it running, and how often was it started
    th,         \* what each thread is doing
    spent,      \* what is used of the bounds
    raced,      \* history: a collection and a session overlapped
    merged      \* history: the manifests of each device that were merged, none of it held

pinVars == <<folder, scanned, copies, log, pin, held, agreed, staged, daemon, th, spent, raced, merged>>
vars == <<collectVars, pinVars>>

EmptyTree == [p \in Path |-> NoEntry]
EmptyLedger == [lines |-> <<>>, torn |-> FALSE, corrupt |-> FALSE]
NoPlan == [materialize |-> {}, quarantine |-> {}]
Idle == [pc |-> "idle", kind |-> "none", own |-> FALSE, peer |-> Self, via |-> Self, local |-> EmptyTree,
         remote |-> NoManifest, base |-> EmptyTree, holds |-> {}, rec |-> NoPin,
         todo |-> {}, plan |-> NoPlan, before |-> EmptyTree, kept |-> <<>>]

-----------------------------------------------------------------------------
(* The pin record.                                                          *)

\* Is the process that the record names still the one that wrote it?
Alive(owner) == \/ owner[1] = "daemon" /\ daemon.up /\ daemon.gen = owner[2]
                \/ owner[1] = "command" /\ th[owner[2]].own /\ th[owner[2]].pc \notin {"idle", "done"}

Holding(rec) == /\ rec # NoPin
                /\ ~rec.released
                /\ clock < rec.expires
                /\ Alive(rec.owner)

\* The gate of HoldConfig::Auto: a pattern covers the path, what is below it
\* and the directories above it.
Covers(scope, p) == \E q \in scope : q = p \/ q \in Ancestors(p) \/ p \in Ancestors(q)

Begin(t, r) == th' = [th EXCEPT ![t] = r]
Goto(t, pc) == Begin(t, [th[t] EXCEPT !.pc = pc])

\* A command ends with its process, the sync thread waits for the next session.
Ended(t) == IF t = "sync" THEN Idle ELSE [Idle EXCEPT !.pc = "done"]

\* An error that leaves what was written so far (`?` in the code).
Give(t) == /\ Begin(t, Ended(t))
           /\ UNCHANGED <<folder, scanned, copies, log, pin, held, agreed, staged, daemon, spent, raced, merged>>

\* start_session_with_duration: the record of a new pin.
NewPin(owner, scope) == [owner |-> owner, scope |-> scope, expires |-> clock + Duration,
                         released |-> FALSE, base |-> agreed]

\* start_pin() in the daemon, local_pin_start() in a command when no daemon
\* serves the folder: the agreements are captured, and PinStore::start loads the
\* record for the first time.
StartCheck(t) ==
    \E own \in BOOLEAN, scope \in Scopes :
      /\ t \in Command /\ th[t].pc = "idle"
      /\ own = ~daemon.up
      /\ ~Holding(pin)
      /\ Begin(t, [Idle EXCEPT !.pc = "start", !.kind = "start", !.own = own,
                     !.rec = NewPin(IF own THEN <<"command", t>> ELSE <<"daemon", daemon.gen>>, scope)])
      /\ UNCHANGED <<folder, scanned, copies, log, pin, held, agreed, staged, daemon, spent, raced, merged>>

\* The second load, after the temporary file was written.
StartRecheck(t) ==
    /\ th[t].pc = "start" /\ ~Holding(pin)
    /\ Goto(t, "rename")
    /\ UNCHANGED <<folder, scanned, copies, log, pin, held, agreed, staged, daemon, spent, raced, merged>>

\* PinError::PinActive.
StartRefused(t) == th[t].pc = "start" /\ Holding(pin) /\ Give(t)

\* mark_released(): load, then write the record back with the flag set; run by
\* the daemon when it is up, for a stop or a release that has done its own part.
StopLoad(t) ==
    /\ \/ t \in Command /\ th[t].pc = "idle"
       \/ th[t].pc = "stop"
       \/ th[t].pc = "tell" /\ daemon.up
    /\ pin # NoPin
    /\ Begin(t, [th[t] EXCEPT !.pc = "rename", !.rec = [pin EXCEPT !.released = TRUE],
                              !.own = th[t].pc = "stop" \/ ~daemon.up,
                              !.kind = IF th[t].pc = "stop" THEN @ ELSE "stop"])
    /\ UNCHANGED <<folder, scanned, copies, log, pin, held, agreed, staged, daemon, spent, raced, merged>>

\* No pin to release: a release goes on to ask the daemon, which may not be there.
StopNothing(t) ==
    /\ \/ th[t].pc = "stop" /\ pin = NoPin /\ Goto(t, "tell")
       \/ th[t].pc = "tell" /\ (pin = NoPin \/ ~daemon.up) /\ Begin(t, Ended(t))
    /\ UNCHANGED <<folder, scanned, copies, log, pin, held, agreed, staged, daemon, spent, raced, merged>>

\* The rename of PinStore::start and of mark_released.
RenamePin(t) ==
    /\ th[t].pc = "rename"
    /\ pin' = th[t].rec
    /\ IF th[t].kind = "release" THEN Goto(t, "tell") ELSE Begin(t, Ended(t))
    /\ UNCHANGED <<folder, scanned, copies, log, held, agreed, staged, daemon, spent, raced, merged>>

-----------------------------------------------------------------------------
(* The held ledger.                                                         *)

Loaded(p) == held[p].lines
Complete(p) == {held[p].lines[i] : i \in DOMAIN held[p].lines}

\* append(): O_APPEND of whole lines; a tail that a crash left without newline is
\* continued, and that line no longer parses.
Appended(f, s) == IF s = <<>> THEN f
                  ELSE IF f.torn THEN [f EXCEPT !.torn = FALSE, !.corrupt = TRUE]
                  ELSE [f EXCEPT !.lines = @ \o s]

\* Entries that are not in the ledger yet, by path and manifest.
Fresh(p, paths, m) ==
    SetToSeq({[path |-> x, man |-> m] : x \in paths} \ Complete(p))

-----------------------------------------------------------------------------
(* One merge, of the sync thread or of a release.                           *)

\* The ids compared on a tie are those of the manifests' authors.
PlanOf(o, author) == Plan(o.base, o.local, o.remote.tree, author, o.peer)

\* The paths a plan acts on, and the ones a gate keeps back (gate_plan).
Touched(pl) == pl.materialize \cup pl.synth \cup {p \in Path : pl.dec[p] \in Conflicts}
\* Mutant: conflicts pass the gate.
GateHoldsPlain(pl, scope) == {p \in pl.materialize : Covers(scope, p) /\ pl.dec[p] \notin Conflicts}

GateHolds(pl, scope) == {p \in Touched(pl) : Covers(scope, p)}

\* StructuralSplit: a held path and one that is not nest.
Split(pl, holds) == \E p \in holds, q \in Touched(pl) \ holds : p \in Ancestors(q) \/ q \in Ancestors(p)

Gated(pl, holds) == [pl EXCEPT !.materialize = @ \ holds, !.synth = @ \ holds, !.quarantine = @ \ holds]

\* reconcile(), then the record is loaded and the plan is split (HoldConfig::Auto
\* in a session, Disabled in a release); StructuralConflict and StructuralSplit
\* end the merge.
Gate(t, o, author) ==
    LET pl == PlanOf(o, author)
        holds == IF o.kind = "session" /\ Holding(pin) THEN GateHolds(pl, pin.scope) ELSE {}
    IN IF pl.structural \/ Split(pl, holds)
       THEN Begin(t, Ended(t))
       ELSE Begin(t, [o EXCEPT !.pc = "fetch", !.holds = holds, !.plan = Gated(pl, holds), !.rec = pin])

\* A session with peer p has pulled its manifest: pull_content() reads the base
\* for p from the ledger, and reconcile may or may not be able to prove it.  Who
\* made the two manifests is another matter, since either may have been adopted:
\* what is held and the merge's agreement go to the author of the remote one.
SessionBegin ==
    \E p \in Peer, man \in Offers, author \in Device,
       base \in {EmptyTree} \cup {agreed[q].tree : q \in {q \in Peer : agreed[q] # NoManifest}} :
      /\ daemon.up /\ th["sync"].pc = "idle"
      /\ spent.sessions < MaxSessions
      /\ man.tree # scanned /\ man.tree # EmptyTree
      /\ base # EmptyTree => agreed[p] # NoManifest /\ base = agreed[p].tree /\ Stored(<<"manifest", agreed[p]>>)
      /\ spent' = [spent EXCEPT !.sessions = @ + 1]
      /\ staged' = staged \cup ({<<"manifest", man>>} \ BlobsOf(packs))
      /\ Gate("sync", [Idle EXCEPT !.kind = "session", !.peer = man.dev, !.via = p,
                         !.local = scanned, !.remote = man, !.base = base], author)
      /\ raced' = (raced \/ Collecting)
      /\ UNCHANGED <<folder, scanned, copies, log, pin, held, agreed, daemon, merged>>

\* The chunks the plan needs and the store cannot read: put one by one into the
\* open pack or, if the peer advertised them in one pack, adopted with it.
MissingChunks(o) == {b \in Refs(o.remote) \ BlobsOf(packs) : b[1] = "chunk"} \ (IF o.kind = "session" THEN staged ELSE {})

PeerPack(o) == [id |-> <<"peer", o.via, MissingChunks(o)>>, blobs |-> MissingChunks(o), born |-> clock]

FetchItems(t) ==
    LET o == th[t] IN
    /\ o.pc = "fetch"
    /\ MissingChunks(o) = {} \/ o.kind = "session"
    /\ staged' = staged \cup MissingChunks(o)
    /\ Goto(t, "copy")
    /\ UNCHANGED <<folder, scanned, copies, log, pin, held, agreed, daemon, spent, raced, merged, collectVars>>

FetchPack(t) ==
    LET o == th[t] IN
    /\ o.pc = "fetch" /\ o.kind = "session"
    /\ Cardinality(MissingChunks(o)) >= 2
    /\ packs' = packs \cup {PeerPack(o)}
    /\ Goto(t, "copy")
    /\ UNCHANGED <<folder, scanned, copies, log, pin, held, agreed, staged, daemon, spent, raced, merged, clock, marks, gc, begun>>

\* A release has no peer to fetch from: MissingBlobs.
FetchNothing(t) == /\ th[t].pc = "fetch" /\ th[t].kind = "release" /\ MissingChunks(th[t]) # {}
                   /\ Give(t)
                   /\ UNCHANGED collectVars

Logged(o) == SetToSeq(Copies(o.plan))

\* read_live_verified() of every losing local version, then write_loser_copy().
Quarantine(t) ==
    LET o == th[t]
        pl == o.plan
        verified == \A p \in pl.quarantine : pl.dec[p] = "conflict_remote" => folder[p] = o.local[p]
    IN /\ o.pc = "copy"
       /\ \/ /\ verified
             /\ copies' = copies \cup Copies(pl)
             /\ Goto(t, "apply")
             /\ UNCHANGED <<folder, scanned, log, pin, held, agreed, staged, daemon, spent, raced, merged>>
          \/ ~verified /\ Give(t)

\* The guards compare what is live with the local manifest, times apart: a removal
\* (also one that makes room for another kind) with all that is below a directory,
\* a write with the entry itself, or with any entry where a directory is expected.
Matches(l, e) == IF l = NoEntry THEN e = NoEntry ELSE e # NoEntry /\ SameContent(l, e)

GuardsPass(o) ==
    LET pl == o.plan
        R == o.remote.tree
        removed == {p \in pl.materialize : R[p] = NoEntry \/ Retyped(o.base[p], R[p])}
        compared == removed \cup {q \in Path : \E p \in removed : IsDir(o.base[p]) /\ p \in Ancestors(q)}
    IN  /\ ~Diverges(pl, o.base, o.local, R)
        /\ \A p \in compared : Matches(o.local[p], folder[p])
        /\ \A p \in (pl.materialize \cup pl.synth) \ removed :
              Matches(o.local[p], folder[p]) \/ (IsDir(o.local[p]) /\ folder[p] # NoEntry)

\* Applier::apply_change_set with Overwrite::Expect(local).
Apply(t) ==
    LET o == th[t]
        done == IF o.holds = {} THEN {o.remote} ELSE {}
    IN /\ o.pc = "apply"
       /\ \/ /\ GuardsPass(o)
             /\ folder' = Applied(o.plan, o.base, folder, o.remote.tree)
             /\ Begin(t, [o EXCEPT !.pc = "log", !.before = folder])
             /\ merged' = [d \in Device |-> IF d \in {o.peer, o.via} THEN merged[d] \cup done ELSE merged[d]]
             /\ UNCHANGED <<scanned, copies, log, pin, held, agreed, staged, daemon, spent, raced>>
          \/ ~GuardsPass(o) /\ Give(t)

\* append_entries(), and the read of compact_if_needed() when the log is long.
AppendLog(t) ==
    LET o == th[t]
        longer == log \o Logged(o)
    IN /\ o.pc = "log"
       /\ log' = longer
       /\ IF Logged(o) # <<>> /\ Len(longer) > MaxLogLines
          THEN Begin(t, [o EXCEPT !.pc = "compact",
                           !.kept = SubSeq(longer, Len(longer) - KeepLogLines + 1, Len(longer))])
          ELSE Goto(t, "hold")
       /\ UNCHANGED <<folder, scanned, copies, pin, held, agreed, staged, daemon, spent, raced, merged>>

\* The rename of compact_if_needed(): lines that others appended since are gone.
CompactLog(t) ==
    /\ th[t].pc = "compact"
    /\ log' = th[t].kept
    /\ Goto(t, "hold")
    /\ UNCHANGED <<folder, scanned, copies, pin, held, agreed, staged, daemon, spent, raced, merged>>

\* Mutant: the held manifest is left in the open pack.
FlushHeldLater(t) ==
    /\ th[t].pc = "hold" /\ th[t].holds # {}
    /\ staged' = staged \cup ({<<"manifest", th[t].remote>>} \ BlobsOf(packs))
    /\ Goto(t, "ledger")
    /\ UNCHANGED <<folder, scanned, copies, log, pin, held, agreed, daemon, spent, raced, merged, collectVars>>

\* put_meta() of the held manifest and flush(), before the ledger names it.
FlushHeld(t) ==
    LET o == th[t]
        blobs == staged \cup ({<<"manifest", o.remote>>} \ BlobsOf(packs))
    IN /\ o.pc = "hold" /\ o.holds # {}
       /\ packs' = IF blobs = {} THEN packs
                   ELSE packs \cup {[id |-> <<"own", spent.sessions, daemon.gen>>, blobs |-> blobs, born |-> clock]}
       /\ staged' = {}
       /\ Goto(t, "ledger")
       /\ UNCHANGED <<folder, scanned, copies, log, pin, held, agreed, daemon, spent, raced, merged, clock, marks, gc, begun>>

\* The ledger is loaded and the fresh entries are appended; LedgerCorrupt ends
\* the merge.
AppendHeld(t) ==
    LET o == th[t] IN
    /\ o.pc = "ledger"
    /\ held' = IF held[o.peer].corrupt THEN held
               ELSE [held EXCEPT ![o.peer] = Appended(@, Fresh(o.peer, o.holds, o.remote))]
    /\ Begin(t, Ended(t))
    /\ UNCHANGED <<folder, scanned, copies, log, pin, agreed, staged, daemon, spent, raced, merged>>

\* Mutant: what was held does not count.
CleanThoughHeld(o) == LET pl == o.plan
                      IN  /\ \A p \in Path \ o.holds : pl.dec[p] \notin Conflicts
                          /\ ~pl.localWins

\* No conflict, nothing held, nothing to send and no local win.
Clean(o) == LET pl == o.plan
            IN  /\ \A p \in Path \ o.holds : pl.dec[p] \notin Conflicts
                /\ ~pl.localWins
                /\ o.holds = {}

\* The agreement of a clean merge, with the author of the manifest, or none; the
\* session adopts the manifest and, if it gets to its end, agrees on it with the
\* peer; the release goes on to clear the ledger.
Settle(t) ==
    LET o == th[t] IN
    /\ o.pc = "hold" /\ (o.holds = {} \/ Clean(o))
    /\ IF Clean(o)
       THEN /\ \E ended \in {{}, {o.via}} :
                 agreed' = [d \in Device |-> IF d \in {o.peer} \cup ended THEN o.remote ELSE agreed[d]]
            /\ staged' = IF o.kind = "session" THEN staged \cup ({<<"manifest", o.remote>>} \ BlobsOf(packs)) ELSE staged
            /\ scanned' = IF o.kind = "session" THEN o.remote.tree ELSE scanned
       ELSE UNCHANGED <<agreed, staged, scanned>>
    /\ IF o.kind = "session" THEN Begin(t, Ended(t)) ELSE Goto(t, "clear")
    /\ UNCHANGED <<folder, copies, log, pin, held, daemon, spent, raced, merged>>

-----------------------------------------------------------------------------
(* `ferry pin release`, always in a process of its own.                      *)

Ledgers == {p \in Device : held[p] # EmptyLedger}

\* scan_now(), then the list of peers with a ledger.
ReleaseBegin(t) ==
    /\ t \in Command /\ th[t].pc = "idle"
    /\ Begin(t, [Idle EXCEPT !.pc = "peer", !.kind = "release", !.own = TRUE,
                             !.local = folder, !.todo = Ledgers])
    /\ UNCHANGED <<folder, scanned, copies, log, pin, held, agreed, staged, daemon, spent, raced, merged>>

\* release_peer(): the base is the agreement captured by the pin or, failing
\* that, the recorded one; the remote side is the manifest of the last entry.
ReleaseBase(p) ==
    LET captured == IF pin = NoPin THEN NoManifest ELSE pin.base[p]
    IN  IF captured # NoManifest /\ Stored(<<"manifest", captured>>) THEN captured ELSE agreed[p]

\* Mutant: the ledger is cleared when its entries have been read.
ReleasePeerClears(t) ==
    \E p \in th[t].todo :
      /\ th[t].pc = "peer" /\ Loaded(p) # <<>>
      /\ held' = [held EXCEPT ![p] = EmptyLedger]
      /\ Gate(t, [th[t] EXCEPT !.peer = p, !.via = p, !.todo = @ \ {p},
                               !.remote = Loaded(p)[Len(Loaded(p))].man], Self)
      /\ UNCHANGED <<folder, scanned, copies, log, pin, agreed, staged, daemon, spent, raced, merged>>

ReleasePeer(t) ==
    \E p \in th[t].todo :
      LET o == th[t]
          last == Loaded(p)[Len(Loaded(p))].man
          base == ReleaseBase(p)
      IN /\ o.pc = "peer"
         /\ ~held[p].corrupt
         /\ \/ /\ Loaded(p) = <<>>
               /\ Begin(t, [o EXCEPT !.pc = "clear", !.peer = p, !.todo = @ \ {p}, !.remote = NoManifest])
            \/ /\ Loaded(p) # <<>> /\ Stored(<<"manifest", last>>)
               /\ \E b \in {EmptyTree} \cup (IF base # NoManifest /\ Stored(<<"manifest", base>>) THEN {base.tree} ELSE {}) :
                    Gate(t, [o EXCEPT !.peer = p, !.via = p, !.todo = @ \ {p}, !.remote = last, !.base = b], Self)
         /\ UNCHANGED <<folder, scanned, copies, log, pin, held, agreed, staged, daemon, spent, raced, merged>>

\* LedgerCorrupt or ManifestMissing: the rest of the release is not done.
ReleaseFails(t) ==
    /\ th[t].pc = "peer"
    /\ \E p \in th[t].todo : \/ held[p].corrupt
                             \/ /\ Loaded(p) # <<>>
                                /\ ~Stored(<<"manifest", Loaded(p)[Len(Loaded(p))].man>>)
    /\ Give(t)

ClearPeer(t) ==
    /\ th[t].pc = "clear"
    /\ held' = [held EXCEPT ![th[t].peer] = EmptyLedger]
    /\ Goto(t, "peer")
    /\ UNCHANGED <<folder, scanned, copies, log, pin, agreed, staged, daemon, spent, raced, merged>>

ReleaseStops(t) == /\ th[t].pc = "peer" /\ th[t].todo = {}
                   /\ Goto(t, "stop")
                   /\ UNCHANGED <<folder, scanned, copies, log, pin, held, agreed, staged, daemon, spent, raced, merged>>

-----------------------------------------------------------------------------
(* The environment.                                                         *)

UserEdit ==
    /\ spent.troubles < MaxTroubles
    /\ \E T \in Edits : T # folder /\ folder' = T
    /\ spent' = [spent EXCEPT !.troubles = @ + 1]
    /\ UNCHANGED <<scanned, copies, log, pin, held, agreed, staged, daemon, th, raced, merged>>

ScanPass ==
    /\ daemon.up /\ th["sync"].pc = "idle" /\ scanned # folder
    /\ scanned' = folder
    /\ UNCHANGED <<folder, copies, log, pin, held, agreed, staged, daemon, th, spent, raced, merged>>

\* The daemon ends, perhaps in the middle of an append to the held ledger: some
\* of the lines are there, the last one perhaps without its newline.
CrashedLedger(o) ==
    IF o.pc # "ledger" THEN {held}
    ELSE {held} \cup
         {[held EXCEPT ![o.peer] =
             [Appended(@, SubSeq(Fresh(o.peer, o.holds, o.remote), 1, n)) EXCEPT !.torn = TRUE]] :
            n \in {k \in 0 .. Cardinality(o.holds) :
                     ~held[o.peer].corrupt /\ ~held[o.peer].torn /\ k <= Len(Fresh(o.peer, o.holds, o.remote))}}

DaemonEnds ==
    /\ daemon.up /\ spent.troubles < MaxTroubles
    /\ spent' = [spent EXCEPT !.troubles = @ + 1]
    /\ daemon' = [daemon EXCEPT !.up = FALSE]
    /\ staged' = {}
    /\ held' \in CrashedLedger(th["sync"])
    /\ th' = [t \in Thread |-> IF t = "sync" \/ (~th[t].own /\ th[t].pc # "idle") THEN Ended(t) ELSE th[t]]
    /\ UNCHANGED <<folder, scanned, copies, log, pin, agreed, raced, merged>>

DaemonStarts ==
    /\ ~daemon.up
    /\ daemon' = [up |-> TRUE, gen |-> daemon.gen + 1]
    /\ UNCHANGED <<folder, scanned, copies, log, pin, held, agreed, staged, th, spent, raced, merged>>

\* live_roots(); an unreadable ledger ends the collection.
Roots == {agreed[p] : p \in {q \in Device : agreed[q] # NoManifest}} \cup {e.man : e \in UNION {Complete(p) : p \in Device}}

Collects ==
    \/ /\ \A p \in Device : ~held[p].corrupt
       /\ \E c \in Collector : GcRoots(c, Roots)
       /\ spent.troubles < MaxTroubles
       /\ spent' = [spent EXCEPT !.troubles = @ + 1]
       /\ raced' = (raced \/ th["sync"].pc # "idle")
       /\ UNCHANGED <<folder, scanned, copies, log, pin, held, agreed, staged, daemon, th, merged>>
    \/ CollectStep /\ UNCHANGED pinVars

TimePasses ==
    /\ Tick
    /\ spent.troubles < MaxTroubles
    /\ spent' = [spent EXCEPT !.troubles = @ + 1]
    /\ UNCHANGED <<folder, scanned, copies, log, pin, held, agreed, staged, daemon, th, raced, merged>>

MergeStep(t) ==
    \/ FetchItems(t) \/ FetchPack(t) \/ FetchNothing(t) \/ FlushHeld(t)
    \/ /\ Quarantine(t) \/ Apply(t) \/ AppendLog(t) \/ CompactLog(t) \/ AppendHeld(t) \/ Settle(t)
       /\ UNCHANGED collectVars

CommandStep(t) ==
    /\ \/ StartCheck(t) \/ StartRecheck(t) \/ StartRefused(t)
       \/ StopLoad(t) \/ StopNothing(t) \/ RenamePin(t)
       \/ ReleaseBegin(t) \/ ReleasePeer(t) \/ ReleaseFails(t) \/ ClearPeer(t) \/ ReleaseStops(t)
    /\ UNCHANGED collectVars

Environment == (UserEdit \/ ScanPass \/ DaemonEnds \/ DaemonStarts) /\ UNCHANGED collectVars

Init ==
    /\ folder = InitialTree /\ scanned = InitialTree
    /\ copies = {} /\ log = <<>>
    /\ pin = NoPin
    /\ held = [p \in Device |-> EmptyLedger]
    /\ agreed = [p \in Device |-> IF p \in Peer THEN [dev |-> p, tree |-> InitialTree] ELSE NoManifest]
    /\ CollectInit({[id |-> <<"own", 0, 0>>, born |-> 0,
                     blobs |-> {Polynomial} \cup UNION {Refs([dev |-> p, tree |-> InitialTree]) : p \in Peer}]})
    /\ staged = {}
    /\ daemon = [up |-> TRUE, gen |-> 1]
    /\ th = [t \in Thread |-> Idle]
    /\ spent = [sessions |-> 0, troubles |-> 0]
    /\ raced = FALSE
    /\ merged = [p \in Device |-> {agreed[p]}]

Next ==
    \/ SessionBegin /\ UNCHANGED collectVars
    \/ \E t \in Thread : MergeStep(t)
    \/ \E c \in Command : CommandStep(c)
    \/ Environment
    \/ Collects
    \/ TimePasses

Spec == Init /\ [][Next]_vars

-----------------------------------------------------------------------------
(* What is checked.                                                         *)

\* Every variable has its type; only a command or a busy sync thread carries
\* state, and the pin on disk is a whole record.
TypeOK ==
    /\ CollectTypeOK
    /\ folder \in Tree /\ scanned \in Tree
    /\ copies \subseteq Path \X Entry
    /\ \A i \in DOMAIN log : log[i] \in Path \X Entry
    /\ pin # NoPin => /\ pin.scope \subseteq Path /\ pin.released \in BOOLEAN
                      /\ \A p \in Device : pin.base[p] = NoManifest \/ pin.base[p] \in Manifest
    /\ \A p \in Device : /\ agreed[p] = NoManifest \/ agreed[p] \in Manifest
                         /\ held[p].corrupt => ~held[p].torn
    /\ \A t \in Thread : th[t].pc \in {"idle", "done"} => th[t] = Ended(t) \/ th[t] = Idle

\* The manifest storage invariant: as long as a collection and a session have not
\* overlapped, every change in a held ledger can be read from packs on disk,
\* whatever was collected, crashed or released since it was held.
HeldReadable == ~raced => \A p \in Device : \A e \in Complete(p) : Readable(e.man)

\* A pin is respected: the sync thread changes a path that the pin in force
\* covers only if it had passed the gate before that pin was written.
PinRespected ==
    [][ (th["sync"].pc = "apply" /\ folder' # folder /\ th'["sync"].pc = "log")
          => \A p \in Path : (folder'[p] # folder[p] /\ Holding(pin) /\ Covers(pin.scope, p))
                               => th["sync"].rec # pin ]_vars

\* Below an entry that one of the sides replaced by one of another kind.
BelowRetyped(o, p) ==
    \E a \in Ancestors(p) : Retyped(o.base[a], o.local[a]) \/ Retyped(o.base[a], o.remote.tree[a])

\* An agreement recorded by a merge is true of the folder: every path holds the
\* remote version, or had already left the manifest the merge was planned for.
\* What a merge does below a retyped entry is the subject of NothingLost.
AgreedApplied ==
    [][ \A t \in Thread : (th[t].pc = "hold" /\ agreed' # agreed /\ th'[t] # th[t])
          => LET o == th[t]
             IN  \A p \in Path : \/ Seen(o.base[p], Applied(o.plan, o.base, o.before, o.remote.tree)[p])
                                      = Seen(o.base[p], o.remote.tree[p])
                                 \/ Seen(o.base[p], o.before[p]) # Seen(o.base[p], o.local[p])
                                 \/ BelowRetyped(o, p) ]_vars

\* Release forgets nothing: entries leave a held ledger only when a release has
\* merged the manifest it read from the end of it, if any; and of the entries that
\* the daemon added meanwhile, the agreement names no manifest unless it was
\* merged in full, so that the next session brings the others again.
ReleaseForgetsNothing ==
    [][ \A p \in Device : (Complete(p) # {} /\ held'[p] = EmptyLedger)
          => /\ \E t \in Command : /\ th[t].pc = "clear" /\ th[t].peer = p
                                   /\ th[t].remote # NoManifest => th[t].remote \in merged[p]
             /\ \A e \in Complete(p) : agreed[p] = e.man => e.man \in merged[p] ]_vars

=============================================================================

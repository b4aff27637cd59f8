----------------------------- MODULE PinsProofs -----------------------------
(***************************************************************************)
(* Theorems about module Pins: a pin is respected, what is held stays       *)
(* readable whatever is collected, an agreement is true of the folder, and  *)
(* a release forgets nothing.                                               *)
(***************************************************************************)
EXTENDS Pins, FiniteSetTheorems, TLAPS

\* The manifests that peers offer.
Sound == {m \in Manifest : ValidTree(m.tree)}

\* The lines of a held ledger, the ledger, and a pin record.
Line == [path : Path, man : Sound]
Ledger == [lines : Seq(Line), torn : BOOLEAN, corrupt : BOOLEAN]
Rec == [owner : ({"daemon"} \X Nat) \cup ({"command"} \X Command), scope : SUBSET Path,
        expires : Nat, released : BOOLEAN, base : [Device -> Manifest \cup {NoManifest}]]

\* The files of .ferry.
Files ==
  /\ clock \in Nat
  /\ daemon \in [up : BOOLEAN, gen : Nat]
  /\ pin \in Rec \cup {NoPin}
  /\ held \in [Device -> Ledger]
  /\ agreed \in [Device -> Manifest \cup {NoManifest}]
  /\ merged \in [Device -> SUBSET (Manifest \cup {NoManifest})]
  /\ raced \in BOOLEAN

\* The steps of a merge.
Merging == {"fetch", "copy", "apply", "log", "compact", "hold", "ledger"}

\* What a thread carries.
IsOp(o) ==
  /\ o = [f \in DOMAIN Idle |-> o[f]]
  /\ o.own \in BOOLEAN /\ o.peer \in Device /\ o.via \in Device /\ o.remote \in Sound \cup {NoManifest}
  /\ o.base \in Tree /\ o.holds \in SUBSET Path /\ o.todo \in SUBSET Device /\ o.rec \in Rec \cup {NoPin}

\* A merge carries out the gated plan of its three trees.
Merges(o) ==
  /\ o.peer \in Device /\ o.remote \in Sound
  /\ \E author \in Device : /\ ~PlanOf(o, author).structural
                            /\ o.plan = Gated(PlanOf(o, author), o.holds)

\* Who does what: the sync thread merges for a session, a command for a release,
\* which holds nothing.
Role(t, o) ==
  /\ o.pc \in Merging \cup {"idle", "done", "start", "rename", "stop", "tell", "peer", "clear"}
  /\ o.pc \in Merging => Merges(o)
  /\ t = "sync" => o.pc \in Merging \cup {"idle"} /\ (o.pc \in Merging => o.kind = "session")
  /\ t # "sync" => (o.pc \in Merging => o.kind = "release" /\ o.holds = {} /\ o.pc # "ledger")
  /\ o.pc = "ledger" => o.holds # {}
  /\ o.pc \in {"peer", "clear"} => t # "sync" /\ o.kind = "release"

\* A record in the making that is not released names the process that writes it;
\* a release writes one that is.
Writes(t, o) ==
  o.pc \in {"start", "rename"} =>
    /\ o.rec \in Rec /\ (~o.rec.released /\ o.rec.owner[1] = "command" => o.rec.owner[2] = t)
    /\ o.kind = "release" => o.rec.released

\* Past the writes of a merge that held nothing, its manifest is merged, for its
\* author and for the peer it came from.
Applies(o, done) ==
  /\ o.pc \in {"log", "compact", "hold"} /\ o.holds = {} => o.remote \in done[o.peer] \cap done[o.via]
  /\ o.pc = "clear" => o.peer \in Device /\ (o.remote # NoManifest => o.remote \in done[o.peer])

\* What is true of a thread, when the manifests in done were merged.
ThreadOK(t, o, done) == IsOp(o) /\ Role(t, o) /\ Writes(t, o) /\ Applies(o, done)

Threads == th = [t \in Thread |-> th[t]] /\ \A t \in Thread : ThreadOK(t, th[t], merged)

\* What is agreed was merged.
AgreedMerged == \A p \in Device : agreed[p] \in merged[p]

\* A pin that a process of its own wrote outlives that process.
Orphaned == pin # NoPin /\ ~pin.released /\ pin.owner[1] = "command" => th[pin.owner[2]].pc = "done"

\* In force, as long as the daemon runs.
Bound(rec) == /\ rec # NoPin /\ ~rec.released /\ clock < rec.expires
              /\ rec.owner[1] = "daemon" /\ rec.owner[2] = daemon.gen

\* The plan of a session writes nothing that the pin it was gated by covers.
SyncGated ==
  LET o == th["sync"] IN
  o.pc \in Merging =>
    /\ daemon.up
    /\ Bound(o.rec) => \A p \in o.plan.materialize \cup o.plan.synth : ~Covers(o.rec.scope, p)

\* What a collector carries.
IsCollector(g) == g = [f \in DOMAIN IdleCollector |-> g[f]]

Collectors == gc = [c \in Collector |-> gc[c]] /\ \A c \in Collector : IsCollector(gc[c])

\* A collection that met no session knows all that is held.
CollectsAll ==
  ~raced => \A c \in Collector : gc[c].pc # "idle" =>
    /\ th["sync"].pc = "idle"
    /\ \A p \in Device : \A e \in Complete(p) : e.man \in gc[c].roots
    /\ gc[c].pc = "sweeping" => \A m \in gc[c].roots : Refs(m) \subseteq gc[c].reach

\* A session that met no collection finds what it fetched.
Fetched ==
  LET o == th["sync"] IN
  ~raced =>
    /\ o.pc \in Merging \ {"fetch"} =>
         \A b \in Refs(o.remote) : b[1] = "chunk" => b \in BlobsOf(packs) \cup staged
    /\ o.pc = "ledger" => Readable(o.remote)

\* The inductive invariant, in the parts that its proof takes apart.
Pinned == Files /\ Threads /\ Orphaned /\ SyncGated
Safe == Collectors /\ CollectsAll /\ Fetched /\ HeldReadable

Inv == Pinned /\ AgreedMerged /\ Safe

-----------------------------------------------------------------------------
(* Paths and plans. *)

\* What is above a directory above p is above p.
LEMMA AboveAbove ==
  ASSUME NEW p \in Path, NEW a \in Ancestors(p), NEW b \in Ancestors(a)
  PROVE  b \in Ancestors(p)
<1>1. p \in Seq(STRING)
  BY PathAssumption
<1>2. PICK i \in 1 .. Len(p) - 1 : a = SubSeq(p, 1, i)
  BY DEF Ancestors
<1>3. Len(a) = i /\ \A k \in 1 .. i : a[k] = p[k]
  BY <1>1, <1>2
<1>4. PICK j \in 1 .. Len(a) - 1 : b = SubSeq(a, 1, j)
  BY DEF Ancestors
<1>5. b = SubSeq(p, 1, j)
  BY <1>1, <1>2, <1>3, <1>4
<1> QED
  BY <1>1, <1>3, <1>4, <1>5 DEF Ancestors

\* Of two directories above a path, one is above the other.
LEMMA AboveLinear ==
  ASSUME NEW p \in Path, NEW a \in Ancestors(p), NEW b \in Ancestors(p)
  PROVE  a = b \/ a \in Ancestors(b) \/ b \in Ancestors(a)
<1>1. p \in Seq(STRING)
  BY PathAssumption
<1>2. PICK i \in 1 .. Len(p) - 1 : a = SubSeq(p, 1, i)
  BY DEF Ancestors
<1>3. PICK j \in 1 .. Len(p) - 1 : b = SubSeq(p, 1, j)
  BY DEF Ancestors
<1>4. Len(a) = i /\ Len(b) = j
  BY <1>1, <1>2, <1>3
<1>5. CASE i = j
  BY <1>2, <1>3, <1>5
<1>6. CASE i < j
  <2>1. a = SubSeq(b, 1, i)
    BY <1>1, <1>2, <1>3, <1>4, <1>6
  <2> QED BY <1>4, <1>6, <2>1 DEF Ancestors
<1>7. CASE j < i
  <2>1. b = SubSeq(a, 1, j)
    BY <1>1, <1>2, <1>3, <1>4, <1>7
  <2> QED BY <1>4, <1>7, <2>1 DEF Ancestors
<1> QED
  BY <1>5, <1>6, <1>7

\* A pattern that covers a path covers the directories above it.
LEMMA CoversAbove ==
  ASSUME NEW scope \in SUBSET Path, NEW p \in Path, Covers(scope, p), NEW a \in Ancestors(p)
  PROVE  Covers(scope, a)
<1>1. PICK q \in scope : q = p \/ q \in Ancestors(p) \/ p \in Ancestors(q)
  BY DEF Covers
<1>2. q = a \/ q \in Ancestors(a) \/ a \in Ancestors(q)
  BY <1>1, AboveAbove, AboveLinear
<1> QED
  BY <1>2 DEF Covers

\* What reconcile() returns.
IsPlan(P) == P = [f \in {"dec", "materialize", "synth", "quarantine", "lost", "localWins", "structural"} |-> P[f]]

\* The gate takes paths from what is written, and changes no decision.
LEMMA GatedIs ==
  ASSUME NEW P, IsPlan(P), NEW h
  PROVE  LET g == Gated(P, h)
         IN /\ g.materialize = P.materialize \ h /\ g.synth = P.synth \ h
            /\ g.dec = P.dec /\ g.localWins = P.localWins
BY DEF IsPlan, Gated

\* reconcile, taken apart: without survivors no removal is suppressed.
LEMMA PlanFacts ==
  ASSUME NEW B, NEW L, NEW R, NEW x, NEW y
  PROVE  LET P == Plan(B, L, R, x, y)
         IN /\ IsPlan(P)
            /\ P.materialize \subseteq Path /\ P.synth \subseteq Path
            /\ \A p \in Path : P.dec[p] = Decide(B[p], Shown(B, L)[p], Shown(B, R)[p], x, y)
            /\ P.localWins <=> \E p \in Path : P.dec[p] \in LocalWins
            /\ \A p \in P.materialize : P.dec[p] \in TakesRemote
            /\ \A p \in P.synth : P.dec[p] # "nothing"
            /\ (\A p \in Path : P.dec[p] \notin Conflicts \cup LocalWins) =>
                 \A p \in Path : P.dec[p] \in TakesRemote => p \in P.materialize
<1> DEFINE l == Shown(B, L)
           r == Shown(B, R)
           dec == [p \in Path |-> Decide(B[p], l[p], r[p], x, y)]
           lost == [p \in Path |-> Loser(dec[p], l[p], r[p])]
           final == [p \in Path |-> Outcome(dec[p], l[p], r[p])]
           quarantine == {p \in Path : dec[p] \in Conflicts /\ lost[p] # NoEntry}
           survivors == quarantine
                          \cup {p \in Path : dec[p] = "conflict_local"}
                          \cup {p \in Path : dec[p] = "keep_local" /\ l[p] # NoEntry}
           taken == {p \in Path : dec[p] \in TakesRemote}
           suppressed == {a \in taken : /\ r[a] = NoEntry
                                        /\ \E p \in survivors : a \in Ancestors(p)}
           materialize == taken \ suppressed
           targets == quarantine \cup {p \in materialize : r[p] # NoEntry}
           above == {a \in Path \ suppressed :
                       dec[a] # "nothing" /\ \E p \in targets : a \in Ancestors(p)}
           synth == {a \in above : final[a] = NoEntry /\ IsDir(B[a])}
           wins == \E p \in Path : dec[p] \in LocalWins
           structural == \/ \E p \in quarantine : IsDir(lost[p])
                         \/ \E a \in above \ synth : ~IsDir(final[a])
           P == Plan(B, L, R, x, y)
<1>1. P = [dec |-> dec, materialize |-> materialize, synth |-> synth, quarantine |-> quarantine,
           lost |-> lost, localWins |-> wins, structural |-> structural]
  BY Zenon DEF Plan
<1>2. \A p \in Path : dec[p] = Decide(B[p], l[p], r[p], x, y)
  BY Zenon
<1> HIDE DEF l, r, dec, lost, final
<1>3. /\ materialize \subseteq Path /\ synth \subseteq Path
      /\ \A p \in materialize : dec[p] \in TakesRemote
      /\ \A p \in synth : dec[p] # "nothing"
  OBVIOUS
<1>4. (\A p \in Path : dec[p] \notin Conflicts \cup LocalWins) =>
        \A p \in Path : dec[p] \in TakesRemote => p \in materialize
  BY DEF Conflicts, LocalWins
<1>5. wins <=> \E p \in Path : dec[p] \in LocalWins
  OBVIOUS
<1> HIDE DEF quarantine, materialize, synth, structural, wins, P
<1>6. P.dec = dec /\ P.materialize = materialize /\ P.synth = synth /\ P.localWins = wins
  BY <1>1
<1>7. IsPlan(P)
  BY <1>1 DEF IsPlan
<1>8. /\ P.materialize \subseteq Path /\ P.synth \subseteq Path
      /\ \A p \in P.materialize : P.dec[p] \in TakesRemote
      /\ \A p \in P.synth : P.dec[p] # "nothing"
  BY <1>3, <1>6
<1>9. (\A p \in Path : P.dec[p] \notin Conflicts \cup LocalWins) =>
        \A p \in Path : P.dec[p] \in TakesRemote => p \in P.materialize
  BY <1>4, <1>6
<1>10. P.localWins <=> \E p \in Path : P.dec[p] \in LocalWins
  BY <1>5, <1>6
<1>11. \A p \in Path : P.dec[p] = Decide(B[p], Shown(B, L)[p], Shown(B, R)[p], x, y)
  BY <1>2, <1>6 DEF l, r
<1> QED
  BY <1>7, <1>8, <1>9, <1>10, <1>11 DEF P

\* A plan that passed the gate writes nothing that the pin covers.
LEMMA GateKeeps ==
  ASSUME NEW o, NEW a, NEW scope,
         NEW p \in Gated(PlanOf(o, a), GateHolds(PlanOf(o, a), scope)).materialize
                     \cup Gated(PlanOf(o, a), GateHolds(PlanOf(o, a), scope)).synth
  PROVE  p \in Path /\ ~Covers(scope, p)
<1> DEFINE P == PlanOf(o, a)
           h == GateHolds(P, scope)
<1>1. IsPlan(P) /\ P.materialize \subseteq Path /\ P.synth \subseteq Path
  BY PlanFacts DEF PlanOf
<1> HIDE DEF P
<1>2. p \in (P.materialize \cup P.synth) \ h
  BY <1>1, GatedIs DEF P, h
<1> QED
  BY <1>1, <1>2 DEF GateHolds, Touched

\* What carrying out a plan can change.
LEMMA AppliedAt ==
  ASSUME NEW P, NEW B, NEW T, NEW R, NEW p \in Path
  PROVE  /\ p \in P.materialize => Applied(P, B, T, R)[p] = R[p]
         /\ p \notin P.materialize \cup P.synth =>
              \/ Applied(P, B, T, R)[p] = T[p]
              \/ /\ Applied(P, B, T, R)[p] = NoEntry
                 /\ \E a \in P.materialize : ~IsDir(R[a]) /\ a \in Ancestors(p)
<1>1. Applied(P, B, T, R)[p] =
        IF p \in P.materialize THEN R[p]
        ELSE IF p \in P.synth THEN B[p]
        ELSE IF \E a \in {q \in P.materialize : ~IsDir(R[q])} : a \in Ancestors(p) THEN NoEntry
        ELSE T[p]
  BY Zenon DEF Applied
<1>2. (\E a \in {q \in P.materialize : ~IsDir(R[q])} : a \in Ancestors(p)) =>
        \E a \in P.materialize : ~IsDir(R[a]) /\ a \in Ancestors(p)
  OBVIOUS
<1> QED
  BY <1>1, <1>2

-----------------------------------------------------------------------------
(* The ledgers. *)

\* A finite set written out as a sequence has no other elements.
LEMMA Listed ==
  ASSUME NEW S, IsFiniteSet(S)
  PROVE  SetToSeq(S) \in Seq(S)
<1>1. Cardinality(S) \in Nat /\ ExistsBijection(1 .. Cardinality(S), S)
  BY FS_CardinalityType
<1>2. \E f \in [1 .. Cardinality(S) -> S] : IsInjective(f)
  BY <1>1 DEF ExistsBijection, Bijection, Injection
<1>3. SetToSeq(S) \in [1 .. Cardinality(S) -> S]
  BY <1>2, Zenon DEF SetToSeq
<1> QED
  BY <1>1, <1>3

\* A sequence over a set is one over any larger set.
LEMMA WiderSeq ==
  ASSUME NEW S, NEW T, S \subseteq T, NEW s \in Seq(S)
  PROVE  s \in Seq(T)
<1>1. PICK n \in Nat : s \in [1 .. n -> S]
  OBVIOUS
<1>2. s \in [1 .. n -> T]
  BY <1>1
<1> QED
  BY <1>2

\* The fresh entries of a held manifest.
LEMMA FreshLines ==
  ASSUME Files, NEW p \in Device, NEW paths \in SUBSET Path, NEW m \in Sound
  PROVE  Fresh(p, paths, m) \in Seq([path : Path, man : {m}])
<1> DEFINE S == {[path |-> q, man |-> m] : q \in paths}
           f == [q \in paths |-> [path |-> q, man |-> m]]
<1>1. IsFiniteSet(paths)
  BY PinsAssumption, FS_Subset
<1>2. f \in Surjection(paths, S)
  BY DEF Surjection
<1>3. IsFiniteSet(S)
  BY <1>1, <1>2, FS_Surjection
<1>4. IsFiniteSet(S \ Complete(p))
  BY <1>3, FS_Subset
<1>5. S \ Complete(p) \subseteq [path : Path, man : {m}]
  OBVIOUS
<1> DEFINE new == S \ Complete(p)
           all == [path : Path, man : {m}]
<1> HIDE DEF S, new, all
<1>6. SetToSeq(new) \in Seq(new)
  BY <1>4, Listed DEF new
<1>7. SetToSeq(new) \in Seq(all)
  <2>1. new \subseteq all
    BY <1>5 DEF new, all
  <2> QED BY <1>6, <2>1, WiderSeq
<1> QED
  BY <1>7 DEF Fresh, S, new, all

\* append(): entries stay, and those that are new name the manifest.
LEMMA AppendedLines ==
  ASSUME NEW f \in Ledger, NEW m \in Sound, NEW s \in Seq([path : Path, man : {m}])
  PROVE  /\ Appended(f, s) \in Ledger
         /\ f.lines # <<>> => Appended(f, s).lines # <<>>
         /\ \A i \in DOMAIN Appended(f, s).lines :
              \/ i \in DOMAIN f.lines /\ Appended(f, s).lines[i] = f.lines[i]
              \/ Appended(f, s).lines[i].man = m
<1>1. f.lines \in Seq(Line) /\ f.torn \in BOOLEAN /\ f.corrupt \in BOOLEAN
      /\ f = [lines |-> f.lines, torn |-> f.torn, corrupt |-> f.corrupt]
  BY DEF Ledger
<1>2. s \in Seq(Line) /\ \A i \in 1 .. Len(s) : s[i].man = m
  <2> DEFINE all == [path : Path, man : {m}]
  <2>1. all \subseteq Line /\ \A e \in all : e.man = m
    BY DEF Line
  <2> HIDE DEF all
  <2>2. s \in Seq(all)
    BY DEF all
  <2>3. \A i \in 1 .. Len(s) : s[i] \in all
    BY <2>2
  <2> QED BY <2>1, <2>2, <2>3, WiderSeq
<1>3. f.lines \o s \in Seq(Line) /\ Len(f.lines \o s) = Len(f.lines) + Len(s)
      /\ \A i \in 1 .. Len(f.lines) + Len(s) :
           (f.lines \o s)[i] = IF i <= Len(f.lines) THEN f.lines[i] ELSE s[i - Len(f.lines)]
  BY <1>1, <1>2
<1>4. CASE s = <<>>
  BY <1>4, <1>1 DEF Appended
<1>5. CASE s # <<>> /\ f.torn
  BY <1>5, <1>1 DEF Appended, Ledger
<1>6. CASE s # <<>> /\ ~f.torn
  <2>1. Appended(f, s) = [lines |-> f.lines \o s, torn |-> f.torn, corrupt |-> f.corrupt]
    BY <1>1, <1>6 DEF Appended
  <2>2. Appended(f, s) \in Ledger /\ Appended(f, s).lines = f.lines \o s
    BY <1>1, <1>3, <2>1 DEF Ledger
  <2>3. f.lines # <<>> => f.lines \o s # <<>>
    BY <1>1, <1>2, <1>3
  <2>4. ASSUME NEW i \in DOMAIN (f.lines \o s)
        PROVE  \/ i \in DOMAIN f.lines /\ (f.lines \o s)[i] = f.lines[i]
               \/ (f.lines \o s)[i].man = m
    <3>1. i \in 1 .. Len(f.lines) + Len(s)
      BY <1>3
    <3>2. CASE i <= Len(f.lines)
      BY <1>1, <1>3, <3>1, <3>2
    <3>3. CASE ~(i <= Len(f.lines))
      <4>1. i - Len(f.lines) \in 1 .. Len(s)
        BY <1>1, <1>2, <3>1, <3>3
      <4> QED BY <1>2, <1>3, <3>1, <3>3, <4>1
    <3> QED BY <3>2, <3>3
  <2> QED BY <2>2, <2>3, <2>4
<1> QED
  BY <1>1, <1>4, <1>5, <1>6

-----------------------------------------------------------------------------
(* What a thread carries from step to step. *)

\* The fields of what a thread carries.
LEMMA Fields ==
  DOMAIN Idle = {"pc", "kind", "own", "peer", "via", "local", "remote", "base", "holds", "rec",
                 "todo", "plan", "before", "kept"}
BY DEF Idle

\* Nothing to do, or nothing any more.
LEMMA RestOK ==
  ASSUME NEW t \in Thread, NEW done
  PROVE  /\ ThreadOK(t, Ended(t), done) /\ ThreadOK(t, Idle, done)
         /\ Ended(t).pc \in {"idle", "done"}
         /\ t = "sync" => Ended(t).pc = "idle"
         /\ t # "sync" => Ended(t).pc = "done"
<1>1. Self \in Device /\ EmptyTree \in Tree
  BY PinsAssumption DEF EmptyTree, Tree
<1>2. IsOp(Idle) /\ IsOp([Idle EXCEPT !.pc = "done"])
  <2>1. Idle = [f \in DOMAIN Idle |-> Idle[f]]
    BY DEF Idle
  <2>2. [Idle EXCEPT !.pc = "done"] = [f \in DOMAIN Idle |-> [Idle EXCEPT !.pc = "done"][f]]
    BY <2>1
  <2> QED BY <1>1, <2>1, <2>2 DEF IsOp, Idle
<1>3. Idle.pc = "idle" /\ [Idle EXCEPT !.pc = "done"].pc = "done"
  BY DEF Idle
<1>4. \A o : IsOp(o) /\ (o.pc = "idle" \/ (o.pc = "done" /\ t # "sync")) => ThreadOK(t, o, done)
  BY DEF ThreadOK, Role, Writes, Applies, Merging
<1> QED
  BY <1>2, <1>3, <1>4 DEF Ended

\* Manifests stay merged.
LEMMA StaysOK ==
  ASSUME NEW t, NEW o, NEW done, NEW more, ThreadOK(t, o, done),
         \A p \in Device : done[p] \subseteq more[p]
  PROVE  ThreadOK(t, o, more)
<1>1. o.peer \in Device /\ o.via \in Device
  BY DEF ThreadOK, IsOp
<1>2. Applies(o, more)
  BY <1>1 DEF ThreadOK, Applies
<1> QED
  BY <1>2 DEF ThreadOK

\* The other threads.
LEMMA ThreadStep ==
  ASSUME Threads, NEW t \in Thread, NEW o, th' = [th EXCEPT ![t] = o],
         ThreadOK(t, o, merged'), \A p \in Device : merged[p] \subseteq merged'[p]
  PROVE  Threads' /\ th'[t] = o /\ \A u \in Thread : u # t => th'[u] = th[u]
<1>1. th' = [u \in Thread |-> IF u = t THEN o ELSE th[u]]
  BY DEF Threads
<1>2. th'[t] = o /\ \A u \in Thread : u # t => th'[u] = th[u]
  BY <1>1
<1>3. ASSUME NEW u \in Thread PROVE ThreadOK(u, th'[u], merged')
  <2>1. ThreadOK(u, th[u], merged)
    BY DEF Threads
  <2>2. CASE u = t
    BY <1>2, <2>2
  <2>3. CASE u # t
    BY <1>2, <2>1, <2>3, StaysOK
  <2> QED BY <2>2, <2>3
<1>4. th' = [u \in Thread |-> th'[u]]
  BY <1>1
<1> QED
  BY <1>2, <1>3, <1>4 DEF Threads

\* The same merge, a step further.
Moves(o, r) ==
  /\ IsOp(r) /\ r.kind = o.kind /\ r.peer = o.peer /\ r.via = o.via /\ r.local = o.local
  /\ r.remote = o.remote /\ r.base = o.base /\ r.holds = o.holds /\ r.plan = o.plan /\ r.rec = o.rec

\* Moving on changes the step and nothing else.
LEMMA MovesIs ==
  ASSUME NEW o, IsOp(o), NEW q
  PROVE  Moves(o, [o EXCEPT !.pc = q]) /\ [o EXCEPT !.pc = q].pc = q
BY Fields DEF Moves, IsOp

\* A merge that moves on is still the merge it was.
LEMMA MoveOK ==
  ASSUME NEW t, NEW o, NEW r, NEW done, NEW more, ThreadOK(t, o, done), o.pc \in Merging,
         Moves(o, r), r.pc \in Merging, r.pc = "ledger" => o.holds # {},
         r.pc \in {"log", "compact", "hold"} /\ o.holds = {} => o.remote \in more[o.peer] \cap more[o.via]
  PROVE  ThreadOK(t, r, more)
<1>1. Merges(r)
  <2>1. \A a : PlanOf(r, a) = PlanOf(o, a)
    BY DEF PlanOf, Moves
  <2> QED BY <2>1 DEF Merges, Moves, ThreadOK, Role
<1>2. Role(t, r)
  BY <1>1 DEF Role, ThreadOK, Moves, Merging
<1>3. Writes(t, r) /\ Applies(r, more)
  BY DEF Writes, Applies, Moves, Merging
<1> QED
  BY <1>2, <1>3 DEF ThreadOK, Moves

\* The gate: a merge begins, or ends there.
LEMMA GateOK ==
  ASSUME Files, Threads, NEW t \in Thread, NEW o, NEW a \in Device, Gate(t, o, a), UNCHANGED merged,
         IsOp(o), o.peer \in Device, o.remote \in Sound,
         t = "sync" => o.kind = "session", t # "sync" => o.kind = "release"
  PROVE  /\ Threads' /\ \A u \in Thread : u # t => th'[u] = th[u]
         /\ \/ th'[t] = Ended(t)
            \/ /\ th'[t].pc = "fetch" /\ th'[t].rec = pin
               /\ th'[t].plan = Gated(PlanOf(o, a), th'[t].holds)
               /\ th'[t].holds = IF o.kind = "session" /\ Holding(pin)
                                 THEN GateHolds(PlanOf(o, a), pin.scope) ELSE {}
<1> DEFINE P == PlanOf(o, a)
           h == IF o.kind = "session" /\ Holding(pin) THEN GateHolds(P, pin.scope) ELSE {}
           r == [o EXCEPT !.pc = "fetch", !.holds = h, !.plan = Gated(P, h), !.rec = pin]
<1>1. \/ th' = [th EXCEPT ![t] = Ended(t)]
      \/ ~P.structural /\ th' = [th EXCEPT ![t] = r]
  BY DEF Gate, Begin
<1>2. h \in SUBSET Path
  <2>1. P.materialize \subseteq Path /\ P.synth \subseteq Path
    BY PlanFacts DEF PlanOf
  <2> HIDE DEF P
  <2> QED BY <2>1 DEF GateHolds, Touched
<1>3. CASE th' = [th EXCEPT ![t] = Ended(t)]
  BY <1>3, RestOK, ThreadStep
<1>4. CASE ~P.structural /\ th' = [th EXCEPT ![t] = r]
  <2> HIDE DEF h
  <2>1. /\ IsOp(r) /\ r.pc = "fetch" /\ r.rec = pin /\ r.holds = h /\ r.plan = Gated(P, h)
        /\ r.kind = o.kind /\ r.peer = o.peer /\ r.remote = o.remote
        /\ r.base = o.base /\ r.local = o.local
    <3> HIDE DEF P
    <3> QED BY <1>2, Fields DEF IsOp, Files
  <2>2. PlanOf(r, a) = P
    BY <2>1 DEF PlanOf
  <2>3. Merges(r)
    BY <1>4, <2>1, <2>2 DEF Merges
  <2>4. t # "sync" => h = {}
    BY DEF h
  <2> HIDE DEF r, P
  <2>5. ThreadOK(t, r, merged')
    BY <2>1, <2>3, <2>4 DEF ThreadOK, Role, Writes, Applies, Merging
  <2>6. Threads' /\ th'[t] = r /\ \A u \in Thread : u # t => th'[u] = th[u]
    BY <1>4, <2>5, ThreadStep
  <2> QED BY <2>1, <2>6 DEF P, h
<1> QED
  BY <1>1, <1>3, <1>4

\* A merge moves on.
LEMMA MoveStep ==
  ASSUME Threads, NEW t \in Thread, th[t].pc \in Merging, NEW r, Moves(th[t], r), r.pc \in Merging,
         th' = [th EXCEPT ![t] = r], r.pc = "ledger" => th[t].holds # {},
         r.pc \in {"log", "compact", "hold"} /\ th[t].holds = {} =>
           th[t].remote \in merged'[th[t].peer] \cap merged'[th[t].via],
         \A p \in Device : merged[p] \subseteq merged'[p]
  PROVE  Threads' /\ th'[t] = r /\ \A u \in Thread : u # t => th'[u] = th[u]
<1>1. ThreadOK(t, th[t], merged)
  BY DEF Threads
<1>2. ThreadOK(t, r, merged')
  BY <1>1, MoveOK
<1> QED
  BY <1>2, ThreadStep

\* A thread ends what it does.
LEMMA EndStep ==
  ASSUME Threads, NEW t \in Thread, th' = [th EXCEPT ![t] = Ended(t)], UNCHANGED merged
  PROVE  Threads' /\ th'[t] = Ended(t) /\ \A u \in Thread : u # t => th'[u] = th[u]
BY RestOK, ThreadStep

\* What a step of a merge is to the other threads and to the pin.
Stepped(t) ==
  /\ Threads' /\ Files' /\ AgreedMerged'
  /\ \A u \in Thread : u # t => th'[u] = th[u]
  /\ th[t].pc \in Merging /\ UNCHANGED <<pin, daemon, clock, raced>>
  /\ \/ th'[t] = Ended(t)
     \/ Moves(th[t], th'[t]) /\ th'[t].pc \in Merging
     \/ t # "sync" /\ th'[t].pc = "clear"

\* Moving on, with the files as they are.
LEMMA PlainMove ==
  ASSUME Files, Threads, AgreedMerged, NEW t \in Thread, th[t].pc \in Merging, NEW r, Moves(th[t], r),
         r.pc \in Merging, th' = [th EXCEPT ![t] = r],
         r.pc = "ledger" => th[t].holds # {},
         r.pc \in {"log", "compact", "hold"} => th[t].pc \in {"log", "compact", "hold"},
         UNCHANGED <<pin, daemon, clock, raced, held, agreed, merged>>
  PROVE  Stepped(t)
<1>1. ThreadOK(t, th[t], merged)
  BY DEF Threads
<1>2. r.pc \in {"log", "compact", "hold"} /\ th[t].holds = {} =>
           th[t].remote \in merged'[th[t].peer] \cap merged'[th[t].via]
  BY <1>1 DEF ThreadOK, Applies
<1>3. Threads' /\ th'[t] = r /\ \A u \in Thread : u # t => th'[u] = th[u]
  BY <1>2, MoveStep
<1>4. Files' /\ AgreedMerged'
  BY DEF Files, AgreedMerged
<1> QED
  BY <1>3, <1>4 DEF Stepped

\* Ending a merge, with the files as they are.
LEMMA PlainEnd ==
  ASSUME Files, Threads, AgreedMerged, NEW t \in Thread, th[t].pc \in Merging,
         th' = [th EXCEPT ![t] = Ended(t)],
         UNCHANGED <<pin, daemon, clock, raced, held, agreed, merged>>
  PROVE  Stepped(t)
<1>1. Threads' /\ th'[t] = Ended(t) /\ \A u \in Thread : u # t => th'[u] = th[u]
  BY EndStep
<1>2. Files' /\ AgreedMerged'
  BY DEF Files, AgreedMerged
<1> QED
  BY <1>1, <1>2 DEF Stepped

\* The steps that leave the ledgers alone.
LEMMA QuietMerge ==
  ASSUME Files, Threads, AgreedMerged, NEW t \in Thread,
         \/ FetchItems(t) \/ FetchPack(t) \/ FetchNothing(t) \/ FlushHeld(t)
         \/ (Quarantine(t) \/ AppendLog(t) \/ CompactLog(t)) /\ UNCHANGED collectVars
  PROVE  Stepped(t)
<1> DEFINE o == th[t]
<1>1. ThreadOK(t, o, merged) /\ IsOp(o)
  BY DEF Threads, ThreadOK
<1>2. \A q : Moves(o, [o EXCEPT !.pc = q]) /\ [o EXCEPT !.pc = q].pc = q
  BY <1>1, MovesIs
<1>3. CASE FetchItems(t)
  BY <1>2, <1>3, PlainMove DEF FetchItems, Goto, Begin, collectVars, Merging
<1>4. CASE FetchPack(t)
  BY <1>2, <1>4, PlainMove DEF FetchPack, Goto, Begin, Merging
<1>5. CASE FetchNothing(t)
  BY <1>5, PlainEnd DEF FetchNothing, Give, Begin, collectVars, Merging
<1>6. CASE FlushHeld(t)
  <2>1. /\ o.pc \in Merging /\ o.holds # {} /\ th' = [th EXCEPT ![t] = [o EXCEPT !.pc = "ledger"]]
        /\ UNCHANGED <<pin, daemon, clock, raced, held, agreed, merged>>
    BY <1>6 DEF FlushHeld, Goto, Begin, Merging
  <2> QED BY <1>2, <2>1, PlainMove DEF Merging
<1>7. CASE Quarantine(t) /\ UNCHANGED collectVars
  <2>1. /\ o.pc \in Merging /\ UNCHANGED <<pin, daemon, clock, raced, held, agreed, merged>>
        /\ \/ th' = [th EXCEPT ![t] = [o EXCEPT !.pc = "apply"]]
           \/ th' = [th EXCEPT ![t] = Ended(t)]
    BY <1>7 DEF Quarantine, Give, Goto, Begin, Merging, collectVars
  <2> QED BY <1>2, <2>1, PlainMove, PlainEnd DEF Merging
<1>8. CASE AppendLog(t) /\ UNCHANGED collectVars
  <2> DEFINE rest == SubSeq(log \o Logged(o), Len(log \o Logged(o)) - KeepLogLines + 1, Len(log \o Logged(o)))
  <2>3. \/ th' = [th EXCEPT ![t] = [o EXCEPT !.pc = "hold"]]
        \/ th' = [th EXCEPT ![t] = [o EXCEPT !.pc = "compact", !.kept = rest]]
    BY <1>8, Zenon DEF AppendLog, Goto, Begin
  <2>4. o.pc = "log" /\ UNCHANGED <<pin, daemon, raced, held, agreed, merged>> /\ UNCHANGED clock
    BY <1>8 DEF AppendLog, collectVars
  <2> HIDE DEF rest
  <2>1. /\ o.pc \in {"log", "compact", "hold"}
        /\ UNCHANGED <<pin, daemon, clock, raced, held, agreed, merged>>
    BY <2>4
  <2>2. /\ Moves(o, [o EXCEPT !.pc = "compact", !.kept = rest])
        /\ [o EXCEPT !.pc = "compact", !.kept = rest].pc = "compact"
    <3> HIDE DEF o
    <3> QED BY <1>1, Fields DEF Moves, IsOp
  <2> QED BY <1>2, <2>1, <2>2, <2>3, PlainMove DEF Merging
<1>9. CASE CompactLog(t) /\ UNCHANGED collectVars
  BY <1>2, <1>9, PlainMove DEF CompactLog, Goto, Begin, Merging, collectVars
<1> QED
  BY <1>3, <1>4, <1>5, <1>6, <1>7, <1>8, <1>9

\* Applier::apply_change_set: a merge that held nothing is merged.
LEMMA ApplySteps ==
  ASSUME Files, Threads, AgreedMerged, NEW t \in Thread, Apply(t), UNCHANGED collectVars
  PROVE  Stepped(t)
<1> DEFINE o == th[t]
           r == [o EXCEPT !.pc = "log", !.before = folder]
           new == IF o.holds = {} THEN {o.remote} ELSE {}
           more == [d \in Device |-> IF d \in {o.peer, o.via} THEN merged[d] \cup new ELSE merged[d]]
<1>1. ThreadOK(t, o, merged) /\ IsOp(o) /\ o.pc = "apply"
  BY DEF Threads, ThreadOK, Apply
<1>2. o.peer \in Device /\ o.via \in Device /\ o.remote \in Manifest
  BY <1>1 DEF ThreadOK, IsOp, Role, Merges, Merging, Sound
<1>3. Moves(o, r) /\ r.pc = "log"
  <2> HIDE DEF o
  <2> QED BY <1>1, Fields DEF Moves, IsOp
<1>4. UNCHANGED <<pin, daemon, clock, raced, held, agreed>>
  BY DEF Apply, Give, collectVars
<1>5. CASE th' = [th EXCEPT ![t] = Ended(t)] /\ UNCHANGED merged
  BY <1>1, <1>4, <1>5, PlainEnd DEF Merging
<1>6. CASE th' = [th EXCEPT ![t] = r] /\ merged' = more
  <2>1. \A p \in Device : merged[p] \subseteq merged'[p]
    BY <1>6 DEF Files
  <2>2. o.holds = {} => o.remote \in merged'[o.peer] \cap merged'[o.via]
    BY <1>2, <1>6 DEF Files
  <2>3. Threads' /\ th'[t] = r /\ \A u \in Thread : u # t => th'[u] = th[u]
    BY <1>1, <1>3, <1>6, <2>1, <2>2, MoveStep DEF Merging
  <2>4. merged' \in [Device -> SUBSET (Manifest \cup {NoManifest})]
    BY <1>2, <1>6 DEF Files
  <2>5. Files' /\ AgreedMerged'
    BY <1>4, <2>1, <2>4 DEF Files, AgreedMerged
  <2> QED BY <1>1, <1>3, <1>4, <2>3, <2>5 DEF Stepped, Merging
<1>7. \/ th' = [th EXCEPT ![t] = Ended(t)] /\ UNCHANGED merged
      \/ th' = [th EXCEPT ![t] = r] /\ merged' = more
  BY DEF Apply, Give, Begin
<1> QED
  BY <1>5, <1>6, <1>7

\* A ledger has entries unless it has no lines.
LEMMA HasLines ==
  ASSUME NEW s \in Seq(Line)
  PROVE  {s[i] : i \in DOMAIN s} # {} <=> s # <<>>
<1>1. DOMAIN s = 1 .. Len(s) /\ Len(s) \in Nat
  OBVIOUS
<1>2. s # <<>> => Len(s) # 0
  OBVIOUS
<1>3. s # <<>> => 1 \in DOMAIN s
  BY <1>1, <1>2
<1>4. s = <<>> => DOMAIN s = {}
  BY <1>1
<1> QED
  BY <1>3, <1>4

\* The held ledger after an append.
LEMMA HeldSteps ==
  ASSUME Files, NEW p \in Device, NEW paths \in SUBSET Path, NEW m \in Sound, NEW s,
         s \in Seq([path : Path, man : {m}]), held' = [held EXCEPT ![p] = Appended(@, s)]
  PROVE  /\ held' \in [Device -> Ledger]
         /\ \A q \in Device : /\ Complete(q) # {} => Complete(q)' # {}
                            /\ \A e \in Complete(q)' : e \in Complete(q) \/ e.man = m
<1>1. held[p] \in Ledger
  BY DEF Files
<1>2. Appended(held[p], s) \in Ledger
  BY <1>1, AppendedLines
<1>3. held'[p] = Appended(held[p], s) /\ \A q \in Device : q # p => held'[q] = held[q]
  BY DEF Files
<1>4. held' \in [Device -> Ledger]
  BY <1>2 DEF Files
<1>5. ASSUME NEW q \in Device
      PROVE  /\ Complete(q) # {} => Complete(q)' # {}
             /\ \A e \in Complete(q)' : e \in Complete(q) \/ e.man = m
  <2>1. CASE q # p
    BY <1>3, <2>1 DEF Complete
  <2>2. CASE q = p
    <3>1. \A i \in DOMAIN held'[p].lines :
            (i \in DOMAIN held[p].lines /\ held'[p].lines[i] = held[p].lines[i]) \/ held'[p].lines[i].man = m
      BY <1>1, <1>3, AppendedLines
    <3>2. held[p].lines # <<>> => held'[p].lines # <<>>
      BY <1>1, <1>3, AppendedLines
    <3>3. held[p].lines \in Seq(Line) /\ held'[p].lines \in Seq(Line)
      BY <1>1, <1>2, <1>3 DEF Ledger
    <3>4. Complete(p) # {} => Complete(p)' # {}
      BY <3>2, <3>3, HasLines DEF Complete
    <3>5. \A e \in Complete(p)' : e \in Complete(p) \/ e.man = m
      BY <3>1 DEF Complete
    <3> QED BY <2>2, <3>4, <3>5
  <2> QED BY <2>1, <2>2
<1> QED
  BY <1>4, <1>5

\* AppendHeld: only a session holds.
LEMMA AppendHeldSteps ==
  ASSUME Files, Threads, AgreedMerged, NEW t \in Thread, AppendHeld(t), UNCHANGED collectVars
  PROVE  /\ Stepped(t) /\ t = "sync" /\ th[t].remote \in Sound
         /\ \A q \in Device : /\ Complete(q) # {} => Complete(q)' # {}
                            /\ \A e \in Complete(q)' : e \in Complete(q) \/ e.man = th[t].remote
<1> DEFINE o == th[t]
           s == Fresh(o.peer, o.holds, o.remote)
<1>1. ThreadOK(t, o, merged) /\ IsOp(o) /\ o.pc = "ledger"
  BY DEF Threads, ThreadOK, AppendHeld
<1>2. o.peer \in Device /\ o.remote \in Sound /\ o.holds \in SUBSET Path /\ t = "sync"
  BY <1>1 DEF ThreadOK, Role, Merges, Merging, IsOp
<1>3. s \in Seq([path : Path, man : {o.remote}])
  BY <1>2, FreshLines
<1>4. /\ th' = [th EXCEPT ![t] = Ended(t)]
      /\ UNCHANGED <<pin, daemon, clock, raced, agreed, merged>>
      /\ held' = held \/ held' = [held EXCEPT ![o.peer] = Appended(@, s)]
  BY DEF AppendHeld, Begin, collectVars
<1> HIDE DEF s
<1>5. /\ held' \in [Device -> Ledger]
      /\ \A q \in Device : /\ Complete(q) # {} => Complete(q)' # {}
                         /\ \A e \in Complete(q)' : e \in Complete(q) \/ e.man = o.remote
  <2>1. CASE held' = held
    BY <2>1 DEF Files, Complete
  <2>2. CASE held' = [held EXCEPT ![o.peer] = Appended(@, s)]
    <3> HIDE DEF o
    <3> QED BY <1>2, <1>3, <2>2, HeldSteps
  <2> QED BY <1>4, <2>1, <2>2
<1>6. Threads' /\ th'[t] = Ended(t) /\ \A u \in Thread : u # t => th'[u] = th[u]
  BY <1>4, EndStep
<1>7. Files' /\ AgreedMerged'
  BY <1>4, <1>5 DEF Files, AgreedMerged
<1> QED
  BY <1>1, <1>2, <1>4, <1>5, <1>6, <1>7 DEF Stepped, Merging

\* An agreement is of a merge that held nothing.
LEMMA SettleSteps ==
  ASSUME Files, Threads, AgreedMerged, NEW t \in Thread, Settle(t), UNCHANGED collectVars
  PROVE  Stepped(t) /\ UNCHANGED held
<1> DEFINE o == th[t]
           r == [o EXCEPT !.pc = "clear"]
<1>1. ThreadOK(t, o, merged) /\ IsOp(o) /\ o.pc = "hold"
  BY DEF Threads, ThreadOK, Settle
<1>2. /\ o.peer \in Device /\ o.via \in Device /\ o.remote \in Manifest
      /\ o.kind # "session" => t # "sync" /\ o.kind = "release"
  BY <1>1 DEF ThreadOK, IsOp, Role, Merges, Merging, Sound
<1>3. o.holds = {}
  BY DEF Settle, Clean
<1>4. o.remote \in merged[o.peer] \cap merged[o.via]
  BY <1>1, <1>3 DEF ThreadOK, Applies
<1>5. /\ UNCHANGED <<pin, daemon, clock, raced, held, merged>>
      /\ \/ agreed' = agreed
         \/ \E ended \in {{}, {o.via}} :
              agreed' = [d \in Device |-> IF d \in {o.peer} \cup ended THEN o.remote ELSE agreed[d]]
      /\ \/ th' = [th EXCEPT ![t] = Ended(t)]
         \/ o.kind # "session" /\ th' = [th EXCEPT ![t] = r]
  BY DEF Settle, Begin, Goto, collectVars
<1>6. Files'
  BY <1>2, <1>5 DEF Files
<1>7. AgreedMerged'
  BY <1>2, <1>4, <1>5 DEF AgreedMerged, Files
<1>8. CASE th' = [th EXCEPT ![t] = Ended(t)]
  <2>1. Threads' /\ th'[t] = Ended(t) /\ \A u \in Thread : u # t => th'[u] = th[u]
    BY <1>5, <1>8, EndStep
  <2> QED BY <1>1, <1>5, <1>6, <1>7, <2>1 DEF Stepped, Merging
<1>9. CASE o.kind # "session" /\ th' = [th EXCEPT ![t] = r]
  <2>1. IsOp(r) /\ r.pc = "clear" /\ r.peer = o.peer /\ r.remote = o.remote /\ r.kind = o.kind
    <3> HIDE DEF o
    <3> QED BY <1>1, Fields DEF IsOp
  <2>2. ThreadOK(t, r, merged')
    <3> HIDE DEF r
    <3> QED BY <1>2, <1>4, <1>5, <1>9, <2>1 DEF ThreadOK, Role, Writes, Applies, Merging
  <2>3. Threads' /\ th'[t] = r /\ \A u \in Thread : u # t => th'[u] = th[u]
    BY <1>5, <1>9, <2>2, ThreadStep
  <2> QED BY <1>1, <1>2, <1>5, <1>6, <1>7, <1>9, <2>1, <2>3 DEF Stepped, Merging
<1> QED
  BY <1>5, <1>8, <1>9

\* Any step of a merge.
LEMMA MergeSteps ==
  ASSUME Files, Threads, AgreedMerged, NEW t \in Thread, MergeStep(t)
  PROVE  Stepped(t)
BY QuietMerge, ApplySteps, AppendHeldSteps, SettleSteps DEF MergeStep

\* What a step of a merge leaves as it was: the pin's owner has ended, and the plan
\* of a session is the one that was gated.
LEMMA SteppedKeeps ==
  ASSUME Pinned, NEW t \in Thread, Stepped(t)
  PROVE  Pinned'
<1>1. Orphaned'
  <2>1. SUFFICES ASSUME pin # NoPin, ~pin.released, pin.owner[1] = "command"
                 PROVE  th'[pin.owner[2]].pc = "done"
    BY DEF Stepped, Orphaned
  <2>2. pin.owner[2] \in Command /\ th[pin.owner[2]].pc = "done"
    BY <2>1 DEF Pinned, Orphaned, Files, Rec
  <2>3. pin.owner[2] \in Thread /\ pin.owner[2] # t
    BY <2>2 DEF Thread, Stepped, Merging
  <2> QED BY <2>2, <2>3 DEF Stepped
<1>2. SyncGated'
  <2>1. CASE t # "sync"
    <3>1. th'["sync"] = th["sync"]
      BY <2>1 DEF Stepped, Thread
    <3> QED BY <3>1 DEF Stepped, Pinned, SyncGated, Bound
  <2>2. CASE t = "sync" /\ th'[t] = Ended(t)
    BY <2>2, RestOK DEF SyncGated, Merging
  <2>3. CASE t = "sync" /\ Moves(th[t], th'[t])
    BY <2>3 DEF Stepped, Pinned, SyncGated, Bound, Moves
  <2> QED BY <2>1, <2>2, <2>3 DEF Stepped
<1> QED
  BY <1>1, <1>2 DEF Pinned, Stepped

-----------------------------------------------------------------------------
(* Sessions and commands. *)

\* A session begins: its plan is gated by the pin on disk.
LEMMA SessionSteps ==
  ASSUME Pinned, AgreedMerged, SessionBegin, UNCHANGED collectVars
  PROVE  Pinned' /\ AgreedMerged' /\ th'["sync"].pc \in {"idle", "fetch"}
<1>1. PICK p \in Peer, m \in Offers, a \in Device,
           b \in {EmptyTree} \cup {agreed[q].tree : q \in {q \in Peer : agreed[q] # NoManifest}} :
        /\ daemon.up
        /\ Gate("sync", [Idle EXCEPT !.kind = "session", !.peer = m.dev, !.via = p, !.local = scanned,
                                     !.remote = m, !.base = b], a)
        /\ raced' = (raced \/ Collecting)
        /\ UNCHANGED <<pin, held, agreed, daemon, merged>>
  BY Zenon DEF SessionBegin
<1> DEFINE o == [Idle EXCEPT !.kind = "session", !.peer = m.dev, !.via = p, !.local = scanned,
                             !.remote = m, !.base = b]
<1>2. m \in Sound /\ p \in Device /\ m.dev \in Device
  BY PinsAssumption DEF Sound, Manifest, Peer
<1>3. b \in Tree
  <2>1. EmptyTree \in Tree
    BY DEF EmptyTree, Tree
  <2>2. \A q \in Peer : agreed[q] # NoManifest => agreed[q].tree \in Tree
    BY DEF Pinned, Files, Manifest, Peer
  <2> QED BY <2>1, <2>2
<1>4. IsOp(Idle)
  <2>1. "sync" \in Thread
    BY DEF Thread
  <2> QED BY <2>1, RestOK DEF ThreadOK
<1>5. IsOp(o) /\ o.kind = "session" /\ o.peer = m.dev /\ o.remote = m
  BY <1>2, <1>3, <1>4, Fields DEF IsOp
<1>6. "sync" \in Thread /\ Files /\ Threads /\ Gate("sync", o, a) /\ UNCHANGED merged
  BY <1>1 DEF Thread, Pinned
<1> HIDE DEF o
<1>7. /\ Threads' /\ \A u \in Thread : u # "sync" => th'[u] = th[u]
      /\ \/ th'["sync"] = Ended("sync")
         \/ /\ th'["sync"].pc = "fetch" /\ th'["sync"].rec = pin
            /\ th'["sync"].plan = Gated(PlanOf(o, a), th'["sync"].holds)
            /\ th'["sync"].holds = IF o.kind = "session" /\ Holding(pin)
                                   THEN GateHolds(PlanOf(o, a), pin.scope) ELSE {}
  BY <1>2, <1>5, <1>6, GateOK
<1>8. Files' /\ AgreedMerged'
  BY <1>1 DEF Pinned, Files, AgreedMerged, collectVars
<1>9. Orphaned'
  <2>1. SUFFICES ASSUME pin # NoPin, ~pin.released, pin.owner[1] = "command"
                 PROVE  th'[pin.owner[2]].pc = "done"
    BY <1>1 DEF Orphaned
  <2>2. pin.owner[2] \in Command /\ th[pin.owner[2]].pc = "done"
    BY <2>1 DEF Pinned, Orphaned, Files, Rec
  <2> QED BY <1>7, <2>2, PinsAssumption DEF Thread
<1>10. SyncGated'
  <2>1. CASE th'["sync"] = Ended("sync")
    BY <1>6, <2>1, RestOK DEF SyncGated, Merging
  <2>2. CASE th'["sync"] # Ended("sync")
    <3>1. SUFFICES ASSUME Bound(pin),
                          NEW x \in th'["sync"].plan.materialize \cup th'["sync"].plan.synth
                   PROVE  ~Covers(pin.scope, x)
      BY <1>1, <1>7, <2>2 DEF SyncGated, Bound, collectVars
    <3>2. Holding(pin)
      BY <1>1, <3>1 DEF Bound, Holding, Alive
    <3>3. th'["sync"].plan = Gated(PlanOf(o, a), GateHolds(PlanOf(o, a), pin.scope))
      BY <1>5, <1>7, <2>2, <3>2
    <3> QED BY <3>1, <3>3, GateKeeps
  <2> QED BY <2>1, <2>2
<1>11. th'["sync"].pc \in {"idle", "fetch"}
  BY <1>6, <1>7, RestOK
<1> QED
  BY <1>7, <1>8, <1>9, <1>10, <1>11 DEF Pinned

\* What a step of a command is to the other threads and to the pin.
Ran(c) ==
  /\ Threads' /\ Files' /\ \A u \in Thread : u # c => th'[u] = th[u]
  /\ UNCHANGED <<daemon, clock, agreed, merged, raced>>
  /\ th[c].pc \notin {"done"} \cup Merging
  /\ \/ UNCHANGED pin
     \/ ~pin'.released /\ pin'.owner[1] = "command" => pin'.owner[2] = c /\ th'[c].pc = "done"

\* What a command leaves as it was.
LEMMA RanKeeps ==
  ASSUME Pinned, AgreedMerged, NEW c \in Command, Ran(c)
  PROVE  Pinned' /\ AgreedMerged' /\ th'["sync"] = th["sync"]
<1>1. th'["sync"] = th["sync"] /\ c \in Thread
  BY PinsAssumption DEF Ran, Thread
<1>2. SyncGated' /\ AgreedMerged'
  BY <1>1 DEF Ran, SyncGated, Pinned, Bound, AgreedMerged
<1>3. Orphaned'
  <2>1. CASE pin' = pin
    <3>1. SUFFICES ASSUME pin # NoPin, ~pin.released, pin.owner[1] = "command"
                   PROVE  th'[pin.owner[2]].pc = "done"
      BY <2>1 DEF Orphaned
    <3>2. pin.owner[2] \in Command /\ th[pin.owner[2]].pc = "done"
      BY <3>1 DEF Pinned, Orphaned, Files, Rec
    <3> QED BY <3>2 DEF Ran, Thread
  <2>2. CASE pin' # pin
    BY <2>2 DEF Ran, Orphaned
  <2> QED BY <2>1, <2>2
<1> QED
  BY <1>1, <1>2, <1>3 DEF Ran, Pinned

\* A command goes on, and the files are as they were.
LEMMA PlainRun ==
  ASSUME Files, Threads, NEW c \in Command, NEW r, th' = [th EXCEPT ![c] = r],
         ThreadOK(c, r, merged), th[c].pc \notin {"done"} \cup Merging,
         UNCHANGED <<pin, daemon, clock, agreed, held, merged, raced>>
  PROVE  Ran(c)
<1>1. c \in Thread /\ \A p \in Device : merged[p] \subseteq merged'[p]
  BY DEF Thread
<1>2. Threads' /\ \A u \in Thread : u # c => th'[u] = th[u]
  BY <1>1, ThreadStep
<1> QED
  BY <1>2 DEF Ran, Files

\* PinStore::start and mark_released.
LEMMA PinCommands ==
  ASSUME Files, Threads, NEW c \in Command, UNCHANGED collectVars,
         \/ StartCheck(c) \/ StartRecheck(c) \/ StartRefused(c)
         \/ StopLoad(c) \/ StopNothing(c) \/ RenamePin(c)
  PROVE  Ran(c) /\ UNCHANGED held
<1> DEFINE o == th[c]
<1>1. c \in Thread /\ c # "sync" /\ ThreadOK(c, o, merged) /\ IsOp(o)
  BY PinsAssumption DEF Threads, Thread, ThreadOK
<1>2. ThreadOK(c, Ended(c), merged) /\ Ended(c).pc = "done" /\ ThreadOK(c, Idle, merged)
  BY <1>1, RestOK
<1>3. UNCHANGED clock
  BY DEF collectVars
<1>4. CASE StartCheck(c)
  <2>1. PICK own \in BOOLEAN, scope \in Scopes :
          /\ o.pc = "idle"
          /\ th' = [th EXCEPT ![c] = [Idle EXCEPT !.pc = "start", !.kind = "start", !.own = own,
                 !.rec = [owner |-> IF own THEN <<"command", c>> ELSE <<"daemon", daemon.gen>>,
                          scope |-> scope, expires |-> clock + Duration,
                          released |-> FALSE, base |-> agreed]]]
          /\ UNCHANGED <<pin, daemon, agreed, held, merged, raced>>
    BY <1>4 DEF StartCheck, NewPin, Begin
  <2> DEFINE rec == [owner |-> IF own THEN <<"command", c>> ELSE <<"daemon", daemon.gen>>,
                     scope |-> scope, expires |-> clock + Duration,
                     released |-> FALSE, base |-> agreed]
             r == [Idle EXCEPT !.pc = "start", !.kind = "start", !.own = own, !.rec = rec]
  <2>2. rec \in Rec
    BY PinsAssumption DEF Rec, Files
  <2>3. rec.owner[1] = "command" => rec.owner[2] = c
    OBVIOUS
  <2> HIDE DEF rec
  <2>4. IsOp(r) /\ r.pc = "start" /\ r.rec = rec /\ r.kind = "start"
    BY <1>2, <2>2, Fields DEF ThreadOK, IsOp
  <2> HIDE DEF r
  <2>5. ThreadOK(c, r, merged)
    BY <1>1, <2>2, <2>3, <2>4 DEF ThreadOK, Role, Writes, Applies, Merging
  <2>6. th' = [th EXCEPT ![c] = r]
    BY <2>1 DEF r, rec
  <2> QED BY <1>3, <2>1, <2>5, <2>6, PlainRun DEF Merging
<1>5. CASE StartRecheck(c)
  <2> DEFINE r == [o EXCEPT !.pc = "rename"]
  <2>1. o.pc = "start" /\ th' = [th EXCEPT ![c] = r] /\ UNCHANGED <<pin, daemon, agreed, held, merged, raced>>
    BY <1>5 DEF StartRecheck, Goto, Begin
  <2>2. IsOp(r) /\ r.pc = "rename" /\ r.rec = o.rec /\ r.kind = o.kind
    <3> HIDE DEF o
    <3> QED BY <1>1, Fields DEF IsOp
  <2> HIDE DEF r
  <2>3. ThreadOK(c, r, merged)
    BY <1>1, <2>1, <2>2 DEF ThreadOK, Role, Writes, Applies, Merging
  <2> QED BY <1>3, <2>1, <2>3, PlainRun DEF Merging
<1>6. CASE StartRefused(c)
  BY <1>2, <1>3, <1>6, PlainRun DEF StartRefused, Give, Begin, Merging
<1>7. CASE StopLoad(c)
  <2> DEFINE rec == [pin EXCEPT !.released = TRUE]
             r == [o EXCEPT !.pc = "rename", !.rec = rec, !.own = o.pc = "stop" \/ ~daemon.up,
                            !.kind = IF o.pc = "stop" THEN @ ELSE "stop"]
  <2>1. /\ o.pc \in {"idle", "stop", "tell"} /\ pin # NoPin /\ th' = [th EXCEPT ![c] = r]
        /\ UNCHANGED <<pin, daemon, agreed, held, merged, raced>>
    BY <1>7 DEF StopLoad, Begin
  <2>2. rec \in Rec /\ rec.released
    BY <2>1 DEF Rec, Files
  <2> HIDE DEF rec
  <2>3. IsOp(r) /\ r.pc = "rename" /\ r.rec = rec
    <3> HIDE DEF o
    <3> QED BY <1>1, <2>2, Fields DEF IsOp
  <2> HIDE DEF r
  <2>4. ThreadOK(c, r, merged)
    BY <1>1, <2>2, <2>3 DEF ThreadOK, Role, Writes, Applies, Merging
  <2> QED BY <1>3, <2>1, <2>4, PlainRun DEF Merging
<1>8. CASE StopNothing(c)
  <2> DEFINE r == [o EXCEPT !.pc = "tell"]
  <2>1. /\ o.pc \in {"stop", "tell"} /\ UNCHANGED <<pin, daemon, agreed, held, merged, raced>>
        /\ th' = [th EXCEPT ![c] = r] \/ th' = [th EXCEPT ![c] = Ended(c)]
    BY <1>8 DEF StopNothing, Goto, Begin
  <2>2. ThreadOK(c, r, merged)
    <3>1. IsOp(r) /\ r.pc = "tell"
      <4> HIDE DEF o
      <4> QED BY <1>1, Fields DEF IsOp
    <3> HIDE DEF r
    <3> QED BY <1>1, <3>1 DEF ThreadOK, Role, Writes, Applies, Merging
  <2> HIDE DEF r
  <2> QED BY <1>2, <1>3, <2>1, <2>2, PlainRun DEF Merging
<1>9. CASE RenamePin(c)
  <2> DEFINE r == IF o.kind = "release" THEN [o EXCEPT !.pc = "tell"] ELSE Ended(c)
  <2>1. /\ o.pc = "rename" /\ pin' = o.rec /\ th' = [th EXCEPT ![c] = r]
        /\ UNCHANGED <<daemon, agreed, held, merged, raced>>
    BY <1>9 DEF RenamePin, Goto, Begin
  <2>2. /\ o.rec \in Rec /\ (~o.rec.released /\ o.rec.owner[1] = "command" => o.rec.owner[2] = c)
        /\ o.kind = "release" => o.rec.released
    BY <1>1, <2>1 DEF ThreadOK, Writes
  <2>3. ThreadOK(c, r, merged) /\ (o.kind # "release" => r.pc = "done")
    <3> DEFINE x == [o EXCEPT !.pc = "tell"]
    <3>1. IsOp(x) /\ x.pc = "tell"
      <4> HIDE DEF o
      <4> QED BY <1>1, Fields DEF IsOp
    <3> HIDE DEF x
    <3>2. ThreadOK(c, x, merged)
      BY <1>1, <3>1 DEF ThreadOK, Role, Writes, Applies, Merging
    <3> QED BY <1>2, <3>2 DEF x
  <2> HIDE DEF r
  <2>4. Threads' /\ th'[c] = r /\ \A u \in Thread : u # c => th'[u] = th[u]
    BY <1>1, <2>1, <2>3, ThreadStep
  <2>5. Files'
    BY <1>3, <2>1, <2>2 DEF Files
  <2> QED BY <1>3, <2>1, <2>2, <2>3, <2>4, <2>5 DEF Ran, Merging
<1>10. UNCHANGED held
  BY DEF StartCheck, StartRecheck, StartRefused, StopLoad, StopNothing, RenamePin, Give
<1> QED
  BY <1>4, <1>5, <1>6, <1>7, <1>8, <1>9, <1>10

\* `ferry pin release`.
LEMMA ReleaseCommands ==
  ASSUME Files, Threads, NEW c \in Command, UNCHANGED collectVars,
         ReleaseBegin(c) \/ ReleasePeer(c) \/ ReleaseFails(c) \/ ClearPeer(c) \/ ReleaseStops(c)
  PROVE  /\ Ran(c)
         /\ UNCHANGED held \/ ClearPeer(c)
         /\ \A q \in Device : Complete(q)' \subseteq Complete(q)
<1> DEFINE o == th[c]
<1>1. c \in Thread /\ c # "sync" /\ ThreadOK(c, o, merged) /\ IsOp(o)
  BY PinsAssumption DEF Threads, Thread, ThreadOK
<1>2. ThreadOK(c, Ended(c), merged) /\ Ended(c).pc = "done" /\ ThreadOK(c, Idle, merged)
  BY <1>1, RestOK
<1>3. UNCHANGED clock
  BY DEF collectVars
<1>4. CASE ReleaseBegin(c)
  <2> DEFINE r == [Idle EXCEPT !.pc = "peer", !.kind = "release", !.own = TRUE,
                               !.local = folder, !.todo = Ledgers]
  <2>1. /\ o.pc = "idle" /\ th' = [th EXCEPT ![c] = r]
        /\ UNCHANGED <<pin, daemon, agreed, held, merged, raced>>
    BY <1>4 DEF ReleaseBegin, Begin
  <2>2. IsOp(r) /\ r.pc = "peer" /\ r.kind = "release"
    <3>1. Ledgers \in SUBSET Device
      BY DEF Ledgers
    <3>2. IsOp(Idle)
      BY <1>2 DEF ThreadOK
    <3> QED BY <3>1, <3>2, Fields DEF IsOp
  <2> HIDE DEF r
  <2>3. ThreadOK(c, r, merged)
    BY <1>1, <2>2 DEF ThreadOK, Role, Writes, Applies, Merging
  <2>4. Ran(c)
    BY <1>3, <2>1, <2>3, PlainRun DEF Merging
  <2> QED BY <2>1, <2>4 DEF Complete
<1>5. CASE ReleasePeer(c)
  <2>1. PICK p \in o.todo :
          /\ o.pc = "peer"
          /\ \/ /\ Loaded(p) = <<>>
                /\ Begin(c, [o EXCEPT !.pc = "clear", !.peer = p, !.todo = @ \ {p}, !.remote = NoManifest])
             \/ /\ Loaded(p) # <<>>
                /\ \E b \in {EmptyTree} \cup (IF /\ ReleaseBase(p) # NoManifest
                                                 /\ Stored(<<"manifest", ReleaseBase(p)>>)
                                              THEN {ReleaseBase(p).tree} ELSE {}) :
                     Gate(c, [o EXCEPT !.peer = p, !.via = p, !.todo = @ \ {p},
                                       !.remote = Loaded(p)[Len(Loaded(p))].man, !.base = b], Self)
          /\ UNCHANGED <<pin, held, agreed, daemon, raced, merged>>
    BY <1>5, Zenon DEF ReleasePeer
  <2>2. p \in Device /\ p \in Device /\ o.kind = "release"
    BY <1>1, <2>1 DEF IsOp, ThreadOK, Role
  <2>3. CASE Begin(c, [o EXCEPT !.pc = "clear", !.peer = p, !.todo = @ \ {p}, !.remote = NoManifest])
    <3> DEFINE r == [o EXCEPT !.pc = "clear", !.peer = p, !.todo = @ \ {p}, !.remote = NoManifest]
    <3>1. /\ IsOp(r) /\ r.pc = "clear" /\ r.peer = p /\ r.remote = NoManifest /\ r.kind = o.kind
      <4> HIDE DEF o
      <4> QED BY <1>1, <2>2, Fields DEF IsOp
    <3>2. th' = [th EXCEPT ![c] = r]
      BY <2>3 DEF Begin
    <3> HIDE DEF r
    <3>3. ThreadOK(c, r, merged)
      BY <1>1, <2>2, <3>1 DEF ThreadOK, Role, Writes, Applies, Merging
    <3>4. Ran(c)
      BY <1>3, <2>1, <3>2, <3>3, PlainRun DEF Merging
    <3> QED BY <2>1, <3>4 DEF Complete
  <2>4. CASE /\ Loaded(p) # <<>>
             /\ \E b \in {EmptyTree} \cup (IF /\ ReleaseBase(p) # NoManifest
                                              /\ Stored(<<"manifest", ReleaseBase(p)>>)
                                           THEN {ReleaseBase(p).tree} ELSE {}) :
                  Gate(c, [o EXCEPT !.peer = p, !.via = p, !.todo = @ \ {p},
                                    !.remote = Loaded(p)[Len(Loaded(p))].man, !.base = b], Self)
    <3> DEFINE m == Loaded(p)[Len(Loaded(p))].man
    <3>1. PICK b \in {EmptyTree} \cup (IF ReleaseBase(p) # NoManifest THEN {ReleaseBase(p).tree} ELSE {}) :
                 Gate(c, [o EXCEPT !.peer = p, !.via = p, !.todo = @ \ {p}, !.remote = m, !.base = b], Self)
      BY <2>4
    <3> DEFINE r == [o EXCEPT !.peer = p, !.via = p, !.todo = @ \ {p}, !.remote = m, !.base = b]
    <3>2. m \in Sound
      <4>1. Loaded(p) \in Seq(Line)
        BY <2>2 DEF Loaded, Files, Ledger
      <4>2. Loaded(p)[Len(Loaded(p))] \in Line
        BY <2>4, <4>1
      <4> QED BY <4>2 DEF Line
    <3>3. b \in Tree
      <4>1. EmptyTree \in Tree
        BY DEF EmptyTree, Tree
      <4>2. /\ agreed[p] \in Manifest \cup {NoManifest}
            /\ pin # NoPin => pin.base[p] \in Manifest \cup {NoManifest}
        BY <2>2 DEF Files, Rec
      <4>3. ReleaseBase(p) \in Manifest \cup {NoManifest}
        BY <4>2 DEF ReleaseBase
      <4> QED BY <3>1, <4>1, <4>3 DEF Manifest
    <3> HIDE DEF m
    <3>4. IsOp(r) /\ r.peer = p /\ r.remote = m /\ r.kind = o.kind
      <4> HIDE DEF o
      <4> QED BY <1>1, <2>2, <3>2, <3>3, Fields DEF IsOp
    <3>5. Gate(c, r, Self) /\ Self \in Device /\ UNCHANGED merged
      BY <2>1, <3>1, PinsAssumption
    <3> HIDE DEF r
    <3>6. Threads' /\ \A u \in Thread : u # c => th'[u] = th[u]
      BY <1>1, <2>2, <3>2, <3>4, <3>5, GateOK
    <3>7. Files'
      BY <1>3, <2>1 DEF Files
    <3> QED BY <1>3, <2>1, <3>6, <3>7 DEF Ran, Complete, Merging
  <2> QED BY <2>1, <2>3, <2>4
<1>6. CASE ReleaseFails(c)
  <2>1. Ran(c)
    BY <1>2, <1>3, <1>6, PlainRun DEF ReleaseFails, Give, Begin, Merging
  <2> QED BY <1>6, <2>1 DEF ReleaseFails, Give, Complete
<1>7. CASE ClearPeer(c)
  <2> DEFINE r == [o EXCEPT !.pc = "peer"]
  <2>1. /\ o.pc = "clear" /\ held' = [held EXCEPT ![o.peer] = EmptyLedger]
        /\ th' = [th EXCEPT ![c] = r]
        /\ UNCHANGED <<pin, daemon, agreed, merged, raced>>
    BY <1>7 DEF ClearPeer, Goto, Begin
  <2>2. IsOp(r) /\ r.pc = "peer" /\ r.kind = o.kind
    <3> HIDE DEF o
    <3> QED BY <1>1, Fields DEF IsOp
  <2>3. o.peer \in Device
    BY <1>1, <2>1 DEF ThreadOK, Applies
  <2> HIDE DEF r
  <2>4. ThreadOK(c, r, merged')
    BY <1>1, <2>1, <2>2 DEF ThreadOK, Role, Writes, Applies, Merging
  <2>5. Threads' /\ \A u \in Thread : u # c => th'[u] = th[u]
    BY <1>1, <2>1, <2>4, ThreadStep
  <2>6. EmptyLedger \in Ledger /\ EmptyLedger.lines = <<>>
    BY DEF EmptyLedger, Ledger
  <2>7. Files'
    BY <1>3, <2>1, <2>6 DEF Files
  <2>8. ASSUME NEW q \in Device PROVE Complete(q)' \subseteq Complete(q)
    <3>1. held'[q] = held[q] \/ held'[q] = EmptyLedger
      BY <2>1 DEF Files
    <3> QED BY <2>6, <3>1 DEF Complete
  <2> QED BY <1>3, <1>7, <2>1, <2>5, <2>7, <2>8 DEF Ran, Merging
<1>8. CASE ReleaseStops(c)
  <2> DEFINE r == [o EXCEPT !.pc = "stop"]
  <2>1. /\ o.pc = "peer" /\ th' = [th EXCEPT ![c] = r]
        /\ UNCHANGED <<pin, daemon, agreed, held, merged, raced>>
    BY <1>8 DEF ReleaseStops, Goto, Begin
  <2>2. IsOp(r) /\ r.pc = "stop"
    <3> HIDE DEF o
    <3> QED BY <1>1, Fields DEF IsOp
  <2> HIDE DEF r
  <2>3. ThreadOK(c, r, merged)
    BY <1>1, <2>2 DEF ThreadOK, Role, Writes, Applies, Merging
  <2>4. Ran(c)
    BY <1>3, <2>1, <2>3, PlainRun DEF Merging
  <2> QED BY <2>1, <2>4 DEF Complete
<1> QED
  BY <1>4, <1>5, <1>6, <1>7, <1>8

\* Any step of a command.
LEMMA CommandSteps ==
  ASSUME Pinned, AgreedMerged, NEW c \in Command, CommandStep(c)
  PROVE  /\ Pinned' /\ AgreedMerged' /\ th'["sync"] = th["sync"] /\ UNCHANGED <<raced, collectVars>>
         /\ UNCHANGED held \/ ClearPeer(c)
         /\ \A q \in Device : Complete(q)' \subseteq Complete(q)
<1>1. UNCHANGED collectVars
  BY DEF CommandStep
<1>2. CASE ReleaseBegin(c) \/ ReleasePeer(c) \/ ReleaseFails(c) \/ ClearPeer(c) \/ ReleaseStops(c)
  <2>1. /\ Ran(c) /\ (UNCHANGED held \/ ClearPeer(c))
        /\ \A q \in Device : Complete(q)' \subseteq Complete(q)
    BY <1>1, <1>2, ReleaseCommands DEF Pinned
  <2> QED BY <1>1, <2>1, RanKeeps DEF Ran
<1>3. CASE \/ StartCheck(c) \/ StartRecheck(c) \/ StartRefused(c)
           \/ StopLoad(c) \/ StopNothing(c) \/ RenamePin(c)
  <2>1. Ran(c) /\ UNCHANGED held
    BY <1>1, <1>3, PinCommands DEF Pinned
  <2> QED BY <1>1, <2>1, RanKeeps DEF Ran, Complete
<1> QED
  BY <1>2, <1>3 DEF CommandStep

-----------------------------------------------------------------------------
(* The environment. *)

\* Time passes, files of the folder change, packs come and go.
LEMMA QuietKeeps ==
  ASSUME Pinned, AgreedMerged, UNCHANGED <<th, pin, daemon, held, agreed, merged>>,
         clock' \in Nat, clock <= clock', raced' \in BOOLEAN
  PROVE  Pinned' /\ AgreedMerged'
<1>1. Files' /\ Threads' /\ AgreedMerged'
  BY DEF Pinned, Files, Threads, AgreedMerged
<1>2. Orphaned'
  BY DEF Pinned, Orphaned
<1>3. Bound(th["sync"].rec)' => Bound(th["sync"].rec)
  <2>1. th["sync"].rec # NoPin => th["sync"].rec.expires \in Nat
    BY DEF Pinned, Threads, Thread, ThreadOK, IsOp, Rec
  <2> QED BY <2>1 DEF Bound, Pinned, Files
<1>4. SyncGated'
  BY <1>3 DEF Pinned, SyncGated
<1> QED
  BY <1>1, <1>2, <1>4 DEF Pinned

\* A ledger that a crash left in the middle of an append.
LEMMA CrashSteps ==
  ASSUME Files, Threads, held' \in CrashedLedger(th["sync"])
  PROVE  /\ held' \in [Device -> Ledger]
         /\ \A q \in Device : /\ Complete(q) # {} => held'[q] # EmptyLedger
                            /\ \A e \in Complete(q)' : \/ e \in Complete(q)
                                                       \/ /\ th["sync"].pc = "ledger"
                                                          /\ e.man = th["sync"].remote
<1> DEFINE o == th["sync"]
           s(n) == SubSeq(Fresh(o.peer, o.holds, o.remote), 1, n)
<1>1. CASE held' = held
  <2>1. held' \in [Device -> Ledger]
    BY <1>1 DEF Files
  <2>2. ASSUME NEW q \in Device, Complete(q) # {} PROVE held[q] # EmptyLedger
    <3>1. held[q].lines \in Seq(Line)
      BY DEF Files, Ledger
    <3>2. held[q].lines # <<>>
      BY <2>2, <3>1, HasLines DEF Complete
    <3> QED BY <3>2 DEF EmptyLedger
  <2> QED BY <1>1, <2>1, <2>2 DEF Complete
<1>2. CASE held' # held
  <2>1. /\ o.pc = "ledger"
        /\ \E n \in 0 .. Cardinality(o.holds) :
             /\ n <= Len(Fresh(o.peer, o.holds, o.remote))
             /\ held' = [held EXCEPT ![o.peer] = [Appended(@, s(n)) EXCEPT !.torn = TRUE]]
    BY <1>2 DEF CrashedLedger
  <2>2. "sync" \in Thread /\ ThreadOK("sync", o, merged) /\ IsOp(o)
    BY DEF Threads, Thread, ThreadOK
  <2>3. o.peer \in Device /\ o.remote \in Sound /\ o.holds \in SUBSET Path
    BY <2>1, <2>2 DEF ThreadOK, Role, Merges, Merging, IsOp
  <2>4. PICK n \in 0 .. Cardinality(o.holds) :
             /\ n <= Len(Fresh(o.peer, o.holds, o.remote))
             /\ held' = [held EXCEPT ![o.peer] = [Appended(@, s(n)) EXCEPT !.torn = TRUE]]
    BY <2>1
  <2> DEFINE all == [path : Path, man : {o.remote}]
             new == Fresh(o.peer, o.holds, o.remote)
             f == Appended(held[o.peer], s(n))
  <2>5. Cardinality(o.holds) \in Nat
    BY <2>3, PinsAssumption, FS_Subset, FS_CardinalityType
  <2>6. s(n) \in Seq(all)
    <3>1. new \in Seq(all)
      BY <2>3, FreshLines
    <3> HIDE DEF all, new
    <3>2. SubSeq(new, 1, n) \in Seq(all)
      BY <2>4, <2>5, <3>1 DEF new
    <3> QED BY <3>2 DEF new
  <2>7. held[o.peer] \in Ledger
    BY <2>3 DEF Files
  <2>8. /\ f \in Ledger
        /\ held[o.peer].lines # <<>> => f.lines # <<>>
        /\ \A i \in DOMAIN f.lines :
             \/ i \in DOMAIN held[o.peer].lines /\ f.lines[i] = held[o.peer].lines[i]
             \/ f.lines[i].man = o.remote
    <3> HIDE DEF s, o
    <3> QED BY <2>3, <2>6, <2>7, AppendedLines
  <2>9. held' = [held EXCEPT ![o.peer] = [f EXCEPT !.torn = TRUE]]
    BY <2>4
  <2> HIDE DEF f
  <2>10. [f EXCEPT !.torn = TRUE] \in Ledger /\ [f EXCEPT !.torn = TRUE].lines = f.lines
         /\ [f EXCEPT !.torn = TRUE].torn
    BY <2>8 DEF Ledger
  <2>11. /\ held' \in [Device -> Ledger]
         /\ held'[o.peer].lines = f.lines /\ held'[o.peer].torn
         /\ \A q \in Device : q # o.peer => held'[q] = held[q]
    BY <2>3, <2>9, <2>10 DEF Files
  <2>12. ASSUME NEW q \in Device, Complete(q) # {} PROVE held'[q] # EmptyLedger
    <3>1. CASE q = o.peer
      BY <2>11, <3>1 DEF EmptyLedger
    <3>2. CASE q # o.peer
      <4>1. held[q].lines \in Seq(Line)
        BY DEF Files, Ledger
      <4>2. held[q].lines # <<>>
        BY <2>12, <4>1, HasLines DEF Complete
      <4> QED BY <2>11, <3>2, <4>2 DEF EmptyLedger
    <3> QED BY <3>1, <3>2
  <2>13. ASSUME NEW q \in Device, NEW e \in Complete(q)' PROVE e \in Complete(q) \/ e.man = o.remote
    <3>1. CASE q # o.peer
      BY <2>11, <2>13, <3>1 DEF Complete
    <3>2. CASE q = o.peer
      BY <2>8, <2>11, <2>13, <3>2 DEF Complete
    <3> QED BY <3>1, <3>2
  <2> QED BY <2>1, <2>11, <2>12, <2>13
<1> QED
  BY <1>1, <1>2

\* The daemon ends, and its threads with it.
LEMMA DaemonEndsSteps ==
  ASSUME Pinned, AgreedMerged, DaemonEnds, UNCHANGED collectVars
  PROVE  Pinned' /\ AgreedMerged' /\ th'["sync"].pc = "idle"
<1>1. /\ daemon' = [daemon EXCEPT !.up = FALSE] /\ held' \in CrashedLedger(th["sync"])
      /\ th' = [t \in Thread |-> IF t = "sync" \/ (~th[t].own /\ th[t].pc # "idle") THEN Ended(t) ELSE th[t]]
      /\ UNCHANGED <<pin, agreed, merged, raced, clock>>
  BY DEF DaemonEnds, collectVars
<1>2. Files' /\ AgreedMerged'
  BY <1>1, CrashSteps DEF Pinned, Files, AgreedMerged
<1>3. \A t \in Thread : th'[t] = Ended(t) \/ th'[t] = th[t]
  BY <1>1
<1>4. Threads'
  <2>1. ASSUME NEW t \in Thread PROVE ThreadOK(t, th'[t], merged')
    BY <1>1, <1>3, RestOK DEF Pinned, Threads
  <2>2. th' = [t \in Thread |-> th'[t]]
    BY <1>1
  <2> QED BY <2>1, <2>2 DEF Threads
<1>5. "sync" \in Thread /\ th'["sync"] = Ended("sync")
  BY <1>1 DEF Thread
<1>6. th'["sync"].pc = "idle"
  BY <1>5, RestOK
<1>7. Orphaned'
  <2>1. SUFFICES ASSUME pin # NoPin, ~pin.released, pin.owner[1] = "command"
                 PROVE  th'[pin.owner[2]].pc = "done"
    BY <1>1 DEF Orphaned
  <2>2. pin.owner[2] \in Command /\ th[pin.owner[2]].pc = "done"
    BY <2>1 DEF Pinned, Orphaned, Files, Rec
  <2>3. pin.owner[2] \in Thread /\ pin.owner[2] # "sync"
    BY <2>2, PinsAssumption DEF Thread
  <2> QED BY <1>3, <2>2, <2>3, RestOK
<1>8. SyncGated'
  BY <1>6 DEF SyncGated, Merging
<1> QED
  BY <1>2, <1>4, <1>6, <1>7, <1>8 DEF Pinned

\* A daemon starts where none runs: no session is under way.
LEMMA DaemonStartsSteps ==
  ASSUME Pinned, AgreedMerged, DaemonStarts, UNCHANGED collectVars
  PROVE  Pinned' /\ AgreedMerged'
<1>1. /\ ~daemon.up /\ daemon' = [up |-> TRUE, gen |-> daemon.gen + 1]
      /\ UNCHANGED <<pin, held, agreed, merged, raced, clock, th>>
  BY DEF DaemonStarts, collectVars
<1>2. Files' /\ AgreedMerged' /\ Threads' /\ Orphaned'
  BY <1>1 DEF Pinned, Files, AgreedMerged, Threads, Orphaned
<1>3. th["sync"].pc \notin Merging
  BY <1>1 DEF Pinned, SyncGated
<1> QED
  BY <1>1, <1>2, <1>3 DEF Pinned, SyncGated

\* The pin, the threads and the agreements, whatever happens.
LEMMA NextPinned ==
  ASSUME Pinned, AgreedMerged, [Next]_vars
  PROVE  Pinned' /\ AgreedMerged'
<1>1. CASE SessionBegin /\ UNCHANGED collectVars
  BY <1>1, SessionSteps
<1>2. CASE \E t \in Thread : MergeStep(t)
  <2>1. PICK t \in Thread : MergeStep(t)
    BY <1>2
  <2>2. Stepped(t)
    BY <2>1, MergeSteps DEF Pinned
  <2> QED BY <2>2, SteppedKeeps DEF Stepped
<1>3. CASE \E c \in Command : CommandStep(c)
  BY <1>3, CommandSteps
<1>4. clock \in Nat /\ raced \in BOOLEAN
  BY DEF Pinned, Files
<1>5. CASE (UserEdit \/ ScanPass) /\ UNCHANGED collectVars
  BY <1>4, <1>5, QuietKeeps DEF UserEdit, ScanPass, collectVars
<1>6. CASE Collects
  <2>1. UNCHANGED <<clock, th, pin, daemon, held, agreed, merged>>
    BY <1>6 DEF Collects, GcRoots, CollectStep, GcReach, GcSweep, GcSave, GcAbandon, pinVars
  <2>2. raced' \in BOOLEAN
    BY <1>4, <1>6 DEF Collects, pinVars
  <2> QED BY <1>4, <2>1, <2>2, QuietKeeps
<1>7. CASE TimePasses
  BY <1>4, <1>7, QuietKeeps DEF TimePasses, Tick
<1>8. CASE UNCHANGED vars
  BY <1>4, <1>8, QuietKeeps DEF vars, pinVars, collectVars
<1>9. CASE (DaemonEnds \/ DaemonStarts) /\ UNCHANGED collectVars
  BY <1>9, DaemonEndsSteps, DaemonStartsSteps
<1> QED
  BY <1>1, <1>2, <1>3, <1>5, <1>6, <1>7, <1>8, <1>9 DEF Next, Environment

-----------------------------------------------------------------------------
(* A pin is respected. *)

\* Only a step of its own, a start of a session or the end of the daemon moves the
\* sync thread.
LEMMA SyncMoves ==
  ASSUME Pinned, AgreedMerged, [Next]_vars
  PROVE  \/ th'["sync"] = th["sync"]
         \/ MergeStep("sync")
         \/ th["sync"].pc = "idle" /\ SessionBegin
         \/ th'["sync"].pc = "idle" /\ DaemonEnds
<1> "sync" \in Thread
  BY DEF Thread
<1>1. CASE SessionBegin /\ UNCHANGED collectVars
  BY <1>1 DEF SessionBegin
<1>2. CASE \E t \in Thread : MergeStep(t)
  <2>1. PICK t \in Thread : MergeStep(t)
    BY <1>2
  <2>2. Stepped(t)
    BY <2>1, MergeSteps DEF Pinned
  <2> QED BY <2>1, <2>2 DEF Stepped
<1>3. CASE \E c \in Command : CommandStep(c)
  BY <1>3, CommandSteps
<1>4. CASE \/ (UserEdit \/ ScanPass) /\ UNCHANGED collectVars
           \/ TimePasses \/ UNCHANGED vars
  BY <1>4 DEF UserEdit, ScanPass, TimePasses, vars, pinVars
<1>5. CASE Collects
  BY <1>5 DEF Collects, pinVars
<1>6. CASE DaemonEnds /\ UNCHANGED collectVars
  BY <1>6, DaemonEndsSteps
<1>7. CASE DaemonStarts /\ UNCHANGED collectVars
  BY <1>7 DEF DaemonStarts
<1> QED
  BY <1>1, <1>2, <1>3, <1>4, <1>5, <1>6, <1>7 DEF Next, Environment

\* A pin in force is the daemon's.
LEMMA HoldingBound ==
  ASSUME Pinned, Holding(pin)
  PROVE  Bound(pin) /\ pin \in Rec
<1>1. pin \in Rec
  BY DEF Holding, Pinned, Files
<1>2. ~(pin.owner[1] = "command" /\ th[pin.owner[2]].pc # "done")
  BY DEF Pinned, Orphaned, Holding
<1> QED
  BY <1>1, <1>2 DEF Holding, Alive, Bound

\* A session that writes what the pin covers was gated by another record.
LEMMA PinStep ==
  ASSUME Pinned, AgreedMerged, [Next]_vars, th["sync"].pc = "apply", th'["sync"].pc = "log",
         NEW p \in Path, folder'[p] # folder[p], Holding(pin), Covers(pin.scope, p)
  PROVE  th["sync"].rec # pin
<1> DEFINE o == th["sync"]
<1>1. SUFFICES ASSUME o.rec = pin PROVE FALSE
  OBVIOUS
<1>2. "sync" \in Thread /\ o.pc \in Merging
  BY DEF Thread, Merging
<1>3. MergeStep("sync")
  BY SyncMoves
<1>4. Apply("sync")
  BY <1>3 DEF MergeStep, FetchItems, FetchPack, FetchNothing, FlushHeld, Quarantine, AppendLog,
              CompactLog, AppendHeld, Settle
<1>5. folder' = Applied(o.plan, o.base, folder, o.remote.tree)
  <2>1. ~Give("sync")
    <3>1. SUFFICES ASSUME th' = [th EXCEPT !["sync"] = Ended("sync")] PROVE FALSE
      BY DEF Give, Begin
    <3>2. th'["sync"] = Ended("sync")
      BY <1>2, <3>1 DEF Pinned, Threads
    <3> QED BY <1>2, <3>2, RestOK
  <2> QED BY <1>4, <2>1 DEF Apply
<1>6. /\ Bound(pin) /\ pin \in Rec
      /\ \A x \in o.plan.materialize \cup o.plan.synth : ~Covers(pin.scope, x)
  BY <1>1, <1>2, HoldingBound DEF Pinned, SyncGated
<1>7. p \notin o.plan.materialize \cup o.plan.synth
  BY <1>6
<1>8. PICK a \in o.plan.materialize : a \in Ancestors(p)
  BY <1>5, <1>7, AppliedAt
<1>9. pin.scope \in SUBSET Path
  BY <1>6 DEF Rec
<1> QED
  BY <1>6, <1>8, <1>9, CoversAbove

-----------------------------------------------------------------------------
(* An agreement is true of the folder. *)

\* A clean merge takes the remote version of every path that differs.
LEMMA CleanTakes ==
  ASSUME NEW o, Merges(o), o.base \in Tree, Clean(o), NEW p \in Path, ~BelowRetyped(o, p)
  PROVE  \/ Seen(o.base[p], Applied(o.plan, o.base, o.before, o.remote.tree)[p])
              = Seen(o.base[p], o.remote.tree[p])
         \/ Seen(o.base[p], o.before[p]) # Seen(o.base[p], o.local[p])
<1>0. PICK a \in Device : o.plan = Gated(PlanOf(o, a), o.holds)
  BY DEF Merges
<1> DEFINE P == PlanOf(o, a)
           R == o.remote.tree
           d == P.dec[p]
<1>1. o.holds = {} /\ o.plan = Gated(P, {})
  BY <1>0 DEF Clean
<1>2. o.plan.materialize = P.materialize /\ o.plan.synth = P.synth /\ o.plan.dec = P.dec
      /\ o.plan.localWins = P.localWins
  <2>1. /\ Gated(P, {}).materialize = P.materialize \ {} /\ Gated(P, {}).synth = P.synth \ {}
        /\ Gated(P, {}).dec = P.dec /\ Gated(P, {}).localWins = P.localWins
    <3>1. IsPlan(P)
      BY PlanFacts DEF PlanOf
    <3> HIDE DEF P
    <3> QED BY <3>1, GatedIs
  <2> HIDE DEF P
  <2> QED BY <1>1, <2>1
<1>3. \A x \in Path : P.dec[x] \notin Conflicts \cup LocalWins
  <2>1. P.localWins <=> \E x \in Path : P.dec[x] \in LocalWins
    BY PlanFacts DEF PlanOf
  <2> HIDE DEF P
  <2> QED BY <1>1, <1>2, <2>1 DEF Clean
<1>4. d = Decide(o.base[p], Shown(o.base, o.local)[p], Shown(o.base, R)[p], a, o.peer)
  BY PlanFacts DEF PlanOf
<1>5. /\ Shown(o.base, o.local)[p] = Seen(o.base[p], o.local[p])
      /\ Shown(o.base, R)[p] = Seen(o.base[p], R[p])
  <2>1. DOMAIN o.base = Path
    BY DEF Tree
  <2> QED BY <2>1 DEF Shown, BelowRetyped
<1>6. CASE d \in TakesRemote
  <2>1. p \in P.materialize
    BY <1>3, <1>6, PlanFacts DEF PlanOf
  <2>2. Applied(o.plan, o.base, o.before, R)[p] = R[p]
    BY <1>2, <2>1, AppliedAt
  <2> QED BY <2>2
<1>7. CASE d \notin TakesRemote
  <2>1. d = "nothing"
    <3>1. \A b, l, r, x, y : Decide(b, l, r, x, y) \in
            {"nothing", "keep_local", "apply_remote", "conflict_local", "conflict_remote"}
      BY DEF Decide
    <3> QED BY <1>3, <1>4, <1>7, <3>1 DEF Conflicts, LocalWins, TakesRemote
  <2>2. Seen(o.base[p], o.local[p]) = Seen(o.base[p], R[p])
    <3>1. \A b, l, r, x, y : Decide(b, l, r, x, y) = "nothing" => l = r
      BY DEF Decide
    <3> QED BY <1>4, <1>5, <2>1, <3>1
  <2>3. p \notin P.materialize \cup P.synth
    <3>1. (\A x \in P.materialize : P.dec[x] \in TakesRemote) /\ (\A x \in P.synth : P.dec[x] # "nothing")
      BY PlanFacts DEF PlanOf
    <3> QED BY <1>7, <2>1, <3>1
  <2>4. \/ Applied(o.plan, o.base, o.before, R)[p] = o.before[p]
        \/ /\ Applied(o.plan, o.base, o.before, R)[p] = NoEntry
           /\ \E q \in o.plan.materialize : ~IsDir(R[q]) /\ q \in Ancestors(p)
    BY <1>2, <2>3, AppliedAt
  <2>5. CASE Applied(o.plan, o.base, o.before, R)[p] = o.before[p]
    BY <2>2, <2>5
  <2>6. CASE /\ Applied(o.plan, o.base, o.before, R)[p] = NoEntry
             /\ \E q \in o.plan.materialize : ~IsDir(R[q]) /\ q \in Ancestors(p)
    <3>1. ValidTree(R)
      BY DEF Merges, Sound
    <3>2. R[p] = NoEntry
      BY <2>6, <3>1 DEF ValidTree
    <3> QED BY <2>6, <3>2
  <2> QED BY <2>4, <2>5, <2>6
<1> QED
  BY <1>6, <1>7

\* Who records an agreement settles a clean merge.
LEMMA AgreeStep ==
  ASSUME Pinned, AgreedMerged, [Next]_vars, NEW t \in Thread, th[t].pc = "hold", agreed' # agreed,
         th'[t] # th[t]
  PROVE  Clean(th[t]) /\ Merges(th[t]) /\ th[t].base \in Tree
<1>1. PICK u \in Thread : Settle(u) /\ UNCHANGED collectVars
  <2>1. CASE SessionBegin /\ UNCHANGED collectVars
    BY <2>1 DEF SessionBegin
  <2>2. CASE \E u \in Thread : MergeStep(u)
    BY <2>2 DEF MergeStep, FetchItems, FetchPack, FetchNothing, FlushHeld, Quarantine, Apply, AppendLog,
                CompactLog, AppendHeld, Give
  <2>3. CASE \E c \in Command : CommandStep(c)
    BY <2>3 DEF CommandStep, StartCheck, StartRecheck, StartRefused, StopLoad, StopNothing, RenamePin,
                ReleaseBegin, ReleasePeer, ReleaseFails, ClearPeer, ReleaseStops, Give
  <2>4. CASE Environment \/ Collects \/ TimePasses \/ UNCHANGED vars
    BY <2>4 DEF Environment, UserEdit, ScanPass, DaemonEnds, DaemonStarts, Collects, TimePasses,
                vars, pinVars
  <2> QED BY <2>1, <2>2, <2>3, <2>4 DEF Next
<1>2. Stepped(u)
  BY <1>1, SettleSteps DEF Pinned
<1>3. t = u
  BY <1>2 DEF Stepped
<1>4. Clean(th[t])
  BY <1>1, <1>3 DEF Settle
<1> QED
  BY <1>4 DEF Pinned, Threads, ThreadOK, Role, Merging, IsOp

-----------------------------------------------------------------------------
(* What is held stays readable. *)

\* The blobs of more packs.
LEMMA MoreBlobs ==
  ASSUME NEW ps, NEW k
  PROVE  BlobsOf(ps \cup {k}) = BlobsOf(ps) \cup k.blobs
BY DEF BlobsOf

\* Steps that leave the collectors, the ledgers and the sync thread alone, and
\* lose no blob.
LEMMA StaysSafe ==
  ASSUME Safe, UNCHANGED <<gc, packs, raced>>, th'["sync"] = th["sync"], staged \subseteq staged',
         \A p \in Device : Complete(p)' \subseteq Complete(p)
  PROVE  Safe'
<1>1. Collectors'
  BY DEF Safe, Collectors
<1>2. CollectsAll'
  BY DEF Safe, CollectsAll
<1>3. \A b : Stored(b)' <=> Stored(b)
  BY DEF Stored
<1>4. HeldReadable'
  BY <1>3 DEF Safe, HeldReadable, Readable
<1>5. Fetched'
  <2>1. SUFFICES ASSUME ~raced
                 PROVE  /\ th["sync"].pc \in Merging \ {"fetch"} =>
                             \A b \in Refs(th["sync"].remote) : b[1] = "chunk" => b \in BlobsOf(packs) \cup staged'
                        /\ th["sync"].pc = "ledger" => Readable(th["sync"].remote)
    BY DEF Fetched, Readable, Stored
  <2> QED BY <2>1 DEF Safe, Fetched
<1> QED
  BY <1>1, <1>2, <1>4, <1>5 DEF Safe

\* A step of the sync thread's merge that loses no blob, adds nothing to the ledgers
\* that cannot be read, and fetches what it says.
LEMMA SyncSafe ==
  ASSUME Safe, th["sync"].pc \in Merging, UNCHANGED <<gc, raced>>, BlobsOf(packs) \subseteq BlobsOf(packs'),
         ~raced => \A p \in Device : \A e \in Complete(p)' : e \in Complete(p) \/ Readable(e.man),
         Fetched'
  PROVE  Safe'
<1>1. Collectors'
  BY DEF Safe, Collectors
<1>2. ~raced => \A c \in Collector : gc[c].pc = "idle"
  BY DEF Safe, CollectsAll, Merging
<1>3. CollectsAll'
  BY <1>2 DEF CollectsAll
<1>4. \A b : Stored(b) => Stored(b)'
  BY DEF Stored
<1>5. HeldReadable'
  BY <1>4 DEF Safe, HeldReadable, Readable
<1> QED
  BY <1>1, <1>3, <1>5 DEF Safe

\* A session fetches the chunks of the manifest.
LEMMA FetchSafe ==
  ASSUME Pinned, AgreedMerged, Safe, FetchItems("sync") \/ FetchPack("sync")
  PROVE  Safe'
<1> DEFINE o == th["sync"]
<1>1. "sync" \in Thread /\ o.pc = "fetch" /\ o.kind = "session"
  BY DEF FetchItems, FetchPack, Thread, Pinned, Threads, ThreadOK, Role, Merging
<1>2. th' = [th EXCEPT !["sync"] = [o EXCEPT !.pc = "copy"]] /\ UNCHANGED <<gc, raced, held>>
  BY DEF FetchItems, FetchPack, Goto, Begin, collectVars
<1>3. IsOp(o)
  BY <1>1 DEF Pinned, Threads, ThreadOK
<1>4. th'["sync"].pc = "copy" /\ th'["sync"].remote = o.remote
  <2>1. th'["sync"] = [o EXCEPT !.pc = "copy"]
    BY <1>1, <1>2 DEF Pinned, Threads
  <2>2. Moves(o, [o EXCEPT !.pc = "copy"]) /\ [o EXCEPT !.pc = "copy"].pc = "copy"
    BY <1>3, MovesIs
  <2> QED BY <2>1, <2>2 DEF Moves
<1>5. \A b \in Refs(o.remote) : b[1] = "chunk" => b \in BlobsOf(packs) \cup staged \cup MissingChunks(o)
  BY <1>1 DEF MissingChunks
<1>6. /\ BlobsOf(packs) \subseteq BlobsOf(packs')
      /\ BlobsOf(packs) \cup staged \cup MissingChunks(o) \subseteq BlobsOf(packs') \cup staged'
  <2>1. CASE FetchItems("sync")
    BY <2>1 DEF FetchItems, collectVars
  <2>2. CASE FetchPack("sync")
    <3>1. packs' = packs \cup {PeerPack(o)} /\ staged' = staged /\ PeerPack(o).blobs = MissingChunks(o)
      BY <2>2 DEF FetchPack, PeerPack
    <3> QED BY <3>1, MoreBlobs
  <2> QED BY <2>1, <2>2
<1>7. Fetched'
  <2>1. \A b \in Refs(o.remote) : b[1] = "chunk" => b \in BlobsOf(packs') \cup staged'
    BY <1>5, <1>6
  <2> QED BY <1>4, <2>1 DEF Fetched
<1>8. \A p \in Device : \A e \in Complete(p)' : e \in Complete(p)
  BY <1>2 DEF Complete
<1> QED
  BY <1>1, <1>2, <1>6, <1>7, <1>8, SyncSafe DEF Merging

\* The flush makes all of the held manifest readable.
LEMMA FlushSafe ==
  ASSUME Pinned, AgreedMerged, Safe, FlushHeld("sync")
  PROVE  Safe'
<1> DEFINE o == th["sync"]
           blobs == staged \cup ({<<"manifest", o.remote>>} \ BlobsOf(packs))
           k == [id |-> <<"own", spent.sessions, daemon.gen>>, blobs |-> blobs, born |-> clock]
<1>1. "sync" \in Thread /\ o.pc = "hold"
  BY DEF FlushHeld, Thread
<1>2. /\ th' = [th EXCEPT !["sync"] = [o EXCEPT !.pc = "ledger"]] /\ UNCHANGED <<gc, raced, held>>
      /\ packs' = IF blobs = {} THEN packs ELSE packs \cup {k}
  BY DEF FlushHeld, Goto, Begin
<1>3. IsOp(o)
  BY <1>1 DEF Pinned, Threads, ThreadOK
<1>4. th'["sync"].pc = "ledger" /\ th'["sync"].remote = o.remote
  <2>1. th'["sync"] = [o EXCEPT !.pc = "ledger"]
    BY <1>1, <1>2 DEF Pinned, Threads
  <2>2. Moves(o, [o EXCEPT !.pc = "ledger"]) /\ [o EXCEPT !.pc = "ledger"].pc = "ledger"
    BY <1>3, MovesIs
  <2> QED BY <2>1, <2>2 DEF Moves
<1>5. BlobsOf(packs') = BlobsOf(packs) \cup blobs
  <2>1. k.blobs = blobs
    OBVIOUS
  <2> HIDE DEF blobs, k
  <2> QED BY <1>2, <2>1, MoreBlobs
<1>6. ASSUME ~raced, NEW b \in Refs(o.remote) PROVE b \in BlobsOf(packs')
  <2>1. b[1] = "chunk" \/ b = <<"manifest", o.remote>>
    BY DEF Refs
  <2>2. b[1] = "chunk" => b \in BlobsOf(packs) \cup staged
    BY <1>1, <1>6 DEF Safe, Fetched, Merging
  <2> QED BY <1>5, <2>1, <2>2
<1>7. Fetched'
  BY <1>2, <1>4, <1>6 DEF Fetched, Readable, Stored
<1>8. \A p \in Device : \A e \in Complete(p)' : e \in Complete(p)
  BY <1>2 DEF Complete
<1> QED
  BY <1>1, <1>2, <1>5, <1>7, <1>8, SyncSafe DEF Merging

\* The other steps of a merge of the sync thread.
LEMMA SyncMergeSafe ==
  ASSUME Pinned, AgreedMerged, Safe, UNCHANGED collectVars,
         \/ Quarantine("sync") \/ Apply("sync") \/ AppendLog("sync") \/ CompactLog("sync")
         \/ AppendHeld("sync") \/ Settle("sync")
  PROVE  Safe'
<1> DEFINE o == th["sync"]
<1>1. "sync" \in Thread /\ MergeStep("sync") /\ o.pc \in Merging \ {"fetch"}
  BY DEF Thread, MergeStep, Quarantine, Apply, AppendLog, CompactLog, AppendHeld, Settle, Merging
<1>2. Stepped("sync")
  BY <1>1, MergeSteps DEF Pinned
<1>3. UNCHANGED <<gc, packs, raced>> /\ staged \subseteq staged'
  BY DEF collectVars, Quarantine, Apply, AppendLog, CompactLog, AppendHeld, Settle, Give
<1>4. th'["sync"].pc = "ledger" => FALSE
  <2>1. CASE AppendHeld("sync") \/ Settle("sync")
    <3>1. th' = [th EXCEPT !["sync"] = Ended("sync")] \/ th' = [th EXCEPT !["sync"] = [o EXCEPT !.pc = "clear"]]
      BY <2>1 DEF AppendHeld, Settle, Begin, Goto
    <3>2. th'["sync"] = Ended("sync") \/ th'["sync"] = [o EXCEPT !.pc = "clear"]
      BY <1>1, <3>1 DEF Pinned, Threads
    <3>3. [o EXCEPT !.pc = "clear"].pc = "clear"
      BY <1>1, MovesIs DEF Pinned, Threads, ThreadOK
    <3> QED BY <1>1, <3>2, <3>3, RestOK
  <2>2. CASE Quarantine("sync") \/ CompactLog("sync")
    <3>1. \/ th' = [th EXCEPT !["sync"] = Ended("sync")] \/ th' = [th EXCEPT !["sync"] = [o EXCEPT !.pc = "apply"]]
          \/ th' = [th EXCEPT !["sync"] = [o EXCEPT !.pc = "hold"]]
      BY <2>2 DEF Quarantine, CompactLog, Give, Begin, Goto
    <3>2. \/ th'["sync"] = Ended("sync") \/ th'["sync"] = [o EXCEPT !.pc = "apply"]
          \/ th'["sync"] = [o EXCEPT !.pc = "hold"]
      BY <1>1, <3>1 DEF Pinned, Threads
    <3>3. [o EXCEPT !.pc = "apply"].pc = "apply" /\ [o EXCEPT !.pc = "hold"].pc = "hold"
      BY <1>1, MovesIs DEF Pinned, Threads, ThreadOK
    <3> QED BY <1>1, <3>2, <3>3, RestOK
  <2>3. CASE Apply("sync") \/ AppendLog("sync")
    <3>1. IsOp(o)
      BY <1>1 DEF Pinned, Threads, ThreadOK
    <3>2. \A x : /\ [o EXCEPT !.pc = "log", !.before = x].pc = "log"
                 /\ [o EXCEPT !.pc = "compact", !.kept = x].pc = "compact"
      <4> HIDE DEF o
      <4> QED BY <3>1, Fields DEF IsOp
    <3>3. [o EXCEPT !.pc = "hold"].pc = "hold"
      BY <3>1, MovesIs
    <3>4. \E x : \/ th' = [th EXCEPT !["sync"] = Ended("sync")]
                 \/ th' = [th EXCEPT !["sync"] = [o EXCEPT !.pc = "hold"]]
                 \/ th' = [th EXCEPT !["sync"] = [o EXCEPT !.pc = "log", !.before = x]]
                 \/ th' = [th EXCEPT !["sync"] = [o EXCEPT !.pc = "compact", !.kept = x]]
      BY <2>3, Zenon DEF Apply, AppendLog, Give, Begin, Goto
    <3>5. \E x : \/ th'["sync"] = Ended("sync")
                 \/ th'["sync"] = [o EXCEPT !.pc = "hold"]
                 \/ th'["sync"] = [o EXCEPT !.pc = "log", !.before = x]
                 \/ th'["sync"] = [o EXCEPT !.pc = "compact", !.kept = x]
      BY <1>1, <3>4 DEF Pinned, Threads
    <3> QED BY <1>1, <3>2, <3>3, <3>5, RestOK
  <2> QED BY <2>1, <2>2, <2>3
<1>5. Fetched'
  <2>1. th'["sync"].pc \in Merging => th'["sync"].remote = o.remote
    BY <1>1, <1>2, RestOK DEF Stepped, Moves, Merging
  <2>2. ~raced => \A b \in Refs(o.remote) : b[1] = "chunk" => b \in BlobsOf(packs) \cup staged
    BY <1>1 DEF Safe, Fetched
  <2> QED BY <1>3, <1>4, <2>1, <2>2 DEF Fetched
<1>6. ~raced => \A p \in Device : \A e \in Complete(p)' : e \in Complete(p) \/ Readable(e.man)
  <2>1. CASE AppendHeld("sync")
    <3>1. \A p \in Device : \A e \in Complete(p)' : e \in Complete(p) \/ e.man = o.remote
      BY <1>1, <2>1, AppendHeldSteps DEF Pinned
    <3>2. ~raced => Readable(o.remote)
      BY <2>1 DEF AppendHeld, Safe, Fetched
    <3> QED BY <3>1, <3>2
  <2>2. CASE ~AppendHeld("sync")
    <3>1. UNCHANGED held
      BY <2>2 DEF Quarantine, Apply, AppendLog, CompactLog, Settle, Give
    <3> QED BY <3>1 DEF Complete
  <2> QED BY <2>1, <2>2
<1> QED
  BY <1>1, <1>3, <1>5, <1>6, SyncSafe

\* A release fetches nothing, and holds nothing.
LEMMA ReleaseMergeSafe ==
  ASSUME Pinned, AgreedMerged, Safe, NEW t \in Thread, t # "sync", MergeStep(t)
  PROVE  Safe'
<1> DEFINE o == th[t]
<1>1. ThreadOK(t, o, merged) /\ o.pc \in Merging /\ o.kind = "release" /\ o.holds = {} /\ o.pc # "ledger"
  <2>1. Stepped(t) /\ ThreadOK(t, o, merged)
    BY MergeSteps DEF Pinned, Threads
  <2> QED BY <2>1 DEF Stepped, ThreadOK, Role
<1>2. Stepped(t)
  BY MergeSteps DEF Pinned
<1>3. ~FetchPack(t) /\ ~FlushHeld(t) /\ ~AppendHeld(t)
  BY <1>1 DEF FetchPack, FlushHeld, AppendHeld
<1>4. UNCHANGED <<gc, packs, raced, held>> /\ staged \subseteq staged'
  BY <1>3 DEF MergeStep, FetchItems, FetchNothing, Quarantine, Apply, AppendLog, CompactLog, Settle, Give, collectVars
<1>5. th'["sync"] = th["sync"]
  BY <1>2 DEF Stepped, Thread
<1> QED
  BY <1>4, <1>5, StaysSafe DEF Complete

\* The daemon ends, perhaps while it appends to a ledger.
LEMMA EndSafe ==
  ASSUME Pinned, AgreedMerged, Safe, DaemonEnds, UNCHANGED collectVars
  PROVE  Safe'
<1>1. held' \in CrashedLedger(th["sync"]) /\ UNCHANGED <<raced, gc, packs>>
  BY DEF DaemonEnds, collectVars
<1>2. \A q \in Device : \A e \in Complete(q)' :
        e \in Complete(q) \/ (th["sync"].pc = "ledger" /\ e.man = th["sync"].remote)
  BY <1>1, CrashSteps DEF Pinned
<1>3. th'["sync"].pc = "idle"
  BY DaemonEndsSteps
<1>4. Collectors' /\ Fetched'
  BY <1>1, <1>3 DEF Safe, Collectors, Fetched, Merging
<1>5. CollectsAll'
  BY <1>1, <1>2, <1>3 DEF Safe, CollectsAll
<1>6. HeldReadable'
  <2>1. \A b : Stored(b)' <=> Stored(b)
    BY <1>1 DEF Stored
  <2>2. \A m : Readable(m)' <=> Readable(m)
    BY <2>1 DEF Readable
  <2> QED BY <1>1, <1>2, <2>2 DEF Safe, HeldReadable, Fetched
<1> QED
  BY <1>4, <1>5, <1>6 DEF Safe

\* The fields of a collector.
LEMMA CollectorFields ==
  DOMAIN IdleCollector = {"pc", "roots", "reach", "todo", "ledger", "now", "grace"}
BY DEF IdleCollector

\* A collector at rest.
LEMMA IdleCollects == IsCollector(IdleCollector) /\ IdleCollector.pc = "idle"
<1>1. IdleCollector = [f \in DOMAIN IdleCollector |-> IdleCollector[f]]
  BY DEF IdleCollector
<1> QED
  BY <1>1 DEF IsCollector, IdleCollector

\* One collector takes a step, and what it knows is still true.
LEMMA CollectorStep ==
  ASSUME Safe, NEW c \in Collector, NEW g, gc' = [gc EXCEPT ![c] = g], IsCollector(g),
         UNCHANGED <<th, held, staged>>, ~raced' => ~raced,
         ~raced' /\ g.pc # "idle" =>
           /\ th["sync"].pc = "idle"
           /\ \A p \in Device : \A e \in Complete(p) : e.man \in g.roots
           /\ g.pc = "sweeping" => \A m \in g.roots : Refs(m) \subseteq g.reach,
         \/ packs' = packs
         \/ ~raced => /\ th["sync"].pc = "idle"
                      /\ \A p \in Device : \A e \in Complete(p) : Readable(e.man)'
  PROVE  Safe'
<1>1. gc' = [d \in Collector |-> IF d = c THEN g ELSE gc[d]]
  BY DEF Safe, Collectors
<1>2. gc'[c] = g /\ \A d \in Collector : d # c => gc'[d] = gc[d]
  BY <1>1
<1>3. Collectors'
  <2>1. gc' = [d \in Collector |-> gc'[d]]
    BY <1>1
  <2>2. \A d \in Collector : IsCollector(gc'[d])
    BY <1>2 DEF Safe, Collectors
  <2> QED BY <2>1, <2>2 DEF Collectors
<1>4. \A p \in Device : Complete(p)' = Complete(p)
  BY DEF Complete
<1>5. CollectsAll'
  <2>1. SUFFICES ASSUME ~raced', NEW d \in Collector, gc'[d].pc # "idle"
                 PROVE  /\ th["sync"].pc = "idle"
                        /\ \A p \in Device : \A e \in Complete(p) : e.man \in gc'[d].roots
                        /\ gc'[d].pc = "sweeping" => \A m \in gc'[d].roots : Refs(m) \subseteq gc'[d].reach
    BY <1>4 DEF CollectsAll
  <2>2. CASE d = c
    BY <1>2, <2>1, <2>2
  <2>3. CASE d # c
    BY <1>2, <2>1, <2>3 DEF Safe, CollectsAll
  <2> QED BY <2>2, <2>3
<1>6. CASE packs' = packs
  <2>1. \A m : Readable(m)' <=> Readable(m)
    BY <1>6 DEF Readable, Stored
  <2>2. HeldReadable'
    BY <1>4, <2>1 DEF Safe, HeldReadable
  <2>3. Fetched'
    BY <1>6, <2>1 DEF Safe, Fetched
  <2> QED BY <1>3, <1>5, <2>2, <2>3 DEF Safe
<1>7. CASE ~raced => /\ th["sync"].pc = "idle"
                     /\ \A p \in Device : \A e \in Complete(p) : Readable(e.man)'
  <2>1. HeldReadable'
    BY <1>4, <1>7 DEF HeldReadable
  <2>2. Fetched'
    BY <1>7 DEF Fetched, Merging
  <2> QED BY <1>3, <1>5, <2>1, <2>2 DEF Safe
<1> QED
  BY <1>6, <1>7

\* live_roots: all that is held is a root.
LEMMA RootsSafe ==
  ASSUME Pinned, Safe, NEW c \in Collector, GcRoots(c, Roots), raced' = (raced \/ th["sync"].pc # "idle"),
         UNCHANGED <<th, held, staged>>
  PROVE  Safe'
<1>1. PICK grace \in Graces :
        gc' = [gc EXCEPT ![c] = [IdleCollector EXCEPT !.pc = "rooted", !.roots = Roots,
                                                      !.now = clock, !.grace = grace]]
  BY DEF GcRoots
<1> DEFINE g == [IdleCollector EXCEPT !.pc = "rooted", !.roots = Roots, !.now = clock, !.grace = grace]
<1>2. IsCollector(g) /\ g.pc = "rooted" /\ g.roots = Roots
  BY CollectorFields, IdleCollects DEF IsCollector
<1>3. \A p \in Device : \A e \in Complete(p) : e.man \in Roots
  BY DEF Roots
<1>4. UNCHANGED packs /\ gc' = [gc EXCEPT ![c] = g]
  BY <1>1 DEF GcRoots
<1>5. (~raced' => ~raced) /\ (~raced' => th["sync"].pc = "idle")
  BY DEF Pinned, Files
<1> HIDE DEF g
<1> QED
  BY <1>2, <1>3, <1>4, <1>5, CollectorStep

\* The sweep deletes only packs that no root reaches.
LEMMA SweepSafe ==
  ASSUME Safe, NEW c \in Collector, CollectStep, UNCHANGED pinVars,
         GcReach(c) \/ GcSweep(c) \/ GcSave(c) \/ GcAbandon(c)
  PROVE  Safe'
<1> DEFINE g == gc[c]
<1>1. IsCollector(g) /\ UNCHANGED <<th, held, staged, raced>>
  BY DEF Safe, Collectors, pinVars
<1>2. ~raced /\ g.pc # "idle" =>
        /\ th["sync"].pc = "idle"
        /\ \A p \in Device : \A e \in Complete(p) : e.man \in g.roots
        /\ g.pc = "sweeping" => \A m \in g.roots : Refs(m) \subseteq g.reach
  BY DEF Safe, CollectsAll
<1>3. CASE GcReach(c)
  <2> DEFINE r == [g EXCEPT !.pc = "sweeping", !.reach = UNION {Refs(m) : m \in g.roots},
                            !.ledger = marks, !.todo = {k.id : k \in packs}]
  <2>1. g.pc = "rooted" /\ UNCHANGED packs
    BY <1>3 DEF GcReach
  <2>2. gc' = [gc EXCEPT ![c] = r]
    <3>1. gc = [d \in Collector |-> gc[d]]
      BY DEF Safe, Collectors
    <3> QED BY <1>3, <3>1 DEF GcReach
  <2>3. IsCollector(r) /\ r.pc = "sweeping" /\ r.roots = g.roots /\ r.reach = UNION {Refs(m) : m \in g.roots}
    <3> HIDE DEF g
    <3> QED BY <1>1, CollectorFields DEF IsCollector
  <2>4. \A m \in r.roots : Refs(m) \subseteq r.reach
    <3> HIDE DEF g, r
    <3> QED BY <2>3
  <2> HIDE DEF r
  <2> QED BY <1>1, <1>2, <2>1, <2>2, <2>3, <2>4, CollectorStep
<1>4. CASE GcSweep(c)
  <2>1. PICK k \in packs :
          /\ g.pc = "sweeping"
          /\ \/ gc' = [gc EXCEPT ![c] = [[g EXCEPT !.todo = @ \ {k.id}] EXCEPT !.ledger =
                                           Unmarked(@, k.id) \cup {<<k.id, FirstUnref(g.ledger, k.id, g.now)>>}]]
             \/ gc' = [gc EXCEPT ![c] = [[g EXCEPT !.todo = @ \ {k.id}] EXCEPT !.ledger = Unmarked(@, k.id)]]
          /\ packs' = packs \/ (packs' = packs \ {k} /\ ~LivePack(k, g.reach))
    BY <1>4, Zenon DEF GcSweep
  <2>2. PICK r : /\ gc' = [gc EXCEPT ![c] = r]
                 /\ IsCollector(r) /\ r.pc = g.pc /\ r.roots = g.roots /\ r.reach = g.reach
    <3>1. \A T, L : LET r == [[g EXCEPT !.todo = T] EXCEPT !.ledger = L]
                    IN  IsCollector(r) /\ r.pc = g.pc /\ r.roots = g.roots /\ r.reach = g.reach
      <4> HIDE DEF g
      <4> QED BY <1>1, CollectorFields DEF IsCollector
    <3>2. PICK T, L : gc' = [gc EXCEPT ![c] = [[g EXCEPT !.todo = T] EXCEPT !.ledger = L]]
      BY <2>1, Zenon
    <3> DEFINE r == [[g EXCEPT !.todo = T] EXCEPT !.ledger = L]
    <3>3. gc' = [gc EXCEPT ![c] = r] /\ IsCollector(r) /\ r.pc = g.pc /\ r.roots = g.roots /\ r.reach = g.reach
      BY <3>1, <3>2
    <3> HIDE DEF r, g
    <3> QED BY <3>3
  <2>3. CASE packs' = packs
    BY <1>1, <1>2, <2>1, <2>2, <2>3, CollectorStep
  <2>4. CASE packs' = packs \ {k} /\ ~LivePack(k, g.reach)
    <3>1. ASSUME ~raced, NEW p \in Device, NEW e \in Complete(p) PROVE Readable(e.man)'
      <4>1. Readable(e.man) /\ Refs(e.man) \subseteq g.reach
        BY <1>2, <2>1, <3>1 DEF Safe, HeldReadable
      <4>2. ASSUME NEW b \in Refs(e.man) PROVE b \in BlobsOf(packs')
        <5>1. PICK l \in packs : b \in l.blobs
          BY <4>1 DEF Readable, Stored, BlobsOf
        <5>2. l # k
          BY <2>4, <4>1, <5>1 DEF LivePack
        <5> QED BY <2>4, <5>1, <5>2 DEF BlobsOf
      <4> QED BY <4>2 DEF Readable, Stored
    <3> QED BY <1>1, <1>2, <2>1, <2>2, <3>1, CollectorStep
  <2> QED BY <2>1, <2>3, <2>4
<1>5. CASE GcSave(c) \/ GcAbandon(c)
  <2>1. gc' = [gc EXCEPT ![c] = IdleCollector] /\ UNCHANGED packs
    BY <1>5 DEF GcSave, GcAbandon
  <2> QED BY <1>1, <2>1, IdleCollects, CollectorStep
<1> QED
  BY <1>3, <1>4, <1>5

\* A session begins: from here on a collection that is under way has met it.
LEMMA BeginSafe ==
  ASSUME Pinned, AgreedMerged, Safe, SessionBegin, UNCHANGED collectVars
  PROVE  Safe'
<1>1. UNCHANGED <<gc, packs, held>> /\ raced' = (raced \/ Collecting)
  BY DEF SessionBegin, collectVars
<1>2. th'["sync"].pc \in {"idle", "fetch"}
  BY SessionSteps
<1>3. ~raced' => ~raced /\ \A c \in Collector : gc[c].pc = "idle"
  BY <1>1 DEF Pinned, Files, Collecting
<1>4. Collectors' /\ Fetched'
  BY <1>1, <1>2 DEF Safe, Collectors, Fetched, Merging
<1>5. CollectsAll'
  BY <1>1, <1>3 DEF CollectsAll
<1>6. \A m : Readable(m)' <=> Readable(m)
  BY <1>1 DEF Readable, Stored
<1>7. HeldReadable'
  BY <1>1, <1>3, <1>6 DEF Safe, HeldReadable, Complete
<1> QED
  BY <1>4, <1>5, <1>7 DEF Safe

\* The merge of a session never lacks a peer to fetch from.
LEMMA MergeSafe ==
  ASSUME Pinned, AgreedMerged, Safe, NEW t \in Thread, MergeStep(t)
  PROVE  Safe'
<1>1. CASE t # "sync"
  BY <1>1, ReleaseMergeSafe
<1>2. CASE t = "sync"
  <2>1. ~FetchNothing("sync")
    BY <1>2 DEF FetchNothing, Pinned, Threads, ThreadOK, Role, Merging
  <2>2. CASE FetchItems("sync") \/ FetchPack("sync")
    BY <2>2, FetchSafe
  <2>3. CASE FlushHeld("sync")
    BY <2>3, FlushSafe
  <2>4. CASE /\ \/ Quarantine("sync") \/ Apply("sync") \/ AppendLog("sync") \/ CompactLog("sync")
                \/ AppendHeld("sync") \/ Settle("sync")
             /\ UNCHANGED collectVars
    BY <2>4, SyncMergeSafe
  <2> QED BY <1>2, <2>1, <2>2, <2>3, <2>4 DEF MergeStep
<1> QED
  BY <1>1, <1>2

\* Every step keeps what is held readable.
LEMMA NextSafe ==
  ASSUME Pinned, AgreedMerged, Safe, [Next]_vars
  PROVE  Safe'
<1>1. CASE SessionBegin /\ UNCHANGED collectVars
  BY <1>1, BeginSafe
<1>2. CASE \E t \in Thread : MergeStep(t)
  BY <1>2, MergeSafe
<1>3. ASSUME NEW c \in Command, CommandStep(c) PROVE Safe'
  <2>1. UNCHANGED staged
    BY <1>3 DEF CommandStep, StartCheck, StartRecheck, StartRefused, StopLoad, StopNothing, RenamePin,
                ReleaseBegin, ReleasePeer, ReleaseFails, ClearPeer, ReleaseStops, Give
  <2>2. /\ th'["sync"] = th["sync"] /\ UNCHANGED <<raced, collectVars>>
        /\ \A q \in Device : Complete(q)' \subseteq Complete(q)
    BY <1>3, CommandSteps
  <2> QED BY <2>1, <2>2, StaysSafe DEF collectVars
<1>4. CASE Environment
  <2>1. CASE DaemonEnds
    BY <1>4, <2>1, EndSafe DEF Environment
  <2>2. CASE UserEdit \/ ScanPass \/ DaemonStarts
    <3>1. UNCHANGED <<gc, packs, raced, th, staged, held>>
      BY <1>4, <2>2 DEF Environment, UserEdit, ScanPass, DaemonStarts, collectVars
    <3> QED BY <3>1, StaysSafe DEF Complete
  <2> QED BY <1>4, <2>1, <2>2 DEF Environment
<1>5. CASE Collects
  <2>1. CASE CollectStep /\ UNCHANGED pinVars
    BY <2>1, SweepSafe DEF CollectStep
  <2>2. CASE ~(CollectStep /\ UNCHANGED pinVars)
    <3>1. PICK c \in Collector : GcRoots(c, Roots)
      BY <1>5, <2>2 DEF Collects
    <3>2. raced' = (raced \/ th["sync"].pc # "idle") /\ UNCHANGED <<th, held, staged>>
      BY <1>5, <2>2 DEF Collects
    <3> QED BY <3>1, <3>2, RootsSafe
  <2> QED BY <2>1, <2>2
<1>6. CASE TimePasses \/ UNCHANGED vars
  <2>1. UNCHANGED <<gc, packs, raced, th, staged, held>>
    BY <1>6 DEF TimePasses, Tick, vars, pinVars, collectVars
  <2> QED BY <2>1, StaysSafe DEF Complete
<1> QED
  BY <1>1, <1>2, <1>3, <1>4, <1>5, <1>6 DEF Next

-----------------------------------------------------------------------------
(* The initial states, and what a release forgets. *)

\* Nothing is held, and every peer is agreed with.
LEMMA InitInv ==
  ASSUME Init
  PROVE  Inv
<1>1. InitialTree \in Tree /\ Self \in Device
  BY PinsAssumption
<1>2. \A p \in Device : agreed[p] \in Manifest \cup {NoManifest}
  BY <1>1 DEF Init, Manifest
<1>3. agreed \in [Device -> Manifest \cup {NoManifest}]
  BY <1>2 DEF Init
<1>4. EmptyLedger \in Ledger
  <2>1. <<>> \in Seq(Line)
    OBVIOUS
  <2> HIDE DEF Line
  <2> QED BY <2>1 DEF EmptyLedger, Ledger
<1>5. merged \in [Device -> SUBSET (Manifest \cup {NoManifest})] /\ AgreedMerged
  BY <1>2 DEF Init, AgreedMerged
<1>6. Files
  BY <1>3, <1>4, <1>5 DEF Init, Files, CollectInit
<1>7. Threads
  <2>1. th = [t \in Thread |-> th[t]] /\ \A t \in Thread : th[t] = Idle
    BY DEF Init
  <2>2. \A t \in Thread : ThreadOK(t, Idle, merged)
    BY RestOK
  <2> QED BY <2>1, <2>2 DEF Threads
<1>8. Idle.pc = "idle" /\ "sync" \in Thread
  BY DEF Idle, Thread
<1>9. th["sync"].pc = "idle"
  BY <1>8 DEF Init
<1>10. Orphaned /\ SyncGated /\ Fetched
  BY <1>9 DEF Init, Orphaned, SyncGated, Fetched, Merging
<1>11. Collectors /\ CollectsAll
  BY IdleCollects DEF Init, CollectInit, Collectors, CollectsAll
<1>12. HeldReadable
  BY DEF Init, HeldReadable, Complete, EmptyLedger
<1> QED
  BY <1>5, <1>6, <1>7, <1>10, <1>11, <1>12 DEF Inv, Pinned, Safe

\* Lines leave a ledger only when a release has merged what it read from it.
LEMMA ForgetStep ==
  ASSUME Inv, [Next]_vars, NEW p \in Device, Complete(p) # {}, held'[p] = EmptyLedger
  PROVE  /\ \E t \in Command : /\ th[t].pc = "clear" /\ th[t].peer = p
                               /\ th[t].remote # NoManifest => th[t].remote \in merged[p]
         /\ \A e \in Complete(p) : agreed[p] = e.man => e.man \in merged[p]
<1>1. Files /\ Threads /\ AgreedMerged /\ Pinned
  BY DEF Inv, Pinned
<1>2. held[p] # EmptyLedger /\ Complete(p)' = {}
  BY DEF Complete, EmptyLedger
<1>3. PICK c \in Command : ClearPeer(c)
  <2>1. CASE SessionBegin /\ UNCHANGED collectVars
    BY <1>2, <2>1 DEF SessionBegin
  <2>2. ASSUME NEW t \in Thread, MergeStep(t) PROVE FALSE
    <3>1. CASE AppendHeld(t) /\ UNCHANGED collectVars
      BY <1>1, <1>2, <3>1, AppendHeldSteps
    <3>2. CASE ~(AppendHeld(t) /\ UNCHANGED collectVars)
      BY <1>2, <2>2, <3>2 DEF MergeStep, FetchItems, FetchPack, FetchNothing, FlushHeld, Quarantine, Apply,
                               AppendLog, CompactLog, Settle, Give
    <3> QED BY <3>1, <3>2
  <2>3. CASE \E c \in Command : CommandStep(c)
    BY <1>1, <1>2, <2>3, CommandSteps
  <2>4. CASE Environment
    <3>1. CASE DaemonEnds
      BY <1>1, <3>1, CrashSteps DEF DaemonEnds
    <3>2. CASE ~DaemonEnds
      BY <1>2, <2>4, <3>2 DEF Environment, UserEdit, ScanPass, DaemonStarts
    <3> QED BY <3>1, <3>2
  <2>5. CASE Collects \/ TimePasses \/ UNCHANGED vars
    BY <1>2, <2>5 DEF Collects, TimePasses, vars, pinVars
  <2> QED BY <2>1, <2>2, <2>3, <2>4, <2>5 DEF Next
<1>4. th[c].pc = "clear" /\ c \in Thread /\ held' = [held EXCEPT ![th[c].peer] = EmptyLedger]
  BY <1>3 DEF ClearPeer, Thread
<1>5. th[c].peer = p
  BY <1>1, <1>2, <1>4 DEF Files
<1>6. th[c].remote # NoManifest => th[c].remote \in merged[p]
  BY <1>1, <1>4, <1>5 DEF Threads, ThreadOK, Applies
<1> QED
  BY <1>1, <1>4, <1>5, <1>6 DEF AgreedMerged

-----------------------------------------------------------------------------
(* The theorems. *)

\* The inductive invariant of the pins, the ledgers and the collectors: every
\* thread carries out the plan it gated, a record on disk whose owner is a
\* command has outlived it, and what a collection and a session know of each
\* other is still true.
THEOREM PinsInvariance == Spec => []Inv
<1>1. Init => Inv
  BY InitInv
<1>2. Inv /\ [Next]_vars => Inv'
  BY NextPinned, NextSafe DEF Inv
<1> QED
  BY <1>1, <1>2, PTL DEF Spec

\* Held changes stay readable: unless a collection and a session overlapped, what
\* a held ledger names is in packs on disk, for any number of peers, commands and
\* collectors (gc.rs live_roots, held.rs and the flush of converge).
THEOREM HeldStaysReadable == Spec => []HeldReadable
<1>1. Inv => HeldReadable
  BY DEF Inv, Safe
<1> QED
  BY <1>1, PinsInvariance, PTL

\* A pin is respected: what the sync thread writes is outside of the scope of the
\* pin in force, unless it passed the gate before that pin was written
\* (gate_plan of converge.rs and PinStore::load).
THEOREM PinsRespected == Spec => PinRespected
<1>1. Inv /\ [Next]_vars =>
        [ (th["sync"].pc = "apply" /\ folder' # folder /\ th'["sync"].pc = "log")
            => \A p \in Path : (folder'[p] # folder[p] /\ Holding(pin) /\ Covers(pin.scope, p))
                                 => th["sync"].rec # pin ]_vars
  BY PinStep DEF Inv
<1> QED
  BY <1>1, PinsInvariance, PTL DEF Spec, PinRespected

\* An agreement is true of the folder: it is recorded only by a clean merge, which
\* leaves every path with the remote version, if nobody edited the path meanwhile
\* and it is not below an entry that a side retyped (Settle of converge).
THEOREM AgreementsTrue == Spec => AgreedApplied
<1>1. Inv /\ [Next]_vars =>
        [ \A t \in Thread : (th[t].pc = "hold" /\ agreed' # agreed /\ th'[t] # th[t])
            => LET o == th[t]
               IN  \A p \in Path : \/ Seen(o.base[p], Applied(o.plan, o.base, o.before, o.remote.tree)[p])
                                        = Seen(o.base[p], o.remote.tree[p])
                                   \/ Seen(o.base[p], o.before[p]) # Seen(o.base[p], o.local[p])
                                   \/ BelowRetyped(o, p) ]_vars
  BY AgreeStep, CleanTakes DEF Inv
<1> QED
  BY <1>1, PinsInvariance, PTL DEF Spec, AgreedApplied

\* A release forgets nothing: it clears a ledger only after the last manifest it
\* read from it was merged, and no agreement names a manifest that was cleared
\* unmerged (release_peer and the clear of held.rs).
THEOREM ReleaseKeeps == Spec => ReleaseForgetsNothing
<1>1. Inv /\ [Next]_vars =>
        [ \A p \in Device : (Complete(p) # {} /\ held'[p] = EmptyLedger)
            => /\ \E t \in Command : /\ th[t].pc = "clear" /\ th[t].peer = p
                                     /\ th[t].remote # NoManifest => th[t].remote \in merged[p]
               /\ \A e \in Complete(p) : agreed[p] = e.man => e.man \in merged[p] ]_vars
  BY ForgetStep
<1> QED
  BY <1>1, PinsInvariance, PTL DEF Spec, ReleaseForgetsNothing
=============================================================================

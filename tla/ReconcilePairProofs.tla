------------------------ MODULE ReconcilePairProofs ------------------------
(***************************************************************************)
(* Theorems about the merge and about two ends that merge each other's     *)
(* offers, for any paths however deeply nested, any contents and times, and *)
(* any trees.                                                              *)
(***************************************************************************)
EXTENDS ReconcilePair, SequenceTheorems, TLAPS

AnyTree == [Path -> Entry \union {NoEntry}]

-----------------------------------------------------------------------------
(* Paths. *)

\* The directories above a path are paths, shorter than it.
LEMMA AboveIsPath ==
  ASSUME NEW p \in Path, NEW a \in Ancestors(p)
  PROVE  a \in Path /\ a \in Seq(STRING) /\ Len(a) < Len(p) /\ p \in Seq(STRING)
<1>1. p \in Seq(STRING) /\ a \in Path
  BY PathAssumption
<1>2. PICK i \in 1 .. Len(p) - 1 : a = SubSeq(p, 1, i)
  BY DEF Ancestors
<1>3. Len(a) = i
  BY <1>1, <1>2
<1> QED
  BY <1>1, <1>2, <1>3, PathAssumption

\* What is above a directory above p is above p.
LEMMA AboveAbove ==
  ASSUME NEW p \in Path, NEW a \in Ancestors(p), NEW b \in Ancestors(a)
  PROVE  b \in Ancestors(p)
<1>1. p \in Seq(STRING)
  BY PathAssumption
<1>2. PICK i \in 1 .. Len(p) - 1 : a = SubSeq(p, 1, i)
  BY DEF Ancestors
<1>3. Len(a) = i /\ \A k \in 1 .. i : a[k] = p[k]
  BY <1>1, <1>2
<1>4. PICK j \in 1 .. Len(a) - 1 : b = SubSeq(a, 1, j)
  BY DEF Ancestors
<1>5. b = SubSeq(p, 1, j)
  BY <1>1, <1>2, <1>3, <1>4
<1> QED
  BY <1>1, <1>3, <1>4, <1>5 DEF Ancestors

-----------------------------------------------------------------------------
(* The plan. *)

\* The sets that Plan builds on its way, P being the plan and l, r what the two
\* manifests show against the base.
Survivors(P, l) ==
  P.quarantine \union {p \in Path : P.dec[p] = "conflict_local"}
    \union {p \in Path : P.dec[p] = "keep_local" /\ l[p] # NoEntry}
Suppressed(P, l, r) ==
  {a \in Path : /\ P.dec[a] \in TakesRemote /\ r[a] = NoEntry
                /\ \E p \in Survivors(P, l) : a \in Ancestors(p)}
Targets(P, r) == P.quarantine \union {p \in P.materialize : r[p] # NoEntry}
Above(P, l, r) ==
  {a \in Path \ Suppressed(P, l, r) :
     P.dec[a] # "nothing" /\ \E p \in Targets(P, r) : a \in Ancestors(p)}

\* P is the plan of a merge.
IsPlan(P, B, l, r, x, y) ==
  /\ \A p \in Path : P.dec[p] = Decide(B[p], l[p], r[p], x, y)
  /\ \A p \in Path : P.lost[p] = Loser(P.dec[p], l[p], r[p])
  /\ P.quarantine = {p \in Path : P.dec[p] \in Conflicts /\ P.lost[p] # NoEntry}
  /\ P.materialize = {p \in Path : P.dec[p] \in TakesRemote} \ Suppressed(P, l, r)
  /\ P.synth = {a \in Above(P, l, r) : Outcome(P.dec[a], l[a], r[a]) = NoEntry /\ IsDir(B[a])}
  /\ ~P.structural =>
       /\ \A p \in P.quarantine : ~IsDir(P.lost[p])
       /\ \A a \in Above(P, l, r) \ P.synth : IsDir(Outcome(P.dec[a], l[a], r[a]))

\* reconcile, taken apart.
LEMMA PlanIs ==
  ASSUME NEW B, NEW L, NEW R, NEW x, NEW y
  PROVE  IsPlan(Plan(B, L, R, x, y), B, Shown(B, L), Shown(B, R), x, y)
<1> DEFINE l == Shown(B, L)
           r == Shown(B, R)
           dec == [p \in Path |-> Decide(B[p], l[p], r[p], x, y)]
           lost == [p \in Path |-> Loser(dec[p], l[p], r[p])]
           final == [p \in Path |-> Outcome(dec[p], l[p], r[p])]
           quarantine == {p \in Path : dec[p] \in Conflicts /\ lost[p] # NoEntry}
           survivors == quarantine
                          \union {p \in Path : dec[p] = "conflict_local"}
                          \union {p \in Path : dec[p] = "keep_local" /\ l[p] # NoEntry}
           taken == {p \in Path : dec[p] \in TakesRemote}
           suppressed == {a \in taken : /\ r[a] = NoEntry
                                        /\ \E p \in survivors : a \in Ancestors(p)}
           materialize == taken \ suppressed
           targets == quarantine \union {p \in materialize : r[p] # NoEntry}
           above == {a \in Path \ suppressed :
                       dec[a] # "nothing" /\ \E p \in targets : a \in Ancestors(p)}
           synth == {a \in above : final[a] = NoEntry /\ IsDir(B[a])}
           structural == \/ \E p \in quarantine : IsDir(lost[p])
                         \/ \E a \in above \ synth : ~IsDir(final[a])
           P == Plan(B, L, R, x, y)
<1>1. P = [dec |-> dec, materialize |-> materialize, synth |-> synth, quarantine |-> quarantine,
           lost |-> lost, localWins |-> \E p \in Path : dec[p] \in LocalWins, structural |-> structural]
  BY Zenon DEF Plan
<1> HIDE DEF l, r
<1>2. \A p \in Path : /\ dec[p] = Decide(B[p], l[p], r[p], x, y)
                      /\ lost[p] = Loser(dec[p], l[p], r[p])
                      /\ final[p] = Outcome(dec[p], l[p], r[p])
  BY Zenon
<1> HIDE DEF dec, lost, final
<1>3. P.dec = dec /\ P.lost = lost /\ P.quarantine = quarantine /\ P.materialize = materialize
      /\ P.synth = synth /\ P.structural = structural
  <2> HIDE DEF quarantine, materialize, synth, structural, P
  <2> QED BY <1>1
<1>4. Survivors(P, l) = survivors
  BY <1>3 DEF Survivors
<1>5. Suppressed(P, l, r) = suppressed
  BY <1>3, <1>4 DEF Suppressed
<1>6. Targets(P, r) = targets
  BY <1>3 DEF Targets
<1>7. Above(P, l, r) = above
  BY <1>3, <1>5, <1>6 DEF Above
<1>8. P.synth = {a \in Above(P, l, r) : Outcome(P.dec[a], l[a], r[a]) = NoEntry /\ IsDir(B[a])}
  <2> HIDE DEF above
  <2>1. above \subseteq Path
    BY DEF above
  <2> QED BY <1>2, <1>3, <1>7, <2>1
<1>9. ~P.structural =>
        /\ \A p \in P.quarantine : ~IsDir(P.lost[p])
        /\ \A a \in Above(P, l, r) \ P.synth : IsDir(Outcome(P.dec[a], l[a], r[a]))
  <2>1. above \subseteq Path
    OBVIOUS
  <2> HIDE DEF quarantine, above, synth
  <2> QED BY <1>2, <1>3, <1>7, <2>1
<1>10. P.materialize = {p \in Path : P.dec[p] \in TakesRemote} \ Suppressed(P, l, r)
  BY <1>3, <1>5
<1>11. IsPlan(P, B, l, r, x, y)
  <2>1. P.quarantine = {p \in Path : P.dec[p] \in Conflicts /\ P.lost[p] # NoEntry}
    BY <1>3
  <2> HIDE DEF P
  <2> QED BY <1>2, <1>3, <1>8, <1>9, <1>10, <2>1 DEF IsPlan
<1> QED
  BY <1>11 DEF l, r

-----------------------------------------------------------------------------
(* One path. *)

\* What entries are.
LEMMA Entries ==
  ASSUME NEW e \in Entry
  PROVE  /\ e # NoEntry /\ e.kind \in {"file", "symlink", "dir"} /\ e.t \in Int
         /\ e.kind = "dir" => e.c = 0
         /\ e = [kind |-> e.kind, c |-> e.c, t |-> e.t]
BY NoEntryAssumption, TimeAssumption DEF Entry

\* The decision, by what changed.
LEMMA DecideIs ==
  ASSUME NEW b, NEW l, NEW r, NEW x, NEW y
  PROVE  LET d == Decide(b, l, r, x, y)
         IN /\ d \in {"nothing", "keep_local", "apply_remote", "conflict_local", "conflict_remote"}
            /\ d = "nothing" => l = r
            /\ d \in TakesRemote => r # b
            /\ d \in LocalWins => l # b
            /\ d = "apply_remote" => l = b \/ (SameContent(l, r) /\ l # NoEntry /\ r # NoEntry)
            /\ d = "keep_local" => r = b \/ (SameContent(l, r) /\ l # NoEntry /\ r # NoEntry)
            /\ d \in Conflicts => l # b /\ r # b /\ l # r
            /\ d = "conflict_local" => l # NoEntry
            /\ d = "conflict_remote" => r # NoEntry
            /\ l # b /\ r # b /\ l # r /\ l # NoEntry /\ r # NoEntry =>
                 (SameContent(l, r) <=> d \notin Conflicts)
            /\ r = b /\ l # b => d = "keep_local"
            /\ r # b /\ l = b => d = "apply_remote"
BY Zenon DEF Decide, TakesRemote, LocalWins, Conflicts

\* The same decision seen from the other end.
Mirror(d) == CASE d = "keep_local" -> "apply_remote"
               [] d = "apply_remote" -> "keep_local"
               [] d = "conflict_local" -> "conflict_remote"
               [] d = "conflict_remote" -> "conflict_local"
               [] OTHER -> d

\* pick_winner names the same version whichever end asks, unless the versions
\* and the devices tie.
LEMMA WinnerMirror ==
  ASSUME NEW l \in Entry, NEW r \in Entry, NEW x \in Int, NEW y \in Int, x # y \/ l.t # r.t
  PROVE  PickWinner(l, r, x, y) = "local" <=> PickWinner(r, l, y, x) # "local"
<1>1. l.t \in Int /\ r.t \in Int
  BY Entries
<1> QED
  BY <1>1 DEF PickWinner

\* decide: what one end keeps the other takes.
LEMMA DecideMirror ==
  ASSUME NEW b, NEW l \in Entry \union {NoEntry}, NEW r \in Entry \union {NoEntry},
         NEW x \in Int, NEW y \in Int, l # b /\ r # b => x # y \/ ~Tied(l, r)
  PROVE  Decide(b, r, l, y, x) = Mirror(Decide(b, l, r, x, y))
<1>1. CASE l # b /\ r # b /\ l # r /\ l # NoEntry /\ r # NoEntry
  <2>1. PickWinner(l, r, x, y) = "local" <=> PickWinner(r, l, y, x) # "local"
    <3>1. l \in Entry /\ r \in Entry /\ (x # y \/ l.t # r.t)
      BY <1>1 DEF Tied
    <3> QED BY <3>1, WinnerMirror
  <2>2. SameContent(l, r) <=> SameContent(r, l)
    BY DEF SameContent
  <2>3. Decide(b, l, r, x, y) =
          IF SameContent(l, r)
          THEN IF PickWinner(l, r, x, y) = "local" THEN "keep_local" ELSE "apply_remote"
          ELSE IF PickWinner(l, r, x, y) = "local" THEN "conflict_local" ELSE "conflict_remote"
    BY <1>1, Zenon DEF Decide
  <2>4. Decide(b, r, l, y, x) =
          IF SameContent(r, l)
          THEN IF PickWinner(r, l, y, x) = "local" THEN "keep_local" ELSE "apply_remote"
          ELSE IF PickWinner(r, l, y, x) = "local" THEN "conflict_local" ELSE "conflict_remote"
    BY <1>1, Zenon DEF Decide
  <2> HIDE DEF Decide
  <2> QED BY <2>1, <2>2, <2>3, <2>4 DEF Mirror
<1>2. CASE l = b \/ r = b \/ l = r \/ l = NoEntry \/ r = NoEntry
  <2>1. CASE l = b /\ r = b
    <3>1. Decide(b, l, r, x, y) = "nothing" /\ Decide(b, r, l, y, x) = "nothing"
      BY <2>1, Zenon DEF Decide
    <3> QED BY <3>1 DEF Mirror
  <2>2. CASE l # b /\ r = b
    <3>1. Decide(b, l, r, x, y) = "keep_local" /\ Decide(b, r, l, y, x) = "apply_remote"
      BY <2>2, Zenon DEF Decide
    <3> QED BY <3>1 DEF Mirror
  <2>3. CASE l = b /\ r # b
    <3>1. Decide(b, l, r, x, y) = "apply_remote" /\ Decide(b, r, l, y, x) = "keep_local"
      BY <2>3, Zenon DEF Decide
    <3> QED BY <3>1 DEF Mirror
  <2>4. CASE l # b /\ r # b /\ l = r
    <3>1. Decide(b, l, r, x, y) = "nothing" /\ Decide(b, r, l, y, x) = "nothing"
      BY <2>4, Zenon DEF Decide
    <3> QED BY <3>1 DEF Mirror
  <2>5. CASE l # b /\ r # b /\ l # r /\ l = NoEntry
    <3>1. Decide(b, l, r, x, y) = "conflict_remote" /\ Decide(b, r, l, y, x) = "conflict_local"
      BY <2>5, Zenon DEF Decide
    <3> QED BY <3>1 DEF Mirror
  <2>6. CASE l # b /\ r # b /\ l # r /\ r = NoEntry
    <3>1. Decide(b, l, r, x, y) = "conflict_local" /\ Decide(b, r, l, y, x) = "conflict_remote"
      BY <2>6, Zenon DEF Decide
    <3> QED BY <3>1 DEF Mirror
  <2> QED BY <1>2, <2>1, <2>2, <2>3, <2>4, <2>5, <2>6
<1> QED
  BY <1>1, <1>2

\* A directory that stays one is shown as it was, everything else as it is.
LEMMA SeenIs ==
  ASSUME NEW b \in Entry \union {NoEntry}, NEW s \in Entry \union {NoEntry}
  PROVE  /\ Seen(b, s) \in Entry \union {NoEntry}
         /\ Seen(b, s) = NoEntry <=> s = NoEntry
         /\ IsDir(Seen(b, s)) <=> IsDir(s)
         /\ Seen(b, s) # b => Seen(b, s) = s
         /\ ~IsDir(s) => Seen(b, s) = s
         /\ ~IsDir(b) => Seen(b, s) = s
BY DEF Seen, IsDir

-----------------------------------------------------------------------------
(* What a manifest shows against the base. *)

\* Nothing above p was replaced by an entry of another kind.
Unretyped(B, T, p) == \A a \in Ancestors(p) : ~Retyped(B[a], T[a])

\* Below a retyped entry nothing is shown as changed, elsewhere what is there.
LEMMA ShownIs ==
  ASSUME NEW B \in AnyTree, NEW T \in AnyTree, NEW p \in Path
  PROVE  /\ Shown(B, T)[p] \in Entry \union {NoEntry}
         /\ Unretyped(B, T, p) => Shown(B, T)[p] = Seen(B[p], T[p])
         /\ ~Unretyped(B, T, p) => Shown(B, T)[p] = B[p]
         /\ Shown(B, T)[p] # B[p] => Unretyped(B, T, p) /\ Shown(B, T)[p] = T[p]
         /\ B[p] \in Entry \union {NoEntry} /\ T[p] \in Entry \union {NoEntry}
<1>1. B[p] \in Entry \union {NoEntry} /\ T[p] \in Entry \union {NoEntry} /\ DOMAIN B = Path
  BY DEF AnyTree
<1>2. Shown(B, T)[p] = IF \E a \in Ancestors(p) : Retyped(B[a], T[a]) THEN B[p] ELSE Seen(B[p], T[p])
  BY <1>1, Zenon DEF Shown
<1> QED
  BY <1>1, <1>2, SeenIs DEF Unretyped

\* A retyped entry lies below no other.
LEMMA RetypedOnce ==
  ASSUME NEW B \in AnyTree, NEW T \in AnyTree, NEW p \in Path, ValidTree(B), ValidTree(T),
         Retyped(B[p], T[p])
  PROVE  Unretyped(B, T, p) /\ Shown(B, T)[p] = T[p]
<1>1. \A a \in Ancestors(p) : IsDir(B[a]) /\ IsDir(T[a])
  BY DEF ValidTree, Retyped
<1>2. Unretyped(B, T, p)
  BY <1>1 DEF Unretyped, Retyped, IsDir
<1> QED
  BY <1>2, ShownIs DEF Seen, Retyped, IsDir

\* What lies above a path and is not retyped is above nothing retyped either.
LEMMA UnretypedAbove ==
  ASSUME NEW B, NEW T, NEW p \in Path, Unretyped(B, T, p), NEW a \in Ancestors(p)
  PROVE  Unretyped(B, T, a)
BY AboveAbove DEF Unretyped

-----------------------------------------------------------------------------
(* A merge that is carried out. *)

\* x holds L and merges what y offered, R, from the base B by the plan P.
Merge(P, B, L, R, x, y) ==
  /\ B \in AnyTree /\ L \in AnyTree /\ R \in AnyTree
  /\ ValidTree(B) /\ ValidTree(L) /\ ValidTree(R)
  /\ x \in Int /\ y \in Int
  /\ IsPlan(P, B, Shown(B, L), Shown(B, R), x, y)
  /\ ~P.structural

\* The devices that made L and R tell every pair of versions apart.
Decided(L, R, x, y) == x # y \/ \A p \in Path : ~Tied(L[p], R[p])

\* p lies below an entry that is removed or replaced by a file.
Cleared(P, R, p) == \E a \in P.materialize : ~IsDir(R[a]) /\ a \in Ancestors(p)

\* What the disk holds at a path afterwards.
LEMMA AppliedIs ==
  ASSUME NEW P, NEW B, NEW T, NEW R, NEW p \in Path
  PROVE  Applied(P, B, T, R)[p] =
           IF p \in P.materialize THEN R[p]
           ELSE IF p \in P.synth THEN B[p]
           ELSE IF Cleared(P, R, p) THEN NoEntry ELSE T[p]
<1>1. Cleared(P, R, p) <=> \E a \in {q \in P.materialize : ~IsDir(R[q])} : a \in Ancestors(p)
  BY DEF Cleared
<1> QED
  BY <1>1, Zenon DEF Applied

\* What is known of a single path.
LEMMA MergeAt ==
  ASSUME NEW P, NEW B, NEW L, NEW R, NEW x, NEW y, Merge(P, B, L, R, x, y), NEW p \in Path
  PROVE  LET l == Shown(B, L)[p]
             r == Shown(B, R)[p]
             d == P.dec[p]
         IN /\ d = Decide(B[p], l, r, x, y)
            /\ d \in {"nothing", "keep_local", "apply_remote", "conflict_local", "conflict_remote"}
            /\ d = "nothing" => l = r
            /\ d \in TakesRemote => r # B[p] /\ r = R[p] /\ Unretyped(B, R, p)
            /\ d \in LocalWins => l # B[p] /\ l = L[p] /\ Unretyped(B, L, p)
            /\ d \in Conflicts => r # B[p] /\ r = R[p] /\ Unretyped(B, R, p)
                                  /\ l # B[p] /\ l = L[p] /\ Unretyped(B, L, p)
            /\ d = "conflict_local" => l # NoEntry /\ P.lost[p] = r
            /\ d = "conflict_remote" => r # NoEntry /\ P.lost[p] = l
            /\ d = "keep_local" => r = B[p] \/ (SameContent(l, r) /\ l # NoEntry /\ r # NoEntry)
            /\ d = "apply_remote" => l = B[p] \/ (SameContent(l, r) /\ l # NoEntry /\ r # NoEntry)
            /\ l # B[p] /\ r # B[p] /\ l # r /\ l # NoEntry /\ r # NoEntry =>
                 (SameContent(l, r) <=> d \notin Conflicts)
            /\ r = B[p] /\ l # B[p] => d = "keep_local"
            /\ r # B[p] /\ l = B[p] => d = "apply_remote"
            /\ p \in P.quarantine <=> d \in Conflicts /\ P.lost[p] # NoEntry
            /\ p \in P.quarantine => ~IsDir(P.lost[p])
            /\ p \in P.materialize <=> d \in TakesRemote /\ p \notin Suppressed(P, Shown(B, L), Shown(B, R))
            /\ p \in P.synth => IsDir(B[p]) /\ d # "nothing" /\ p \in Above(P, Shown(B, L), Shown(B, R))
                                /\ Outcome(d, l, r) = NoEntry
<1> DEFINE l == Shown(B, L)[p]
           r == Shown(B, R)[p]
           d == P.dec[p]
<1>1. d = Decide(B[p], l, r, x, y) /\ P.lost[p] = Loser(d, l, r)
  BY DEF Merge, IsPlan
<1>2. /\ d \in {"nothing", "keep_local", "apply_remote", "conflict_local", "conflict_remote"}
      /\ d = "nothing" => l = r
      /\ d \in TakesRemote => r # B[p]
      /\ d \in LocalWins => l # B[p]
      /\ d = "apply_remote" => l = B[p] \/ (SameContent(l, r) /\ l # NoEntry /\ r # NoEntry)
      /\ d = "keep_local" => r = B[p] \/ (SameContent(l, r) /\ l # NoEntry /\ r # NoEntry)
      /\ d \in Conflicts => l # B[p] /\ r # B[p] /\ l # r
      /\ d = "conflict_local" => l # NoEntry
      /\ d = "conflict_remote" => r # NoEntry
      /\ l # B[p] /\ r # B[p] /\ l # r /\ l # NoEntry /\ r # NoEntry =>
           (SameContent(l, r) <=> d \notin Conflicts)
      /\ r = B[p] /\ l # B[p] => d = "keep_local"
      /\ r # B[p] /\ l = B[p] => d = "apply_remote"
  <2> HIDE DEF l, r, d
  <2> QED BY <1>1, DecideIs
<1>3. /\ r # B[p] => r = R[p] /\ Unretyped(B, R, p)
      /\ l # B[p] => l = L[p] /\ Unretyped(B, L, p)
  BY ShownIs DEF Merge
<1>4. /\ d = "conflict_local" => P.lost[p] = r
      /\ d = "conflict_remote" => P.lost[p] = l
  BY <1>1 DEF Loser
<1>5. /\ p \in P.quarantine <=> d \in Conflicts /\ P.lost[p] # NoEntry
      /\ p \in P.quarantine => ~IsDir(P.lost[p])
      /\ p \in P.materialize <=> d \in TakesRemote /\ p \notin Suppressed(P, Shown(B, L), Shown(B, R))
      /\ p \in P.synth => IsDir(B[p]) /\ p \in Above(P, Shown(B, L), Shown(B, R))
                          /\ Outcome(d, l, r) = NoEntry
  BY Zenon DEF Merge, IsPlan
<1>6. p \in Above(P, Shown(B, L), Shown(B, R)) => d # "nothing"
  BY DEF Above
<1> HIDE DEF l, r, d
<1>7. /\ d \in TakesRemote => r # B[p] /\ r = R[p] /\ Unretyped(B, R, p)
      /\ d \in LocalWins => l # B[p] /\ l = L[p] /\ Unretyped(B, L, p)
      /\ d \in Conflicts => r # B[p] /\ r = R[p] /\ Unretyped(B, R, p)
                            /\ l # B[p] /\ l = L[p] /\ Unretyped(B, L, p)
  BY <1>2, <1>3
<1> QED
  BY <1>1, <1>2, <1>4, <1>5, <1>6, <1>7 DEF l, r, d

\* A version of this end that wins stays where it is.
LEMMA WinnerStays ==
  ASSUME NEW P, NEW B, NEW L, NEW R, NEW x, NEW y, Merge(P, B, L, R, x, y), NEW p \in Path,
         Unretyped(B, R, p), P.dec[p] \in LocalWins, L[p] # NoEntry
  PROVE  Applied(P, B, L, R)[p] = L[p]
<1> DEFINE l == Shown(B, L)
           r == Shown(B, R)
<1>1. l[p] = L[p] /\ Unretyped(B, L, p) /\ P.dec[p] \notin TakesRemote
  BY MergeAt DEF LocalWins, TakesRemote
<1>2. p \notin P.materialize
  BY <1>1, MergeAt
<1>3. p \notin P.synth
  BY <1>1, MergeAt DEF Outcome
<1>4. ASSUME NEW a \in P.materialize, ~IsDir(R[a]), a \in Ancestors(p) PROVE FALSE
  <2>1. a \in Path
    BY <1>4, AboveIsPath
  <2>2. P.dec[a] \in TakesRemote /\ r[a] # B[a] /\ r[a] = R[a] /\ a \notin Suppressed(P, l, r)
    BY <1>4, <2>1, MergeAt
  <2>3. p \in Survivors(P, l)
    BY <1>1 DEF Survivors, LocalWins
  <2>4. R[a] # NoEntry
    BY <1>4, <2>1, <2>2, <2>3 DEF Suppressed
  <2>5. IsDir(L[a])
    BY <1>4 DEF Merge, ValidTree
  <2>6. ~Retyped(B[a], R[a]) /\ ~Retyped(B[a], L[a])
    BY <1>1, <1>4 DEF Unretyped
  <2>7. B[a] = NoEntry
    BY <1>4, <2>4, <2>5, <2>6 DEF Retyped, IsDir
  <2>8. l[a] = L[a]
    <3>1. Unretyped(B, L, a)
      BY <1>1, <1>4, UnretypedAbove
    <3>2. l[a] = Seen(B[a], L[a])
      BY <2>1, <3>1, ShownIs DEF Merge
    <3> QED BY <3>2, <2>7 DEF Seen, IsDir
  <2>9. l[a] # B[a] /\ l[a] # r[a] /\ l[a] # NoEntry /\ r[a] # NoEntry /\ ~SameContent(l[a], r[a])
    BY <1>4, <2>2, <2>4, <2>5, <2>7, <2>8 DEF IsDir, SameContent
  <2>10. P.dec[a] \in Conflicts
    BY <2>1, <2>2, <2>9, MergeAt
  <2>11. P.dec[a] = "conflict_remote"
    BY <2>2, <2>10 DEF Conflicts, TakesRemote
  <2>12. P.lost[a] = l[a]
    BY <2>1, <2>11, MergeAt
  <2>13. a \in P.quarantine
    BY <2>1, <2>9, <2>10, <2>12, MergeAt
  <2> QED BY <2>1, <2>5, <2>8, <2>12, <2>13, MergeAt
<1>5. ~Cleared(P, R, p)
  BY <1>4 DEF Cleared
<1> QED
  BY <1>2, <1>3, <1>5, AppliedIs

-----------------------------------------------------------------------------
(* The two ends of an exchange, which merge from the same base. *)

\* Each end decides what the other does, seen from its side, and keeps the same
\* losers aside.
LEMMA PlansMirror ==
  ASSUME NEW P, NEW Q, NEW B, NEW L, NEW R, NEW x, NEW y,
         Merge(P, B, L, R, x, y), Merge(Q, B, R, L, y, x), Decided(L, R, x, y)
  PROVE  /\ \A p \in Path : Q.dec[p] = Mirror(P.dec[p])
         /\ \A p \in P.quarantine : Q.lost[p] = P.lost[p]
         /\ Q.quarantine = P.quarantine
<1>1. ASSUME NEW p \in Path PROVE Q.dec[p] = Mirror(P.dec[p])
  <2> DEFINE l == Shown(B, L)[p]
             r == Shown(B, R)[p]
  <2>1. l \in Entry \union {NoEntry} /\ r \in Entry \union {NoEntry}
    BY ShownIs DEF Merge
  <2>2. P.dec[p] = Decide(B[p], l, r, x, y) /\ Q.dec[p] = Decide(B[p], r, l, y, x)
    BY DEF Merge, IsPlan
  <2>3. x \in Int /\ y \in Int
    BY DEF Merge
  <2>4. l # B[p] /\ r # B[p] => l = L[p] /\ r = R[p]
    BY ShownIs DEF Merge
  <2>5. l # B[p] /\ r # B[p] => x # y \/ ~Tied(l, r)
    BY <2>4 DEF Decided
  <2> HIDE DEF l, r
  <2> QED BY <2>1, <2>2, <2>3, <2>5, DecideMirror
<1>2. ASSUME NEW p \in Path PROVE P.dec[p] \in Conflicts <=> Q.dec[p] \in Conflicts
  <2>1. P.dec[p] \in {"nothing", "keep_local", "apply_remote", "conflict_local", "conflict_remote"}
    BY MergeAt
  <2> QED BY <1>1, <2>1 DEF Mirror, Conflicts
<1>3. ASSUME NEW p \in Path, P.dec[p] \in Conflicts PROVE Q.lost[p] = P.lost[p]
  <2>1. Q.dec[p] = Mirror(P.dec[p])
    BY <1>1
  <2>2. CASE P.dec[p] = "conflict_local"
    <3>1. Q.dec[p] = "conflict_remote"
      BY <2>1, <2>2 DEF Mirror
    <3> QED BY <2>2, <3>1, MergeAt
  <2>3. CASE P.dec[p] = "conflict_remote"
    <3>1. Q.dec[p] = "conflict_local"
      BY <2>1, <2>3 DEF Mirror
    <3> QED BY <2>3, <3>1, MergeAt
  <2> QED BY <1>3, <2>2, <2>3 DEF Conflicts
<1>4. Q.quarantine \subseteq Path /\ P.quarantine \subseteq Path
  BY DEF Merge, IsPlan
<1>5. ASSUME NEW p \in Path PROVE p \in P.quarantine <=> p \in Q.quarantine
  <2>1. p \in P.quarantine <=> P.dec[p] \in Conflicts /\ P.lost[p] # NoEntry
    BY MergeAt
  <2>2. p \in Q.quarantine <=> Q.dec[p] \in Conflicts /\ Q.lost[p] # NoEntry
    BY MergeAt
  <2> QED BY <1>2, <1>3, <2>1, <2>2
<1>6. \A p \in P.quarantine : P.dec[p] \in Conflicts
  BY <1>4, MergeAt
<1> QED
  BY <1>1, <1>3, <1>4, <1>5, <1>6

\* The same copies on both ends.
LEMMA CopiesMirror ==
  ASSUME NEW P, NEW Q, NEW B, NEW L, NEW R, NEW x, NEW y,
         Merge(P, B, L, R, x, y), Merge(Q, B, R, L, y, x), Decided(L, R, x, y)
  PROVE  Copies(Q) = Copies(P)
<1>1. Q.quarantine = P.quarantine /\ \A p \in P.quarantine : Q.lost[p] = P.lost[p]
  BY PlansMirror
<1> QED
  BY <1>1 DEF Copies

\* What one end writes below a directory is what the other end keeps there.
LEMMA TargetsSurvive ==
  ASSUME NEW P, NEW Q, NEW B, NEW L, NEW R, NEW x, NEW y,
         Merge(P, B, L, R, x, y), Merge(Q, B, R, L, y, x), Decided(L, R, x, y)
  PROVE  Targets(P, Shown(B, R)) = Survivors(Q, Shown(B, R))
<1> DEFINE r == Shown(B, R)
<1>1. P.quarantine = Q.quarantine /\ P.quarantine \subseteq Path /\ P.materialize \subseteq Path
  <2>1. P.quarantine = Q.quarantine
    BY PlansMirror
  <2>2. P.quarantine \subseteq Path /\ P.materialize \subseteq Path
    BY DEF Merge, IsPlan
  <2> QED BY <2>1, <2>2
<1>2. ASSUME NEW q \in P.materialize, r[q] # NoEntry PROVE q \in Survivors(Q, r)
  <2>1. q \in Path /\ P.dec[q] \in TakesRemote /\ Q.dec[q] = Mirror(P.dec[q])
    BY <1>1, MergeAt, PlansMirror
  <2>2. Q.dec[q] \in {"keep_local", "conflict_local"}
    BY <2>1 DEF TakesRemote, Mirror
  <2> QED BY <1>2, <2>1, <2>2 DEF Survivors
<1>3. ASSUME NEW q \in Path, Q.dec[q] = "conflict_local" \/ (Q.dec[q] = "keep_local" /\ r[q] # NoEntry)
      PROVE  q \in P.materialize /\ r[q] # NoEntry
  <2>1. P.dec[q] \in {"nothing", "keep_local", "apply_remote", "conflict_local", "conflict_remote"}
    BY MergeAt
  <2>2. P.dec[q] \in TakesRemote
    BY <1>3, <2>1, PlansMirror DEF TakesRemote, Mirror
  <2>3. r[q] # NoEntry
    BY <1>3, MergeAt
  <2>4. q \notin Suppressed(P, Shown(B, L), r)
    BY <2>3 DEF Suppressed
  <2> QED BY <2>2, <2>3, <2>4, MergeAt
<1> QED
  BY <1>1, <1>2, <1>3 DEF Targets, Survivors

\* The entries are the same but for the time of a directory.
Alike(u, v) == u = v \/ (IsDir(u) /\ IsDir(v))

\* A path that both ends show alike, and that nobody touches.
LEMMA UntouchedAlike ==
  ASSUME NEW P, NEW Q, NEW B, NEW L, NEW R, NEW x, NEW y,
         Merge(P, B, L, R, x, y), Merge(Q, B, R, L, y, x),
         Decided(L, R, x, y), NEW p \in Path,
         Unretyped(B, L, p), Unretyped(B, R, p), P.dec[p] = "nothing"
  PROVE  Alike(Applied(P, B, L, R)[p], Applied(Q, B, R, L)[p])
<1>1. Q.dec[p] = "nothing"
  BY PlansMirror DEF Mirror
<1>2. Seen(B[p], L[p]) = Seen(B[p], R[p])
  BY MergeAt, ShownIs DEF Merge
<1>3. B[p] \in Entry \union {NoEntry} /\ L[p] \in Entry \union {NoEntry} /\ R[p] \in Entry \union {NoEntry}
  BY ShownIs DEF Merge
<1>4. Alike(L[p], R[p]) /\ (L[p] = NoEntry <=> R[p] = NoEntry)
  <2>1. L[p] = NoEntry <=> R[p] = NoEntry
    BY <1>2, <1>3, SeenIs
  <2>2. IsDir(L[p]) <=> IsDir(R[p])
    BY <1>2, <1>3, SeenIs
  <2>3. ~IsDir(L[p]) => L[p] = R[p]
    BY <1>2, <1>3, <2>2, SeenIs
  <2> QED BY <2>1, <2>2, <2>3 DEF Alike
<1>5. p \notin P.materialize \union P.synth /\ p \notin Q.materialize \union Q.synth
  BY <1>1, MergeAt DEF TakesRemote
<1>6. Cleared(P, R, p) => R[p] = NoEntry
  BY DEF Cleared, Merge, ValidTree
<1>7. Cleared(Q, L, p) => L[p] = NoEntry
  BY DEF Cleared, Merge, ValidTree
<1> QED
  BY <1>4, <1>5, <1>6, <1>7, AppliedIs DEF Alike

\* A path where this end's version wins: the other end takes it, and a directory
\* that one end kept or rebuilt is there on both.
LEMMA WinnerAlike ==
  ASSUME NEW P, NEW Q, NEW B, NEW L, NEW R, NEW x, NEW y,
         Merge(P, B, L, R, x, y), Merge(Q, B, R, L, y, x),
         Decided(L, R, x, y), NEW p \in Path,
         Unretyped(B, L, p), Unretyped(B, R, p), P.dec[p] \in LocalWins
  PROVE  Alike(Applied(P, B, L, R)[p], Applied(Q, B, R, L)[p])
<1> DEFINE l == Shown(B, L)
           r == Shown(B, R)
<1>1. Q.dec[p] \in TakesRemote
  BY PlansMirror DEF Mirror, LocalWins, TakesRemote
<1>2. l[p] = L[p] /\ l[p] # B[p] /\ P.dec[p] \notin TakesRemote
  BY MergeAt DEF LocalWins, TakesRemote
<1>3. p \notin P.materialize
  BY <1>2, MergeAt
<1>4. CASE L[p] # NoEntry
  <2>1. Applied(P, B, L, R)[p] = L[p]
    BY <1>4, WinnerStays
  <2>2. p \notin Suppressed(Q, r, l)
    BY <1>2, <1>4 DEF Suppressed
  <2>3. p \in Q.materialize
    BY <1>1, <2>2, MergeAt
  <2>4. Applied(Q, B, R, L)[p] = L[p]
    BY <2>3, AppliedIs
  <2> QED BY <2>1, <2>4 DEF Alike
<1>5. CASE L[p] = NoEntry
  <2>1. P.dec[p] = "keep_local" /\ r[p] = B[p]
    BY <1>2, <1>5, MergeAt DEF LocalWins
  <2>2. Alike(B[p], R[p])
    <3>1. r[p] = Seen(B[p], R[p])
      BY ShownIs DEF Merge
    <3> QED BY <2>1, <3>1 DEF Seen, Alike
  <2>3. CASE p \in Suppressed(Q, r, l)
    <3>1. PICK q \in Survivors(Q, r) : p \in Ancestors(q)
      BY <2>3 DEF Suppressed
    <3>2. q \in Targets(P, r) /\ q \in Path
      <4>1. q \in Targets(P, r)
        BY <3>1, TargetsSurvive
      <4>2. q \in Path
        BY <4>1 DEF Targets, Merge, IsPlan
      <4> QED BY <4>1, <4>2
    <3>3. p \in Above(P, l, r)
      <4>1. p \notin Suppressed(P, l, r)
        BY <1>2 DEF Suppressed
      <4> QED BY <2>1, <3>1, <3>2, <4>1 DEF Above
    <3>4. Outcome(P.dec[p], l[p], r[p]) = NoEntry
      BY <1>2, <1>5 DEF Outcome
    <3>5. p \in P.synth
      <4>1. p \notin P.synth => IsDir(NoEntry)
        BY <3>3, <3>4 DEF Merge, IsPlan
      <4> QED BY <4>1 DEF IsDir
    <3>6. IsDir(B[p]) /\ Applied(P, B, L, R)[p] = B[p]
      BY <1>3, <3>5, AppliedIs, MergeAt
    <3>7. IsDir(R[p])
      BY <2>2, <3>6 DEF Alike
    <3>8. p \notin Q.materialize
      BY <2>3, MergeAt
    <3>9. ~Cleared(Q, L, p)
      <4>1. SUFFICES ASSUME NEW a \in Q.materialize, ~IsDir(L[a]), a \in Ancestors(p) PROVE FALSE
        BY DEF Cleared
      <4>2. a \in Path /\ a \in Ancestors(q)
        BY <3>1, <3>2, <4>1, AboveIsPath, AboveAbove
      <4>3. Q.dec[a] \in TakesRemote /\ l[a] = L[a] /\ a \notin Suppressed(Q, r, l)
        BY <4>1, <4>2, MergeAt
      <4>4. L[a] # NoEntry
        BY <3>1, <4>2, <4>3 DEF Suppressed
      <4>5. IsDir(B[a])
        BY <3>6, <4>1 DEF Merge, ValidTree, IsDir
      <4>6. Retyped(B[a], L[a])
        BY <4>1, <4>4, <4>5 DEF Retyped, IsDir
      <4> QED BY <4>1, <4>6 DEF Unretyped
    <3>10. IsDir(Applied(Q, B, R, L)[p])
      BY <3>6, <3>7, <3>8, <3>9, AppliedIs
    <3> QED BY <3>6, <3>10 DEF Alike
  <2>4. CASE p \notin Suppressed(Q, r, l)
    <3>1. p \in Q.materialize
      BY <1>1, <2>4, MergeAt
    <3>2. Applied(Q, B, R, L)[p] = NoEntry
      BY <1>5, <3>1, AppliedIs
    <3>3. p \notin P.synth
      <4>1. SUFFICES ASSUME p \in P.synth PROVE FALSE
        OBVIOUS
      <4>2. p \in Above(P, l, r)
        BY <4>1, MergeAt
      <4>3. PICK q \in Targets(P, r) : p \in Ancestors(q)
        BY <4>2 DEF Above
      <4>4. q \in Survivors(Q, r)
        BY TargetsSurvive
      <4> QED BY <1>1, <1>2, <1>5, <2>4, <4>3, <4>4 DEF Suppressed
    <3>4. Applied(P, B, L, R)[p] = NoEntry
      BY <1>3, <1>5, <3>3, AppliedIs
    <3> QED BY <3>2, <3>4 DEF Alike
  <2> QED BY <2>3, <2>4
<1> QED
  BY <1>4, <1>5

\* Away from retyped entries the two ends come to the same.
LEMMA EndsAlike ==
  ASSUME NEW P, NEW Q, NEW B, NEW L, NEW R, NEW x, NEW y,
         Merge(P, B, L, R, x, y), Merge(Q, B, R, L, y, x),
         Decided(L, R, x, y), NEW p \in Path,
         Unretyped(B, L, p), Unretyped(B, R, p)
  PROVE  Alike(Applied(P, B, L, R)[p], Applied(Q, B, R, L)[p])
<1>1. P.dec[p] \in {"nothing", "keep_local", "apply_remote", "conflict_local", "conflict_remote"}
  BY MergeAt
<1>2. CASE P.dec[p] = "nothing"
  BY <1>2, UntouchedAlike
<1>3. CASE P.dec[p] \in LocalWins
  BY <1>3, WinnerAlike
<1>4. CASE P.dec[p] \in TakesRemote
  <2>1. Q.dec[p] \in LocalWins
    BY <1>4, PlansMirror DEF Mirror, LocalWins, TakesRemote
  <2>2. Alike(Applied(Q, B, R, L)[p], Applied(P, B, L, R)[p])
    <3>1. Decided(R, L, y, x)
      BY DEF Decided, Tied
    <3> QED BY <2>1, <3>1, WinnerAlike
  <2> QED BY <2>2 DEF Alike
<1> QED
  BY <1>1, <1>2, <1>3, <1>4 DEF LocalWins, TakesRemote

-----------------------------------------------------------------------------
(* What one end does with the versions it holds and is offered. *)

\* The version v is at p in the tree T, or kept in the copies C.
Kept(T, C, p, v) == (T[p] # NoEntry /\ SameContent(T[p], v)) \/ <<p, v>> \in C

\* A loser has its copy.
LEMMA LoserCopied ==
  ASSUME NEW P, NEW p \in P.quarantine
  PROVE  <<p, P.lost[p]>> \in Copies(P)
BY DEF Copies

\* A file of this end that differs from the base.
LEMMA OwnVersionKept ==
  ASSUME NEW P, NEW B, NEW L, NEW R, NEW x, NEW y, Merge(P, B, L, R, x, y), NEW p \in Path,
         Unretyped(B, L, p), Unretyped(B, R, p), L[p] \notin {NoEntry, B[p]}, ~IsDir(L[p])
  PROVE  Kept(Applied(P, B, L, R), Copies(P), p, L[p])
<1> DEFINE l == Shown(B, L)[p]
           r == Shown(B, R)[p]
           d == P.dec[p]
<1>1. l = L[p] /\ l # B[p] /\ l # NoEntry
  BY ShownIs, SeenIs DEF Merge
<1>2. d \in {"nothing", "keep_local", "apply_remote", "conflict_local", "conflict_remote"}
  BY MergeAt
<1>3. CASE d \in LocalWins
  <2>1. Applied(P, B, L, R)[p] = L[p]
    BY <1>3, WinnerStays
  <2> QED BY <2>1 DEF Kept, SameContent
<1>4. CASE d = "nothing"
  <2>1. r = l
    BY <1>4, MergeAt
  <2>2. R[p] # NoEntry
    <3>1. r = Seen(B[p], R[p]) /\ B[p] \in Entry \union {NoEntry} /\ R[p] \in Entry \union {NoEntry}
      BY ShownIs DEF Merge
    <3> QED BY <1>1, <2>1, <3>1, SeenIs
  <2>3. ~Cleared(P, R, p)
    BY <2>2 DEF Cleared, Merge, ValidTree
  <2>4. p \notin P.materialize \union P.synth
    BY <1>4, MergeAt DEF TakesRemote
  <2>5. Applied(P, B, L, R)[p] = L[p]
    BY <2>3, <2>4, AppliedIs
  <2> QED BY <2>5 DEF Kept, SameContent
<1>5. CASE d = "conflict_remote"
  <2>1. P.lost[p] = L[p] /\ p \in P.quarantine
    BY <1>1, <1>5, MergeAt DEF Conflicts
  <2> QED BY <2>1, LoserCopied DEF Kept
<1>6. CASE d = "apply_remote"
  <2>1. SameContent(l, r) /\ r # NoEntry /\ r = R[p]
    BY <1>1, <1>6, MergeAt DEF TakesRemote
  <2>2. p \notin Suppressed(P, Shown(B, L), Shown(B, R))
    BY <2>1 DEF Suppressed
  <2>3. p \in P.materialize
    BY <1>6, <2>2, MergeAt DEF TakesRemote
  <2>4. Applied(P, B, L, R)[p] = R[p]
    BY <2>3, AppliedIs
  <2> QED BY <1>1, <2>1, <2>4 DEF Kept, SameContent
<1> QED
  BY <1>2, <1>3, <1>4, <1>5, <1>6 DEF LocalWins

\* A file of the other end that differs from the base.
LEMMA OfferedVersionKept ==
  ASSUME NEW P, NEW B, NEW L, NEW R, NEW x, NEW y, Merge(P, B, L, R, x, y), NEW p \in Path,
         Unretyped(B, L, p), Unretyped(B, R, p), R[p] \notin {NoEntry, B[p]}, ~IsDir(R[p])
  PROVE  Kept(Applied(P, B, L, R), Copies(P), p, R[p])
<1> DEFINE l == Shown(B, L)[p]
           r == Shown(B, R)[p]
           d == P.dec[p]
<1>1. r = R[p] /\ r # B[p] /\ r # NoEntry
  BY ShownIs, SeenIs DEF Merge
<1>2. d \in {"nothing", "keep_local", "apply_remote", "conflict_local", "conflict_remote"}
  BY MergeAt
<1>3. ~Cleared(P, R, p)
  BY DEF Cleared, Merge, ValidTree
<1>4. CASE d \in TakesRemote
  <2>1. p \notin Suppressed(P, Shown(B, L), Shown(B, R))
    BY <1>1 DEF Suppressed
  <2>2. p \in P.materialize
    BY <1>4, <2>1, MergeAt
  <2>3. Applied(P, B, L, R)[p] = R[p]
    BY <2>2, AppliedIs
  <2> QED BY <2>3 DEF Kept, SameContent
<1>5. CASE d = "nothing"
  <2>1. l = R[p]
    BY <1>1, <1>5, MergeAt
  <2>2. L[p] = R[p]
    <3>1. l = Seen(B[p], L[p]) /\ B[p] \in Entry \union {NoEntry} /\ L[p] \in Entry \union {NoEntry}
      BY ShownIs DEF Merge
    <3> QED BY <2>1, <3>1, SeenIs
  <2>3. p \notin P.materialize \union P.synth
    BY <1>5, MergeAt DEF TakesRemote
  <2>4. Applied(P, B, L, R)[p] = R[p]
    BY <1>3, <2>2, <2>3, AppliedIs
  <2> QED BY <2>4 DEF Kept, SameContent
<1>6. CASE d = "conflict_local"
  <2>1. P.lost[p] = R[p] /\ p \in P.quarantine
    BY <1>1, <1>6, MergeAt DEF Conflicts
  <2> QED BY <2>1, LoserCopied DEF Kept
<1>7. CASE d = "keep_local"
  <2>1. SameContent(l, r) /\ l # NoEntry /\ l = L[p]
    BY <1>1, <1>7, MergeAt DEF LocalWins
  <2>2. Applied(P, B, L, R)[p] = L[p]
    BY <1>7, <2>1, WinnerStays DEF LocalWins
  <2> QED BY <1>1, <2>1, <2>2 DEF Kept, SameContent
<1> QED
  BY <1>2, <1>4, <1>5, <1>6, <1>7 DEF TakesRemote

-----------------------------------------------------------------------------
(* A merge leaves a tree. *)

\* The directories above what is written and above a conflict copy are there.
LEMMA TargetsHaveRoom ==
  ASSUME NEW P, NEW B, NEW L, NEW R, NEW x, NEW y, Merge(P, B, L, R, x, y),
         NEW q \in Targets(P, Shown(B, R)), NEW a \in Ancestors(q)
  PROVE  IsDir(Applied(P, B, L, R)[a])
<1> DEFINE l == Shown(B, L)
           r == Shown(B, R)
<1>0. q \in Path /\ a \in Path
  <2>1. q \in Path
    BY DEF Targets, Merge, IsPlan
  <2> QED BY <2>1, AboveIsPath
<1>1. ASSUME q \in P.quarantine, NEW b \in Ancestors(q), b \in P.materialize PROVE IsDir(R[b])
  <2>1. b \in Path
    BY <1>0, AboveIsPath
  <2>2. P.dec[b] \in TakesRemote /\ r[b] = R[b] /\ b \notin Suppressed(P, l, r)
    BY <1>1, <2>1, MergeAt
  <2>3. q \in Survivors(P, l)
    BY <1>1 DEF Survivors
  <2>4. r[b] # NoEntry
    BY <2>1, <2>2, <2>3 DEF Suppressed
  <2>5. b \in Above(P, l, r)
    BY <2>1, <2>2 DEF Above, TakesRemote
  <2>6. Outcome(P.dec[b], l[b], r[b]) = r[b]
    BY <2>2 DEF Outcome
  <2>7. b \notin P.synth
    BY <2>1, <2>4, <2>6, MergeAt
  <2> QED BY <2>2, <2>5, <2>6, <2>7 DEF Merge, IsPlan
<1>2. CASE q \in P.quarantine
  <2>1. L[q] # NoEntry
    BY <1>0, <1>2, MergeAt DEF Conflicts
  <2>2. IsDir(L[a])
    BY <1>0, <2>1 DEF Merge, ValidTree
  <2>3. ~Cleared(P, R, a)
    BY <1>0, <1>1, <1>2, AboveAbove DEF Cleared
  <2>4. a \in P.synth => IsDir(B[a])
    BY <1>0, MergeAt
  <2> QED BY <1>0, <1>1, <1>2, <2>2, <2>3, <2>4, AppliedIs
<1>3. CASE q \in P.materialize /\ r[q] # NoEntry
  <2>1. r[q] # B[q] /\ r[q] = R[q] /\ Unretyped(B, R, q)
    BY <1>0, <1>3, MergeAt
  <2>2. \A b \in Ancestors(q) : IsDir(R[b])
    BY <1>0, <1>3, <2>1 DEF Merge, ValidTree
  <2>3. ~Cleared(P, R, a)
    BY <1>0, <2>2, AboveAbove DEF Cleared
  <2>4. a \in P.synth => IsDir(B[a])
    BY <1>0, MergeAt
  <2>5. \A b \in Ancestors(q) : b \in Path /\ IsDir(r[b])
    <3>1. SUFFICES ASSUME NEW b \in Ancestors(q) PROVE b \in Path /\ IsDir(r[b])
      OBVIOUS
    <3>2. b \in Path /\ Unretyped(B, R, b)
      BY <1>0, <2>1, AboveIsPath, UnretypedAbove
    <3> QED BY <2>2, <3>2, ShownIs, SeenIs DEF Merge
  <2>6. ASSUME NEW b \in Ancestors(q), P.dec[b] # "nothing", b \notin P.materialize, b \notin P.synth
        PROVE  IsDir(l[b]) /\ l[b] = L[b]
    <3>1. b \in Path /\ r[b] # NoEntry
      BY <2>5 DEF IsDir
    <3>2. b \notin Suppressed(P, l, r)
      BY <3>1 DEF Suppressed
    <3>3. P.dec[b] \notin TakesRemote
      BY <2>6, <3>1, <3>2, MergeAt
    <3>4. b \in Above(P, l, r)
      BY <2>6, <3>1, <3>2 DEF Above
    <3>5. Outcome(P.dec[b], l[b], r[b]) = l[b]
      BY <3>3 DEF Outcome
    <3>6. P.dec[b] \in LocalWins
      BY <2>6, <3>1, <3>3, MergeAt DEF LocalWins, TakesRemote
    <3>7. IsDir(l[b])
      BY <2>6, <3>4, <3>5 DEF Merge, IsPlan
    <3>8. l[b] = L[b]
      BY <3>1, <3>6, MergeAt
    <3> QED BY <3>7, <3>8
  <2>7. ASSUME a \notin P.materialize, a \notin P.synth PROVE IsDir(L[a])
    <3>1. CASE P.dec[a] # "nothing"
      BY <2>6, <2>7, <3>1
    <3>2. CASE P.dec[a] = "nothing"
      <4>1. l[a] = r[a] /\ IsDir(l[a])
        BY <1>0, <2>5, <3>2, MergeAt
      <4>2. CASE Unretyped(B, L, a)
        BY <1>0, <4>1, <4>2, ShownIs, SeenIs DEF Merge
      <4>3. CASE ~Unretyped(B, L, a)
        <5>1. PICK b \in Ancestors(a) : Retyped(B[b], L[b])
          BY <4>3 DEF Unretyped
        <5>2. b \in Path /\ b \in Ancestors(q)
          BY <1>0, AboveIsPath, AboveAbove
        <5>3. l[b] = L[b]
          BY <5>1, <5>2, RetypedOnce DEF Merge
        <5>4. l[a] = B[a]
          BY <1>0, <4>3, ShownIs DEF Merge
        <5>5. IsDir(B[b])
          BY <1>0, <4>1, <5>4 DEF Merge, ValidTree, IsDir
        <5>6. ~IsDir(L[b]) /\ L[b] # NoEntry
          BY <5>1, <5>5 DEF Retyped, IsDir
        <5>7. r[b] = B[b]
          <6>1. Unretyped(B, R, b)
            BY <1>0, <2>1, <5>2, UnretypedAbove
          <6> QED BY <2>2, <5>2, <5>5, <6>1, ShownIs DEF Merge, Seen
        <5>8. P.dec[b] = "keep_local"
          BY <5>2, <5>3, <5>5, <5>6, <5>7, MergeAt
        <5>9. b \notin P.materialize
          BY <5>2, <5>8, MergeAt DEF TakesRemote
        <5>10. b \notin P.synth
          BY <5>2, <5>3, <5>6, <5>8, MergeAt DEF Outcome, TakesRemote
        <5> QED BY <2>6, <5>2, <5>6, <5>8, <5>9, <5>10
      <4> QED BY <4>2, <4>3
    <3> QED BY <3>1, <3>2
  <2> QED BY <1>0, <2>2, <2>3, <2>4, <2>7, AppliedIs
<1> QED
  BY <1>2, <1>3 DEF Targets

\* Every entry has its directory.
LEMMA LeavesValid ==
  ASSUME NEW P, NEW B, NEW L, NEW R, NEW x, NEW y, Merge(P, B, L, R, x, y)
  PROVE  ValidTree(Applied(P, B, L, R))
<1> DEFINE T == Applied(P, B, L, R)
           l == Shown(B, L)
           r == Shown(B, R)
<1>1. SUFFICES ASSUME NEW p \in Path, T[p] # NoEntry, NEW a \in Ancestors(p)
               PROVE  IsDir(T[a])
  BY DEF ValidTree
<1>2. a \in Path
  BY AboveIsPath
<1>3. CASE p \in P.materialize
  <2>1. T[p] = R[p] /\ r[p] = R[p]
    BY <1>3, AppliedIs, MergeAt
  <2>2. p \in Targets(P, r)
    BY <1>1, <1>3, <2>1 DEF Targets
  <2> QED BY <2>2, TargetsHaveRoom
<1>4. CASE p \in P.synth
  <2>1. p \in Above(P, l, r)
    BY <1>4, MergeAt
  <2>2. PICK q \in Targets(P, r) : p \in Ancestors(q)
    BY <2>1 DEF Above
  <2>3. q \in Path
    BY DEF Targets, Merge, IsPlan
  <2>4. a \in Ancestors(q)
    BY <2>2, <2>3, AboveAbove
  <2> QED BY <2>4, TargetsHaveRoom
<1>5. CASE p \notin P.materialize /\ p \notin P.synth
  <2>1. ~Cleared(P, R, p) /\ L[p] # NoEntry
    BY <1>1, <1>5, AppliedIs
  <2>2. IsDir(L[a])
    BY <2>1 DEF Merge, ValidTree
  <2>3. a \in P.materialize => IsDir(R[a])
    BY <2>1 DEF Cleared
  <2>4. ~Cleared(P, R, a)
    BY <2>1, AboveAbove DEF Cleared
  <2>5. a \in P.synth => IsDir(B[a])
    BY <1>2, MergeAt
  <2> QED BY <1>2, <2>2, <2>3, <2>4, <2>5, AppliedIs
<1> QED
  BY <1>3, <1>4, <1>5

-----------------------------------------------------------------------------
(* The exchange. *)

\* An end that has not merged, or refused to, holds what it offered; one that has
\* merged holds what its plan makes of its own offer, and the copies of that
\* plan, whatever the other end did meanwhile.
Outcomes ==
  \A e \in End :
    /\ pulled[e] # "done" => tree[e] = offered[e]
    /\ pulled[e] = "no" => copies[e] = {}
    /\ pulled[e] = "done" =>
         /\ ~PlanOf(e).structural
         /\ tree[e] = Applied(PlanOf(e), SafeBase(e), offered[e], offered[Other(e)])
         /\ copies[e] = Copies(PlanOf(e))

Inv == TypeOK /\ Outcomes

\* The ends and their bases.
LEMMA EndFacts ==
  ASSUME TypeOK, NEW e \in End
  PROVE  /\ e \in Int /\ Other(e) \in End /\ Other(e) # e /\ Other(Other(e)) = e
         /\ SafeBase(e) \in AnyTree /\ ValidTree(SafeBase(e))
         /\ offered[e] \in AnyTree /\ ValidTree(offered[e])
<1>1. e \in Int /\ Other(e) \in End /\ Other(e) # e /\ Other(Other(e)) = e
  BY DEF End, Other
<1>2. EmptyTree \in AnyTree /\ ValidTree(EmptyTree)
  BY DEF EmptyTree, AnyTree, ValidTree
<1>3. base \in AnyTree /\ ValidTree(base) /\ offered[e] \in AnyTree /\ ValidTree(offered[e])
  BY TreesAssumption DEF TypeOK, AnyTree
<1> QED
  BY <1>1, <1>2, <1>3 DEF SafeBase

\* The merge of an end that did not refuse.
LEMMA PullIsMerge ==
  ASSUME TypeOK, NEW e \in End, ~PlanOf(e).structural
  PROVE  Merge(PlanOf(e), SafeBase(e), offered[e], offered[Other(e)], author[e], author[Other(e)])
<1>1. IsPlan(PlanOf(e), SafeBase(e), Shown(SafeBase(e), offered[e]),
             Shown(SafeBase(e), offered[Other(e)]), author[e], author[Other(e)])
  BY PlanIs DEF PlanOf
<1>2. Other(e) \in End
  BY EndFacts
<1>3. author[e] \in Int /\ author[Other(e)] \in Int
  BY <1>2, AuthorsAssumption DEF TypeOK
<1> QED
  BY <1>1, <1>2, <1>3, EndFacts DEF Merge

\* A merge leaves entries where there are paths.
LEMMA MergeTypes ==
  ASSUME NEW P, NEW B, NEW L, NEW R, NEW x, NEW y, Merge(P, B, L, R, x, y)
  PROVE  Applied(P, B, L, R) \in AnyTree /\ Copies(P) \subseteq Path \X Entry
<1>1. \A p \in Path : B[p] \in Entry \union {NoEntry} /\ L[p] \in Entry \union {NoEntry}
                      /\ R[p] \in Entry \union {NoEntry}
  BY DEF Merge, AnyTree
<1>2. Applied(P, B, L, R) = [p \in Path |-> Applied(P, B, L, R)[p]]
  BY Zenon DEF Applied
<1>3. ASSUME NEW p \in Path PROVE Applied(P, B, L, R)[p] \in Entry \union {NoEntry}
  <2>1. CASE p \in P.materialize
    BY <1>1, <2>1, AppliedIs
  <2>2. CASE p \notin P.materialize /\ p \in P.synth
    BY <1>1, <2>2, AppliedIs
  <2>3. CASE p \notin P.materialize /\ p \notin P.synth /\ Cleared(P, R, p)
    BY <1>1, <2>3, AppliedIs
  <2>4. CASE p \notin P.materialize /\ p \notin P.synth /\ ~Cleared(P, R, p)
    BY <1>1, <2>4, AppliedIs
  <2> QED BY <2>1, <2>2, <2>3, <2>4
<1>4. Applied(P, B, L, R) \in AnyTree
  BY <1>2, <1>3 DEF AnyTree
<1>5. \A p \in P.quarantine : p \in Path /\ P.lost[p] \in Entry
  <2>1. SUFFICES ASSUME NEW p \in P.quarantine PROVE p \in Path /\ P.lost[p] \in Entry
    OBVIOUS
  <2>2. p \in Path
    BY DEF Merge, IsPlan
  <2>3. P.dec[p] \in Conflicts /\ P.lost[p] # NoEntry
    BY <2>2, MergeAt
  <2>4. P.lost[p] \in {L[p], R[p]}
    BY <2>2, <2>3, MergeAt DEF Conflicts
  <2> QED BY <1>1, <2>2, <2>3, <2>4
<1> QED
  BY <1>4, <1>5 DEF Copies

\* A pull changes one end, and the invariant with it.
LEMMA PullKeeps ==
  ASSUME Inv, NEW e \in End, Pull(e)
  PROVE  Inv'
<1>1. pulled[e] = "no" /\ ~PlanOf(e).structural /\ UNCHANGED <<base, proven, offered, author>>
  BY DEF Pull
<1>2. TypeOK /\ tree[e] = offered[e] /\ copies[e] = {}
  BY <1>1 DEF Inv, Outcomes
<1> DEFINE T == Applied(PlanOf(e), SafeBase(e), offered[e], offered[Other(e)])
           C == Copies(PlanOf(e))
<1>3. T \in AnyTree /\ C \subseteq Path \X Entry
  BY <1>1, <1>2, PullIsMerge, MergeTypes
<1>4. /\ tree' = [tree EXCEPT ![e] = T] /\ copies' = [copies EXCEPT ![e] = C]
      /\ pulled' = [pulled EXCEPT ![e] = "done"]
  BY <1>2 DEF Pull, TypeOK
<1>5. \A f \in End : SafeBase(f)' = SafeBase(f) /\ PlanOf(f)' = PlanOf(f) /\ offered'[f] = offered[f]
  BY <1>1 DEF SafeBase, PlanOf
<1> HIDE DEF T, C
<1>6. TypeOK'
  BY <1>1, <1>2, <1>3, <1>4 DEF TypeOK, AnyTree
<1>7. /\ \A f \in End : f # e => tree'[f] = tree[f] /\ copies'[f] = copies[f] /\ pulled'[f] = pulled[f]
      /\ tree'[e] = T /\ copies'[e] = C /\ pulled'[e] = "done"
  BY <1>2, <1>4 DEF TypeOK
<1>8. ASSUME NEW f \in End
      PROVE  /\ pulled'[f] # "done" => tree'[f] = offered[f]
             /\ pulled'[f] = "no" => copies'[f] = {}
             /\ pulled'[f] = "done" =>
                  /\ ~PlanOf(f).structural
                  /\ tree'[f] = Applied(PlanOf(f), SafeBase(f), offered[f], offered[Other(f)])
                  /\ copies'[f] = Copies(PlanOf(f))
  <2>1. CASE f = e
    BY <1>1, <1>7, <2>1 DEF T, C
  <2>2. CASE f # e
    BY <1>7, <2>2 DEF Inv, Outcomes
  <2> QED BY <2>1, <2>2
<1>9. Outcomes'
  BY <1>1, <1>5, <1>8 DEF Outcomes
<1> QED
  BY <1>6, <1>9 DEF Inv

\* A refused merge writes nothing.
LEMMA RefusalKeeps ==
  ASSUME Inv, NEW e \in End, PullRefused(e)
  PROVE  Inv'
<1>1. /\ pulled[e] = "no" /\ UNCHANGED <<base, proven, offered, author, tree, copies>>
      /\ pulled' = [pulled EXCEPT ![e] = "structural"]
  BY DEF PullRefused
<1>2. TypeOK'
  BY <1>1 DEF Inv, TypeOK
<1>3. \A f \in End : SafeBase(f)' = SafeBase(f) /\ PlanOf(f)' = PlanOf(f)
  BY <1>1 DEF SafeBase, PlanOf
<1>4. \A f \in End : pulled'[f] = pulled[f] \/ pulled'[f] = "structural"
  BY <1>1 DEF Inv, TypeOK
<1>5. Outcomes'
  BY <1>1, <1>3, <1>4 DEF Inv, Outcomes
<1> QED
  BY <1>2, <1>5 DEF Inv

\* A diverged merge writes copies and nothing else.
LEMMA DivergenceKeeps ==
  ASSUME Inv, NEW e \in End, PullDiverged(e)
  PROVE  Inv'
<1> DEFINE C == Copies(PlanOf(e))
<1>1. /\ pulled[e] = "no" /\ UNCHANGED <<base, proven, offered, author, tree>>
      /\ pulled' = [pulled EXCEPT ![e] = "diverged"] /\ ~PlanOf(e).structural
      /\ copies' = [copies EXCEPT ![e] = @ \union C]
  BY DEF PullDiverged
<1>2. TypeOK /\ C \subseteq Path \X Entry
  BY <1>1, PullIsMerge, MergeTypes DEF Inv
<1> HIDE DEF C
<1>3. TypeOK'
  BY <1>1, <1>2 DEF TypeOK
<1>4. \A f \in End : SafeBase(f)' = SafeBase(f) /\ PlanOf(f)' = PlanOf(f)
  BY <1>1 DEF SafeBase, PlanOf
<1>5. /\ pulled'[e] = "diverged"
      /\ \A f \in End : f # e => pulled'[f] = pulled[f] /\ copies'[f] = copies[f]
  BY <1>1, <1>2 DEF TypeOK
<1>6. Outcomes'
  BY <1>1, <1>4, <1>5 DEF Inv, Outcomes
<1> QED
  BY <1>3, <1>6 DEF Inv

\* The invariant of an exchange: what an end makes of the other's offer depends on
\* the two offers and its base alone.
THEOREM ExchangeInvariance == Spec => []Inv
<1>1. Init => Inv
  <2>1. SUFFICES ASSUME Init PROVE Inv
    OBVIOUS
  <2>2. \A T \in Trees : T \in [Path -> Entry \union {NoEntry}]
    BY TreesAssumption
  <2>3. tree \in [End -> [Path -> Entry \union {NoEntry}]]
    BY <2>1, <2>2 DEF Init
  <2>4. copies \in [End -> SUBSET (Path \X Entry)] /\ pulled \in [End -> {"no", "done", "structural", "diverged"}]
    BY <2>1 DEF Init
  <2> QED BY <2>1, <2>3, <2>4 DEF Init, Inv, TypeOK, Outcomes
<1>2. Inv /\ [Next]_vars => Inv'
  <2>1. SUFFICES ASSUME Inv, [Next]_vars PROVE Inv'
    OBVIOUS
  <2>2. CASE Next
    BY <2>1, <2>2, PullKeeps, RefusalKeeps, DivergenceKeeps DEF Next
  <2>3. CASE UNCHANGED vars
    <3>1. \A f \in End : SafeBase(f)' = SafeBase(f) /\ PlanOf(f)' = PlanOf(f)
      BY <2>3 DEF SafeBase, PlanOf, vars
    <3>2. TypeOK'
      BY <2>1, <2>3 DEF Inv, TypeOK, vars
    <3>3. Outcomes'
      BY <2>1, <2>3, <3>1 DEF Inv, Outcomes, vars
    <3> QED BY <3>2, <3>3 DEF Inv
  <2> QED BY <2>1, <2>2, <2>3
<1> QED
  BY <1>1, <1>2, PTL DEF Spec

\* reconcile and pick_winner: two ends that merged from the same base hold the
\* same files and the same conflict copies, away from retyped entries, when two
\* devices made the offers or nothing in them ties.
THEOREM MergeConverges == Spec => []EndsAgree
<1>1. Inv => EndsAgree
  <2>1. SUFFICES ASSUME Inv, proven[1] = proven[2], TieBroken, pulled[1] = "done", pulled[2] = "done"
                 PROVE  /\ \A p \in Path : Settled(tree[1])[p] = Settled(tree[2])[p] \/ BelowRetyped(1, p)
                        /\ copies[1] = copies[2]
    BY DEF EndsAgree, SameBase
  <2> DEFINE B == SafeBase(1)
             L == offered[1]
             R == offered[2]
             P == PlanOf(1)
             Q == PlanOf(2)
  <2>2. 1 \in End /\ 2 \in End /\ Other(1) = 2 /\ Other(2) = 1 /\ SafeBase(2) = B
    BY <2>1 DEF End, Other, SafeBase
  <2>3. /\ ~P.structural /\ tree[1] = Applied(P, B, L, R) /\ copies[1] = Copies(P)
        /\ ~Q.structural /\ tree[2] = Applied(Q, B, R, L) /\ copies[2] = Copies(Q)
    BY <2>1, <2>2 DEF Inv, Outcomes
  <2>4. TypeOK
    BY <2>1 DEF Inv
  <2>5. Merge(P, B, L, R, author[1], author[2])
    BY <2>2, <2>3, <2>4, PullIsMerge
  <2>6. Merge(Q, B, R, L, author[2], author[1])
    BY <2>2, <2>3, <2>4, PullIsMerge
  <2>9. Decided(L, R, author[1], author[2])
    BY <2>1 DEF TieBroken, Decided
  <2> HIDE DEF B, L, R, P, Q
  <2>7. copies[1] = copies[2]
    BY <2>3, <2>5, <2>6, <2>9, CopiesMirror
  <2>8. ASSUME NEW p \in Path, ~BelowRetyped(1, p)
        PROVE  Settled(tree[1])[p] = Settled(tree[2])[p]
    <3>1. Unretyped(B, L, p) /\ Unretyped(B, R, p)
      BY <2>2, <2>8 DEF BelowRetyped, Unretyped, B, L, R
    <3>2. Alike(tree[1][p], tree[2][p])
      BY <2>3, <2>5, <2>6, <2>9, <3>1, EndsAlike
    <3> DEFINE u == tree[1][p]
               v == tree[2][p]
    <3>3. u \in Entry \union {NoEntry} /\ v \in Entry \union {NoEntry}
      BY <2>2, <2>4 DEF TypeOK
    <3>4. /\ Settled(tree[1])[p] = IF IsDir(u) THEN [u EXCEPT !.t = 0] ELSE u
          /\ Settled(tree[2])[p] = IF IsDir(v) THEN [v EXCEPT !.t = 0] ELSE v
      BY Zenon DEF Settled
    <3> HIDE DEF u, v
    <3>5. CASE u = v
      BY <3>4, <3>5
    <3>6. CASE IsDir(u) /\ IsDir(v)
      <4>1. u.kind = v.kind /\ u.c = v.c
        BY <3>3, <3>6, Entries DEF IsDir
      <4>2. u = [kind |-> u.kind, c |-> u.c, t |-> u.t] /\ v = [kind |-> v.kind, c |-> v.c, t |-> v.t]
        BY <3>3, <3>6, Entries DEF IsDir
      <4>3. [u EXCEPT !.t = 0] = [kind |-> u.kind, c |-> u.c, t |-> 0]
        BY <4>2
      <4>4. [v EXCEPT !.t = 0] = [kind |-> v.kind, c |-> v.c, t |-> 0]
        BY <4>2
      <4> QED BY <3>4, <3>6, <4>1, <4>3, <4>4
    <3> QED BY <3>2, <3>5, <3>6 DEF Alike, u, v
  <2> QED BY <2>7, <2>8
<1> QED
  BY <1>1, ExchangeInvariance, PTL

\* The quarantine of reconcile: a version of a file that differs from the base is
\* live or has a copy on every end that has merged, whatever base it could prove,
\* away from retyped entries.
THEOREM MergeKeepsVersions == Spec => []NothingLostUnlessRetyped
<1>1. Inv => NothingLostUnlessRetyped
  <2>1. SUFFICES ASSUME Inv, NEW e \in End, NEW f \in End, NEW p \in Path, Merged(e, f, p), ~BelowRetyped(e, p)
                 PROVE  Survives(e, p, offered[f][p])
    BY DEF NothingLostUnlessRetyped
  <2> DEFINE B == SafeBase(e)
             L == offered[e]
             R == offered[Other(e)]
             P == PlanOf(e)
  <2>2. TypeOK /\ Other(e) \in End /\ f \in {e, Other(e)}
    BY <2>1 DEF Inv, End, Other
  <2>3. ~P.structural /\ tree[e] = Applied(P, B, L, R) /\ copies[e] = Copies(P)
    BY <2>1 DEF Inv, Outcomes, Merged
  <2>4. Merge(P, B, L, R, author[e], author[Other(e)])
    BY <2>2, <2>3, PullIsMerge
  <2>5. Unretyped(B, L, p) /\ Unretyped(B, R, p)
    BY <2>1, <2>2 DEF BelowRetyped, Unretyped
  <2>6. offered[f][p] \notin {NoEntry, B[p]} /\ ~IsDir(offered[f][p])
    BY <2>1 DEF Merged
  <2>7. Kept(tree[e], copies[e], p, offered[f][p])
    <3>1. CASE f = e
      <4>1. L[p] \notin {NoEntry, B[p]} /\ ~IsDir(L[p])
        BY <2>6, <3>1
      <4> HIDE DEF B, R, P
      <4> QED BY <2>3, <2>4, <2>5, <3>1, <4>1, OwnVersionKept
    <3>2. CASE f = Other(e)
      <4>1. R[p] \notin {NoEntry, B[p]} /\ ~IsDir(R[p])
        BY <2>6, <3>2
      <4> HIDE DEF B, P
      <4> QED BY <2>3, <2>4, <2>5, <3>2, <4>1, OfferedVersionKept
    <3> QED BY <2>2, <3>1, <3>2
  <2> QED BY <2>7 DEF Kept, Survives
<1> QED
  BY <1>1, ExchangeInvariance, PTL

\* The suppressed removals and rebuilt directories of reconcile: after a merge
\* every entry and every conflict copy has its directory, retyped entries or not.
THEOREM MergeLeavesTree == Spec => []LeavesATree
<1>1. Inv => LeavesATree
  <2>1. SUFFICES ASSUME Inv, NEW e \in End, pulled[e] = "done"
                 PROVE  /\ ValidTree(tree[e])
                        /\ \A k \in copies[e] : \A a \in Ancestors(k[1]) : IsDir(tree[e][a])
    BY DEF LeavesATree
  <2> DEFINE B == SafeBase(e)
             L == offered[e]
             R == offered[Other(e)]
             P == PlanOf(e)
  <2>2. TypeOK /\ ~P.structural /\ tree[e] = Applied(P, B, L, R) /\ copies[e] = Copies(P)
    BY <2>1 DEF Inv, Outcomes
  <2>3. Merge(P, B, L, R, author[e], author[Other(e)])
    BY <2>2, PullIsMerge
  <2> HIDE DEF B, L, R, P
  <2>4. ValidTree(tree[e])
    BY <2>2, <2>3, LeavesValid
  <2>5. ASSUME NEW k \in copies[e], NEW a \in Ancestors(k[1]) PROVE IsDir(tree[e][a])
    <3>1. PICK q \in P.quarantine : k = <<q, P.lost[q]>>
      BY <2>2 DEF Copies
    <3>2. a \in Ancestors(q) /\ q \in Targets(P, Shown(B, R))
      BY <2>5, <3>1 DEF Targets
    <3> QED BY <2>2, <2>3, <3>2, TargetsHaveRoom
  <2> QED BY <2>4, <2>5
<1> QED
  BY <1>1, ExchangeInvariance, PTL
=============================================================================

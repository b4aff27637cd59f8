----------------------------- MODULE Reconcile -----------------------------
(***************************************************************************)
(* The three-way merge of crates/ferry-sync-engine/src/reconcile.rs as      *)
(* pure operators.  A tree maps every path of Path to an entry or to        *)
(* NoEntry.  An entry keeps what the merge tells apart: its kind, its       *)
(* content (the chunk list of a file, the target of a symlink, 0 for a      *)
(* directory) and its modification time (which stands for all metadata).    *)
(***************************************************************************)
EXTENDS Integers, Sequences

CONSTANTS
    Path,       \* the paths of the folder: non-empty sequences of components
    Content,    \* the contents a file or a symlink can have
    Time,       \* the modification times
    NoEntry     \* "nothing at this path"

\* The directories above a path.
Ancestors(p) == {SubSeq(p, 1, i) : i \in 1 .. Len(p) - 1}

ASSUME PathAssumption ==
    /\ Path \subseteq Seq(STRING)
    /\ \A p \in Path : Len(p) > 0 /\ Ancestors(p) \subseteq Path
ASSUME TimeAssumption == Time \subseteq Int

\* EntryState, with the three kinds of EntryKind.
Entry == [kind : {"file", "symlink"}, c : Content, t : Time]
           \cup [kind : {"dir"}, c : {0}, t : Time]

ASSUME NoEntryAssumption == NoEntry \notin Entry

IsDir(e) == e # NoEntry /\ e.kind = "dir"

\* A tree a scan can produce: an entry sits in a directory, up to the root.
ValidTree(T) ==
    \A p \in Path : T[p] # NoEntry => \A a \in Ancestors(p) : IsDir(T[a])

-----------------------------------------------------------------------------
(* One path.                                                               *)

\* Same kind and same chunks (or same link target).
SameContent(l, r) == l.kind = r.kind /\ l.c = r.c

\* Mutant: on a tie each end prefers its own version.
PickWinnerTiesLocal(l, r, ldev, rdev) == IF l.t >= r.t THEN "local" ELSE "remote"

\* Newer modification time; on a tie the larger id of the devices whose
\* manifests are merged, the remote version when one device made both.
PickWinner(l, r, ldev, rdev) ==
    IF l.t # r.t THEN IF l.t > r.t THEN "local" ELSE "remote"
                 ELSE IF ldev > rdev THEN "local" ELSE "remote"

\* What the change set from base to side shows at a path: a directory that
\* stays a directory is never listed, whatever its modification time.
Seen(b, s) == IF IsDir(b) /\ IsDir(s) THEN b ELSE s

\* An entry replaced by one of another kind (type_changed).
Retyped(b, s) == b # NoEntry /\ s # NoEntry /\ b.kind # s.kind

\* diff_roots as index_change_set reads it: what S shows at every path when
\* compared with B.  A retyped entry is listed itself and not descended into:
\* below it neither the old nor the new children are changes.
Shown(B, S) ==
    [p \in DOMAIN B |->
       IF \E a \in Ancestors(p) : Retyped(B[a], S[a]) THEN B[p] ELSE Seen(B[p], S[p])]

\* The decision for one path from its base, local and remote entries.  A
\* conflict names its winner.  Two directories always have the same content,
\* so the code's separate directory/directory case cannot arise.
Decide(b, l, r, ldev, rdev) ==
    CASE r = b /\ l = b -> "nothing"
      [] r = b /\ l # b -> "keep_local"
      [] r # b /\ l = b -> "apply_remote"
      [] r # b /\ l # b /\ l = r -> "nothing"
      [] r # b /\ l # b /\ l # r /\ l = NoEntry -> "conflict_remote"
      [] r # b /\ l # b /\ l # r /\ r = NoEntry -> "conflict_local"
      [] OTHER ->
           IF SameContent(l, r)
           THEN IF PickWinner(l, r, ldev, rdev) = "local"
                THEN "keep_local" ELSE "apply_remote"
           ELSE IF PickWinner(l, r, ldev, rdev) = "local"
                THEN "conflict_local" ELSE "conflict_remote"

Conflicts == {"conflict_local", "conflict_remote"}
TakesRemote == {"apply_remote", "conflict_remote"}
LocalWins == {"keep_local", "conflict_local"}

\* What the path holds once the decision is carried out.
Outcome(d, l, r) == IF d \in TakesRemote THEN r ELSE l

\* Mutant: the winner is quarantined.
LoserSwapped(d, l, r) == IF d = "conflict_local" THEN l ELSE r

\* The losing version of a conflict; NoEntry when the loser is a deletion.
Loser(d, l, r) == IF d = "conflict_local" THEN r ELSE l

-----------------------------------------------------------------------------
(* The whole folder: the action plan of one end.                           *)

\* reconcile(): B is the safe base (every path NoEntry when it could not be
\* proven), L the local and R the remote manifest.
Plan(B, L, R, ldev, rdev) ==
    LET l == Shown(B, L)
        r == Shown(B, R)
        dec == [p \in Path |-> Decide(B[p], l[p], r[p], ldev, rdev)]
        lost == [p \in Path |-> Loser(dec[p], l[p], r[p])]
        final == [p \in Path |-> Outcome(dec[p], l[p], r[p])]
        taken == {p \in Path : dec[p] \in TakesRemote}
        quarantine == {p \in Path : dec[p] \in Conflicts /\ lost[p] # NoEntry}
        survivors == quarantine
                       \cup {p \in Path : dec[p] = "conflict_local"}
                       \cup {p \in Path : dec[p] = "keep_local" /\ l[p] # NoEntry}
        suppressed == {a \in taken : /\ r[a] = NoEntry
                                     /\ \E p \in survivors : a \in Ancestors(p)}
        materialize == taken \ suppressed
        targets == quarantine \cup {p \in materialize : r[p] # NoEntry}
        above == {a \in Path \ suppressed :
                    /\ dec[a] # "nothing"
                    /\ \E p \in targets : a \in Ancestors(p)}
        synth == {a \in above : final[a] = NoEntry /\ IsDir(B[a])}
    IN  [dec         |-> dec,
         materialize |-> materialize,
         synth       |-> synth,
         quarantine  |-> quarantine,
         lost        |-> lost,
         localWins   |-> \E p \in Path : dec[p] \in LocalWins,
         \* ReconcileError::StructuralConflict
         structural  |-> \/ \E p \in quarantine : IsDir(lost[p])
                         \/ \E a \in above \ synth : ~IsDir(final[a])]

\* Mutant: the directories that a surviving file needs are not rebuilt.
AppliedUnbuilt(plan, B, T, R) ==
    [p \in Path |->
       IF p \in plan.materialize THEN R[p]
       ELSE IF \E a \in plan.materialize : ~IsDir(R[a]) /\ a \in Ancestors(p)
       THEN NoEntry ELSE T[p]]

\* MaterializeError::Diverged on a tree L that did not change since it was
\* scanned: the guard of a removal, and of the removal that makes room for an
\* entry of another kind, wants something in L (guard_removal, NotInBase).
Diverges(plan, B, L, R) ==
    \E p \in plan.materialize :
      L[p] = NoEntry /\ (R[p] = NoEntry \/ Retyped(B[p], R[p]))

\* The disk after ConvergenceEngine has carried out a plan that does not diverge
\* on the tree T it was made for: every removal (a directory with all it holds),
\* then every write, a directory that gives way to a file losing what it held.
Applied(plan, B, T, R) ==
    LET cleared == {p \in plan.materialize : ~IsDir(R[p])}
    IN  [p \in Path |->
           IF p \in plan.materialize THEN R[p]
           ELSE IF p \in plan.synth THEN B[p]
           ELSE IF \E a \in cleared : a \in Ancestors(p) THEN NoEntry
           ELSE T[p]]

\* The copies `path.ferry-conflict.<device>-<ts>` a plan writes: a copy is
\* named for the path and the losing version.
Copies(plan) == {<<p, plan.lost[p]>> : p \in plan.quarantine}
=============================================================================

--------------------------- MODULE ReconcilePair ---------------------------
(***************************************************************************)
(* The two ends of one exchange (crates/ferry-sync/src/exchange.rs,         *)
(* run_v1_session) run the merge of module Reconcile against each other:    *)
(* each end offers the manifest it holds, each pulls the manifest the other *)
(* offered, and neither sees what the other made of it.  Nothing but the    *)
(* symmetry of the merge makes the two results fit together.                *)
(***************************************************************************)
EXTENDS Reconcile

End == {1, 2}
Other(e) == 3 - e

EmptyTree == [p \in Path |-> NoEntry]

CONSTANTS
    Trees,     \* the trees an end can offer
    Bases,     \* the manifests the ends can have agreed on before
    Authors    \* who can have made the two offers

ASSUME TreesAssumption ==
    \A T \in Trees \cup Bases : T \in [Path -> Entry \cup {NoEntry}] /\ ValidTree(T)
ASSUME AuthorsAssumption == Authors \subseteq [End -> Int]

VARIABLES
    base,      \* the last agreed tree
    proven,    \* proven[e]: end e can prove that base is an ancestor of both
    offered,   \* offered[e]: the manifest end e offered
    author,    \* author[e]: the device whose scan made it (device_id); the
               \* other end, or a third, when e adopted the manifest
    tree,      \* tree[e]: the live tree of end e
    copies,    \* copies[e]: the conflict copies end e wrote
    pulled     \* pulled[e]: "no", "done" or the error of the merge, "structural"
               \* (StructuralConflict) or "diverged" (Diverged)

vars == <<base, proven, offered, author, tree, copies, pulled>>

TypeOK ==
    /\ base \in Bases
    /\ proven \in [End -> BOOLEAN]
    /\ offered \in [End -> Trees]
    /\ author \in Authors
    /\ tree \in [End -> [Path -> Entry \cup {NoEntry}]]
    /\ copies \in [End -> SUBSET (Path \X Entry)]
    /\ pulled \in [End -> {"no", "done", "structural", "diverged"}]

Init ==
    /\ base \in Bases
    /\ proven \in [End -> BOOLEAN]
    /\ offered \in [End -> Trees]
    /\ author \in Authors
    /\ tree = offered
    /\ copies = [e \in End |-> {}]
    /\ pulled = [e \in End |-> "no"]

\* resolve_safe_base: the agreed tree only for an end that can prove it.
SafeBase(e) == IF proven[e] THEN base ELSE EmptyTree

PlanOf(e) == Plan(SafeBase(e), offered[e], offered[Other(e)], author[e], author[Other(e)])

DivergedAt(e) == Diverges(PlanOf(e), SafeBase(e), offered[e], offered[Other(e)])

\* ConvergenceEngine::converge on end e.
Pull(e) ==
    /\ pulled[e] = "no"
    /\ ~PlanOf(e).structural
    /\ ~DivergedAt(e)
    /\ tree' = [tree EXCEPT ![e] =
                  Applied(PlanOf(e), SafeBase(e), tree[e], offered[Other(e)])]
    /\ copies' = [copies EXCEPT ![e] = @ \cup Copies(PlanOf(e))]
    /\ pulled' = [pulled EXCEPT ![e] = "done"]
    /\ UNCHANGED <<base, proven, offered, author>>

\* The merge refuses: nothing is written.
PullRefused(e) ==
    /\ pulled[e] = "no"
    /\ PlanOf(e).structural
    /\ pulled' = [pulled EXCEPT ![e] = "structural"]
    /\ UNCHANGED <<base, proven, offered, author, tree, copies>>

\* The Applier refuses: the conflict copies are written, the tree is not.
PullDiverged(e) ==
    /\ pulled[e] = "no"
    /\ ~PlanOf(e).structural
    /\ DivergedAt(e)
    /\ copies' = [copies EXCEPT ![e] = @ \cup Copies(PlanOf(e))]
    /\ pulled' = [pulled EXCEPT ![e] = "diverged"]
    /\ UNCHANGED <<base, proven, offered, author, tree>>

Next == \E e \in End : Pull(e) \/ PullRefused(e) \/ PullDiverged(e)

Spec == Init /\ [][Next]_vars

-----------------------------------------------------------------------------
(* Properties.                                                             *)

\* A directory's modification time is not part of what the ends agree on.
Settled(T) == [p \in Path |-> IF IsDir(T[p]) THEN [T[p] EXCEPT !.t = 0] ELSE T[p]]

SameBase == proven[1] = proven[2]

\* Two different versions with one modification time.
Tied(u, v) == u # NoEntry /\ v # NoEntry /\ u # v /\ u.t = v.t

\* Two devices made the offers, or nothing in them ties.
TieBroken == author[1] # author[2] \/ \A p \in Path : ~Tied(offered[1][p], offered[2][p])

\* Some end replaced an entry above p by one of another kind.
BelowRetyped(e, p) ==
    \E a \in Ancestors(p) : \E x \in End : Retyped(SafeBase(e)[a], offered[x][a])

\* Two ends that merged from the same base hold the same files and the same
\* conflict copies: the winner of every path, tie-breaks included, is the
\* same seen from either end, and a directory kept or rebuilt for a surviving
\* descendant on one end is there on the other (reconcile, pick_winner).
\* What lies below a retyped entry is the subject of NothingLost.  Offers that
\* one device made (one end adopted its manifest, or both did) and that tie are
\* left out: there pick_winner says "remote" at both ends, which swap versions.
EndsAgree ==
    SameBase /\ TieBroken /\ pulled[1] = "done" /\ pulled[2] = "done"
      => /\ \A p \in Path : \/ Settled(tree[1])[p] = Settled(tree[2])[p]
                            \/ BelowRetyped(1, p)
         /\ copies[1] = copies[2]

\* End e has merged, and at p end x had offered a file other than the base's.
Merged(e, x, p) ==
    /\ pulled[e] = "done"
    /\ offered[x][p] \notin {NoEntry, SafeBase(e)[p]}
    /\ ~IsDir(offered[x][p])

Survives(e, p, v) ==
    \/ tree[e][p] # NoEntry /\ SameContent(tree[e][p], v)
    \/ <<p, v>> \in copies[e]

\* A version of a file that an end offered and that is not the agreed one is
\* live at its path, or kept as a conflict copy, on every end that has merged,
\* whatever base either end could prove (the quarantine of reconcile).
NothingLost ==
    \A e, x \in End : \A p \in Path :
      Merged(e, x, p) => Survives(e, p, offered[x][p])

\* The same, except below an entry that one of the ends retyped: what reconcile
\* does there is the subject of NothingLost.
NothingLostUnlessRetyped ==
    \A e, x \in End : \A p \in Path :
      Merged(e, x, p) => Survives(e, p, offered[x][p]) \/ BelowRetyped(e, p)

\* A merge leaves a tree: nothing hangs below a missing directory or below a
\* file, and every conflict copy's directory is there (the suppressed
\* removals and the rebuilt directories of reconcile).
LeavesATree ==
    \A e \in End : pulled[e] = "done" =>
      /\ ValidTree(tree[e])
      /\ \A k \in copies[e] : \A a \in Ancestors(k[1]) : IsDir(tree[e][a])

=============================================================================

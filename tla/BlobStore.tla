------------------------------ MODULE BlobStore ------------------------------
(***************************************************************************)
(* What a folder's blob store promises to those who use it, with no packs, *)
(* no index files and no locks: a set of blobs it has accepted and a set   *)
(* of blobs that survive the end of the process.                           *)
(***************************************************************************)
CONSTANT Blob

VARIABLES
  held,      \* accepted: a put of the blob need not store it again
  durable    \* found again by whoever opens the store next

vars == <<held, durable>>

Init == held = {} /\ durable = {}

Accept(S) == held' = held \cup S /\ UNCHANGED durable

\* Only what was accepted becomes durable, and it stays so.
Persist(S) == S \subseteq held /\ durable' = durable \cup S /\ UNCHANGED held

\* A write that fails, or the end of the process, loses what is not durable.
Lose(S) == S \cap durable = {} /\ held' = held \ S /\ UNCHANGED durable

Next == \E S \in SUBSET Blob : Accept(S) \/ Persist(S) \/ Lose(S)

Spec == Init /\ [][Next]_vars
=============================================================================

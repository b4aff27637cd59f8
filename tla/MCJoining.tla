----------------------------- MODULE MCJoining -----------------------------
(***************************************************************************)
(* A device shares a folder with two others; a third directory joins it on *)
(* the sharing device.                                                     *)
(***************************************************************************)
EXTENDS Joining, TLC

CONSTANTS home, j1, j2, loc, poller

MCPlaces == {home, j1, j2, loc}
MCJoiners == {j1, j2, loc}
MCOffers == {1, 2}
MCTasks == MCJoiners \union MCOffers \union {poller}
MCOwner == [p \in MCPlaces |-> IF p = loc THEN home ELSE p]

Alike == Permutations({j1, j2})
=============================================================================

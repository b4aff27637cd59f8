--------------------------- MODULE MCDeviceDaemon ---------------------------
(***************************************************************************)
(* A command process and two daemon processes over three directories, the  *)
(* second below the first, of which the first two hold a folder.           *)
(***************************************************************************)
EXTENDS DeviceDaemon, TLC

CONSTANTS c1, d1, d2

MCProcs == {c1, d1, d2}
MCNested == {<<"b", "a">>}
MCRealId == [p \in {"a", "b", "c"} |->
               CASE p = "a" -> 11 [] p = "b" -> 12 [] p = "c" -> 0]

Alike == Permutations({d1, d2})
=============================================================================

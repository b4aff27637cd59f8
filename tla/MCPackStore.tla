---------------------------- MODULE MCPackStore ----------------------------
(***************************************************************************)
(* Instances of PackStore for TLC.                                         *)
(***************************************************************************)
EXTENDS PackStore, TLC

CONSTANTS
  chunk, node, node2,   \* blobs
  scan, session, cli,   \* threads
  daemon, command,      \* processes
  delivered             \* a pack of the peer

MCProcOf == [t \in Thread |-> IF t = cli THEN command ELSE daemon]
\* Two threads of one process do the same things.
Symmetry == Permutations({scan, session})

MCPeerBlobs == [p \in PeerPack |-> {chunk}]
============================================================================

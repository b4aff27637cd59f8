------------------------------- MODULE MCPins -------------------------------
(* A folder with a directory, two files in it and a file beside it.         *)
EXTENDS Pins

F(c, t) == [kind |-> "file", c |-> c, t |-> t]
D == [kind |-> "dir", c |-> 0, t |-> 1]
MCPath == {<<"d">>, <<"d", "f">>, <<"d", "g">>, <<"e">>}
T(d, f, g, e) == <<"d">> :> d @@ <<"d", "f">> :> f @@ <<"d", "g">> :> g @@ <<"e">> :> e

MCInitialTree == T(D, F(1, 1), F(1, 1), F(1, 1))
\* Two files changed by the peer; the directory deleted, in a manifest that this
\* device made and the peer has adopted.
MCOffers == {[dev |-> 2, tree |-> T(D, F(2, 2), F(1, 1), F(3, 2))],
             [dev |-> 1, tree |-> T(NoEntry, NoEntry, NoEntry, F(1, 1))]}
MCEdits == {T(D, F(3, 3), F(1, 1), F(1, 1))}
MCScopes == {{<<"d", "f">>}}
Commands == Permutations(Command)
=============================================================================

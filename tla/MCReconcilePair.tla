-------------------------- MODULE MCReconcilePair --------------------------
(* Every triple of a base and two offers over a directory with two          *)
(* children, any of which may instead be absent or be another kind of entry.*)
EXTENDS ReconcilePair

MCPath == {<<"d">>, <<"d", "f">>, <<"d", "g">>}
MCContent == {1, 2}
MCTime == {1, 2}

\* Two contents, an older, a newer and a tied version, and a symlink.
Leaf == {[kind |-> "file", c |-> 1, t |-> 1], [kind |-> "file", c |-> 2, t |-> 1],
         [kind |-> "file", c |-> 2, t |-> 2], [kind |-> "symlink", c |-> 1, t |-> 2]}
Dirs == [kind : {"dir"}, c : {0}, t : Time]

MCTrees ==
    {T \in [Path -> Leaf \cup Dirs \cup {NoEntry}] :
       /\ ValidTree(T)
       /\ \A p \in Path : IsDir(T[p]) => p = <<"d">>
       /\ T[<<"d", "g">>] # NoEntry =>
            T[<<"d">>].t = 1 /\ T[<<"d", "g">>].kind = "file" /\ T[<<"d", "g">>].c = T[<<"d", "g">>].t}

\* Two devices made the offers, or one made both; by the symmetry of the ends
\* it does not matter which has the larger id.
MCAuthors == {<<1, 2>>, <<1, 1>>}

\* For a directory that one end replaces: the agreed tree has it, with a file
\* in it, and the offers are of different devices.
MCBases == {T \in MCTrees : T[<<"d", "f">>] # NoEntry}
MCTwoAuthors == {<<1, 2>>}
=============================================================================

---------------------------- MODULE MCMaterialize ----------------------------
(* A directory with two entries and an entry beside it.                     *)
EXTENDS Materialize

F(c, t) == [kind |-> "file", c |-> c, t |-> t]
L(c, t) == [kind |-> "symlink", c |-> c, t |-> t]
D(t) == [kind |-> "dir", c |-> 0, t |-> t]
MCOrder == <<<<"d">>, <<"d", "f">>, <<"d", "g">>, <<"e">>>>
MCPath == {<<"d">>, <<"d", "f">>, <<"d", "g">>, <<"e">>}
T(d, f, g, e) == <<"d">> :> d @@ <<"d", "f">> :> f @@ <<"d", "g">> :> g @@ <<"e">> :> e
None == NoEntry

Base == T(D(1), F(1, 1), F(1, 1), F(1, 1))
Case(b, l, r) == [base |-> b, disk |-> l, remote |-> r]

MCCases ==
    { \* contents and times change, and a symlink comes
      Case(Base, Base, T(D(1), F(2, 2), F(1, 2), L(1, 2))),
      \* the directory is deleted; with a local edit in it
      Case(Base, Base, T(None, None, None, F(2, 2))),
      Case(Base, T(D(1), F(3, 2), F(1, 1), F(1, 1)), T(None, None, None, F(2, 2))),
      \* the directory gives way to a file, and a file to a directory
      Case(Base, Base, T(F(2, 2), None, None, D(2))),
      \* a new directory with two entries
      Case(T(None, None, None, F(1, 1)), T(None, None, None, F(1, 1)),
           T(D(2), F(2, 2), L(2, 2), None)),
      \* both ends made the directory
      Case(T(None, None, None, F(1, 1)), T(D(1), None, F(1, 1), F(1, 1)),
           T(D(2), F(2, 2), F(1, 1), F(1, 1))),
      \* both ends changed: each end wins once; a symlink loses
      Case(Base, T(D(1), F(3, 2), F(3, 1), L(1, 1)), T(D(1), F(2, 1), F(2, 2), F(2, 2))) }

MCEdits == {F(3, 2), D(2), NoEntry}
=============================================================================

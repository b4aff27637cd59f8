-------------------------------- MODULE MCScan --------------------------------
(* A folder with a/x, a/b/y, an  ignored file i and a file r whose name is   *)
(* refused, which every sweep reports again.                                 *)
EXTENDS Scan

MCOrder == <<<<>>, <<"a">>, <<"a", "b">>, <<"a", "x">>, <<"a", "b", "y">>, <<"i">>, <<"r">>>>
MCFiles == {<<"a", "x">>, <<"a", "b", "y">>}
MCDirs == {<<"a", "b">>}
MCIgnored == {<<"i">>}
MCTampers == {<<"a", "x">>}
MCRefused == {<<"r">>}
MCDisk0 == [p \in ToSet(MCOrder) |->
              IF p \in {<<>>, <<"a">>} THEN [k |-> "dir", c |-> 0, t |-> 0]
              ELSE IF p \in Under(<<"a", "b">>) THEN Absent
              ELSE [k |-> "file", c |-> 0, t |-> 0]]
===============================================================================

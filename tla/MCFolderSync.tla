---------------------------- MODULE MCFolderSync ----------------------------
EXTENDS FolderSync

MCPath == {<<"a">>}
TwoPaths == {<<"a">>, <<"b">>}

One == [kind |-> "file", c |-> 1, t |-> 1]

\* A folder whose files are all e.
Only(e) == [n \in Name |-> IF n \in Path THEN e ELSE NoEntry]

\* Device 1 already has the files; the others join with an empty folder.
OneHasIt == {[d \in Device |-> Only(IF d = 1 THEN One ELSE NoEntry)]}

\* Devices 1 and 2 start with different files, the others with none.
TwoDiffer ==
    {[d \in Device |-> Only(IF d \in {1, 2} THEN [One EXCEPT !.c = d] ELSE NoEntry)]}

\* Device 1 has a file; another has none, a later copy of it, or a different
\* and later one.
Varied ==
    {[d \in Device |-> Only(IF d = 1 THEN One ELSE e)] :
       e \in {NoEntry, [One EXCEPT !.t = 2], [One EXCEPT !.c = 2, !.t = 2]}}

\* Users delete a file or replace it by a different and later one.
ReplaceOrDelete == {NoEntry, [One EXCEPT !.c = 2, !.t = 2]}
JustDelete == {NoEntry}
=============================================================================

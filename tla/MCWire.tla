------------------------------- MODULE MCWire -------------------------------
(* Two folders; a manifest with a nested directory and three chunks, and one *)
(* that shares a chunk with it.                                              *)
EXTENDS Wire

B(k, n) == <<k, n>>
MCRefs == B("manifest", 1) :> {B("node", 1)} @@ B("node", 1) :> {B("node", 2), B("chunk", 1)}
            @@ B("node", 2) :> {B("chunk", 2), B("chunk", 3)}
            @@ B("manifest", 2) :> {B("node", 3)} @@ B("node", 3) :> {B("chunk", 2)}
            @@ B("chunk", 1) :> {} @@ B("chunk", 2) :> {} @@ B("chunk", 3) :> {}
MCBlob == {B("manifest", 1), B("manifest", 2)} \cup {B("node", i) : i \in 1 .. 3} \cup {B("chunk", i) : i \in 1 .. 3}

M1 == B("manifest", 1)
M2 == B("manifest", 2)
Below(man) == CASE man = M1 -> {M1, B("node", 1), B("node", 2), B("chunk", 1), B("chunk", 2), B("chunk", 3)}
                [] man = M2 -> {M2, B("node", 3), B("chunk", 2)}
                [] OTHER -> {}
\* The first two chunks of the larger manifest share a pack.
PacksOf(man) == CASE man = M1 -> {[name |-> "p", blobs |-> {B("chunk", 1), B("chunk", 2)}], [name |-> "q", blobs |-> {B("chunk", 3)}]}
                  [] man = M2 -> {[name |-> "r", blobs |-> {B("chunk", 2)}]}
                  [] OTHER -> {}

Case(foldersI, foldersR, cur) ==
    [folders |-> "I" :> foldersI @@ "R" :> foldersR,
     cur |-> cur,
     store |-> [e \in End |-> [f \in Folder |-> Below(cur[e][f])]],
     packs |-> [e \in End |-> [f \in Folder |-> PacksOf(cur[e][f])]],
     id |-> [e \in End |-> e], expect |-> [e \in End |-> Other(e)],
     version |-> [e \in End |-> <<1, 0>>], flags |-> [e \in End |-> {"extension"}],
     encryption |-> [e \in End |-> TRUE], granularity |-> [e \in End |-> "auto"]]

Cur(a, b, c, d) == "I" :> ("f" :> a @@ "g" :> b) @@ "R" :> ("f" :> c @@ "g" :> d)
Some == {NoManifest, M1, M2}
FG == <<"f", "g">>
\* Both folders on both ends; the second only on one, without a manifest or with
\* a manifest to pull beside it.
Shared == {Case(FG, FG, Cur(a, NoManifest, c, d)) : a \in Some, c \in Some, d \in {NoManifest, M1}}
OneSided == {Case(FG, <<"f">>, Cur(a, NoManifest, c, NoManifest)) : a \in Some, c \in {NoManifest, M1}}
              \cup {Case(<<"f">>, <<"g", "f">>, Cur(a, NoManifest, c, NoManifest)) : a \in Some, c \in {NoManifest, M1}}
              \cup {Case(FG, <<"f">>, Cur(M1, M2, c, NoManifest)) : c \in {NoManifest, M2}}
Base == Case(<<"f">>, <<"f">>, Cur(NoManifest, NoManifest, M1, NoManifest))
Variants ==
    {[Base EXCEPT !.encryption = [e \in End |-> FALSE], !.granularity = [e \in End |-> g]] : g \in {"auto", "items", "packs"}}
      \cup {[Base EXCEPT !.version["R"] = <<1, 1>>, !.flags["R"] = {"extension", "later"}],
            [Base EXCEPT !.version["I"] = <<2, 0>>], [Base EXCEPT !.expect["R"] = "other"],
            [Base EXCEPT !.encryption["I"] = FALSE],
            [Base EXCEPT !.store["R"]["f"] = @ \ {B("chunk", 3)}],
            [Base EXCEPT !.packs["R"]["f"] = {[name |-> "big", blobs |-> Below(M1) \ {M1}]}]}
\* A folder with a manifest that the other end does not have.
Unshared == {Case(FG, <<"f">>, Cur(M1, M2, M1, NoManifest))}
MCCases == Shared \cup OneSided \cup Unshared \cup Variants
=============================================================================

----------------------------- MODULE MCEngines -----------------------------
(* Devices 1 and 2 share folder "f"; device 2 also serves folder "g", of     *)
(* which device 1 knows but does not run.  Devices 3 and 4 never run.        *)
EXTENDS Engines, TLC

A == <<1, "f">>
B == <<2, "f">>
G == <<2, "g">>

MCCases == {
    \* one iroh endpoint for the two folders of device 2
    [transport |-> "iroh", head |-> (A :> {1, 2} @@ B :> {1, 2} @@ G :> {2}),
     listens |-> {A, B, G}, connect |-> [e \in {A, B, G} |-> None], pairs |-> [e \in {A, B, G} |-> {}],
     removes |-> {G}, crashes |-> 0],
    \* device 2 dials for "g" and reaches the engine of "f"
    [transport |-> "iroh", head |-> (A :> {1, 2} @@ G :> {1, 2}),
     listens |-> {A, G}, connect |-> [e \in {A, G} |-> None], pairs |-> [e \in {A, G} |-> {}],
     removes |-> {A}, crashes |-> 0],
    \* device 1 names two peers, neither of them device 2
    [transport |-> "iroh", head |-> (A :> {1, 3, 4} @@ B :> {1, 2}),
     listens |-> {A, B}, connect |-> [e \in {A, B} |-> None], pairs |-> (A :> {2} @@ B :> {}),
     removes |-> {}, crashes |-> 2],
    \* two engines that dial each other over TCP
    [transport |-> "tcp", head |-> (A :> {1, 2} @@ B :> {1, 2}),
     listens |-> {A, B}, connect |-> (A :> B @@ B :> A), pairs |-> [e \in {A, B} |-> {}],
     removes |-> {A}, crashes |-> 0],
    \* device 1 is paired with device 3 and not with the one it is told to dial
    [transport |-> "tcp", head |-> (A :> {1, 3} @@ B :> {1, 2}),
     listens |-> {A, B}, connect |-> (A :> B @@ B :> A), pairs |-> [e \in {A, B} |-> {}],
     removes |-> {}, crashes |-> 0],
    \* each is told to dial the other, and they serve different folders
    [transport |-> "tcp", head |-> (A :> {1, 2} @@ G :> {1, 2}),
     listens |-> {A, G}, connect |-> (A :> G @@ G :> A), pairs |-> [e \in {A, G} |-> {}],
     removes |-> {G}, crashes |-> 0]}

(* A folder whose engine is running when its first peer is paired.           *)
FreshCases == {
    [transport |-> "iroh", head |-> (A :> {1} @@ B :> {1, 2}),
     listens |-> {A, B}, connect |-> [e \in {A, B} |-> None], pairs |-> (A :> {2} @@ B :> {}),
     removes |-> {}, crashes |-> 0]}
=============================================================================

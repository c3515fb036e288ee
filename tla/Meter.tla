------------------------------- MODULE Meter -------------------------------
(***************************************************************************)
(* What the gateway may rely on when it bills the bytes of a client: the   *)
(* total it was told only grows, and never runs ahead of what the client   *)
(* moved.  Nothing of devices, counters, reports and sessions.             *)
(***************************************************************************)
EXTENDS Naturals

CONSTANT Client

VARIABLES
    moved,      \* the bytes each client has moved
    told        \* the bytes of each client the gateway was told of

vars == <<moved, told>>

Init ==
    /\ moved = [i \in Client |-> 0]
    /\ told = [i \in Client |-> 0]

Move(i) ==
    /\ moved' = [moved EXCEPT ![i] = @ + 1]
    /\ UNCHANGED told

Tell ==
    /\ told' \in [Client -> Nat]
    /\ \A i \in Client : told[i] <= told'[i] /\ told'[i] <= moved[i]
    /\ UNCHANGED moved

Next == Tell \/ \E i \in Client : Move(i)

Spec == Init /\ [][Next]_vars
=============================================================================

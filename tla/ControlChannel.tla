--------------------------- MODULE ControlChannel ---------------------------
(***************************************************************************)
(* What the rest of the node may expect of its link to the gateway, with   *)
(* nothing of tokens, keys, saves and redials: the gateway gets to know    *)
(* the node once, the node's record of that is written after it and is     *)
(* never lost again, and there is a session only while the node runs and   *)
(* the gateway knows it.                                                   *)
(***************************************************************************)

VARIABLES
    up,         \* the node runs
    known,      \* the gateway knows the node
    registered, \* the node has it on record, with a token of its own
    connected   \* there is a session

vars == <<up, known, registered, connected>>

Init ==
    /\ up = FALSE /\ connected = FALSE
    /\ known \in BOOLEAN /\ registered \in BOOLEAN
    /\ registered => known

Start == ~up /\ up' = TRUE /\ UNCHANGED <<known, registered, connected>>

Stop == up /\ up' = FALSE /\ connected' = FALSE /\ UNCHANGED <<known, registered>>

Enrol == up /\ ~known /\ known' = TRUE /\ UNCHANGED <<up, registered, connected>>

Record == up /\ known /\ registered' = TRUE /\ UNCHANGED <<up, known, connected>>

Connect == up /\ known /\ connected' = TRUE /\ UNCHANGED <<up, known, registered>>

Disconnect == up /\ connected' = FALSE /\ UNCHANGED <<up, known, registered>>

Next == Start \/ Stop \/ Enrol \/ Record \/ Connect \/ Disconnect

Spec == Init /\ [][Next]_vars

-----------------------------------------------------------------------------
(* The node has on record only what the gateway knows, and a session is of *)
(* a running node that the gateway knows.                                  *)
Sound == (registered => known) /\ (connected => up /\ known)

Recalls == (known => known') /\ (registered => registered')

(* Neither side forgets the other: the gateway goes on knowing the node,   *)
(* and what the node has on record stays there.                            *)
Remembers == [][Recalls]_vars
=============================================================================

---------------------------- MODULE GatewayCalls ----------------------------
(***************************************************************************)
(* The gateway's calls to the node's API, against the credentials of       *)
(* GatewayLink: which of them the middleware lets through                  *)
(* (internal/api/middleware.go, internal/gatewayauth).                     *)
(*                                                                         *)
(* A call carries a bearer, a gateway token with its claims or a bare node *)
(* key, and the node key of a header.  The signature scheme and the hex of *)
(* keys are left out: a token is signed by this gateway or it is not.      *)
(***************************************************************************)
EXTENDS GatewayLink

Purpose == {"", "drop_status", "drop_upload", "drop_read", "drop_webui"}

(* Mutant: the node's id is only known where it has just registered.       *)
NodeIDOfRegistration == IF cred.id = "me" THEN "me" ELSE ""

(* cfg.NodeID, as the running node has it.                                 *)
NodeID == IF mem.id = "me" THEN "me" ELSE ""

(* A token with no node in it, or a node with no id, matches any.          *)
VerifyGatewayCall(t) ==
    t.signed /\ (NodeID = "" \/ t.node = "" \/ t.node = NodeID)

(* The exact purpose, and the exact node.                                  *)
VerifyGatewayCallPurpose(t, purpose) ==
    t.signed /\ NodeID # "" /\ t.node = NodeID /\ t.purpose = purpose

(* The handler of a route that is for a purpose, "" being peer management. *)
gatewayAuthForPurpose(purpose, debug, call) ==
    IF mem.key = NoKey THEN debug /\ purpose = ""
    ELSE \/ /\ mem.pub /\ call.key = mem.key
            /\ IF purpose = "" THEN VerifyGatewayCall(call.token)
               ELSE VerifyGatewayCallPurpose(call.token, purpose)
         \/ purpose = "" /\ debug /\ call.bearer = mem.key

-----------------------------------------------------------------------------
(* What the gateway sends this node: a token for it and the purpose, and   *)
(* the key it has on record.                                               *)
CallOf(purpose) ==
    [token |-> [signed |-> TRUE, node |-> "me", purpose |-> purpose],
     bearer |-> NoKey, key |-> gwKey]

(* The gateway gets through to a node that runs a client, on every route   *)
(* and also after restarts and repeated registrations, once the node has   *)
(* the gateway's public key and unless a save, load or registration went   *)
(* wrong: the key, the id and the public key that Run loaded or was given  *)
(* are the ones the middleware compares with.                              *)
GatewayHeard ==
    ClientRuns /\ ~cut /\ mem.pub =>
        \A p \in Purpose, debug \in BOOLEAN : gatewayAuthForPurpose(p, debug, CallOf(p))
=============================================================================

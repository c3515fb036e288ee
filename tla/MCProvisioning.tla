--------------------------- MODULE MCProvisioning ---------------------------
(* A /30 configured by its network address, as in MCPeerStore: two         *)
(* addresses for two ids and two keys, so that the table and the device    *)
(* hold several peers and addresses change hands.                          *)
EXTENDS Provisioning, TLC

CONSTANTS i1, i2, k1, k2

(* Ids are interchangeable, and so are the keys.                           *)
Symmetry == Permutations({i1, i2}) \cup Permutations({k1, k2})

(* Draining only makes handlePutPeer refuse; the run about it is another.  *)
NoStatusCommand == status = "online" /\ \A p \in Proc : pc[p] # "bridge"
=============================================================================

---------------------------- MODULE MCPeerStore ----------------------------
(* The peer table alone.  A /30 configured by its network address (server  *)
(* and network address coincide) leaves two addresses for three ids and    *)
(* four keys: the pool runs dry, an address is freed and handed out again, *)
(* keys move between ids and collide.                                      *)
EXTENDS PeerStore
=============================================================================

----------------------------- MODULE PeerStore -----------------------------
(***************************************************************************)
(* The peer table of the node's SQLite database (internal/store), with the *)
(* allocation of tunnel addresses.  Every operation runs on the only       *)
(* connection of the pool (SetMaxOpenConns(1)), an upsert inside one       *)
(* transaction, so each is one atomic step here.                           *)
(*                                                                         *)
(* A tunnel address is its offset in the subnet: 0 is the network address, *)
(* SubnetSize - 1 the broadcast address, ServerHost the node's own.  Name, *)
(* wallet, timestamps and the proxy credentials of a row are left out:     *)
(* nothing on the node reads them back.  So is "enabled", which every      *)
(* writer sets to true.                                                    *)
(***************************************************************************)
EXTENDS Integers

CONSTANTS
    PeerId,     \* gateway-issued client ids
    WGKey,      \* client public keys, well-formed or not
    PSK,        \* preshared keys, "no preshared key" being one of them
    SubnetSize, \* number of addresses of the configured subnet
    ServerHost, \* the node's own address in it
    NoPeer      \* "no row"

ASSUME SubnetAssumption ==
    /\ SubnetSize \in Nat \ {0}
    /\ ServerHost \in 0 .. SubnetSize - 1

Address == 0 .. SubnetSize - 1

Row == [key : WGKey, psk : PSK, ip : Address]

ASSUME NoPeerAssumption == NoPeer \notin Row

VARIABLE
    peers       \* the table: a row, or NoPeer, for every id

-----------------------------------------------------------------------------

Registered(ps) == {i \in PeerId : ps[i] # NoPeer}

(* The rows, as ListPeers returns them.                                    *)
ListPeers(ps) == {ps[i] : i \in Registered(ps)}

Reserved == {0, SubnetSize - 1, ServerHost}

(* Mutant: the addresses in use are not read.                              *)
FreeOrTaken(ps) == Address \ Reserved

Free(ps) == {a \in Address \ Reserved : \A i \in Registered(ps) : ps[i].ip # a}

(* The lowest free address; defined when there is one.                     *)
txAllocateIP(ps) == CHOOSE a \in Free(ps) : \A b \in Free(ps) : a <= b

(* The ids whose row holds key k: at most one, the column is UNIQUE.       *)
Holders(ps, k) == {i \in Registered(ps) : ps[i].key = k}

(* The id an upsert works on: the requested one, unless it is unknown and  *)
(* the key is already registered under another id.                         *)
Target(ps, id, k) ==
    IF ps[id] = NoPeer /\ Holders(ps, k) # {}
    THEN CHOOSE i \in Holders(ps, k) : TRUE
    ELSE id

(* Mutant: the column is not UNIQUE.                                       *)
AnyKey(ps, id, k) == TRUE

(* UNIQUE(wg_public_key) lets the row of id carry key k.                   *)
KeyAvailable(ps, id, k) == Holders(ps, k) \subseteq {id}

-----------------------------------------------------------------------------
(* UpsertPeer has four outcomes.                                           *)

(* Mutant: an update allocates again.                                      *)
UpdateReallocates(id, k, s) ==
    LET t == Target(peers, id, k)
    IN  /\ peers[t] # NoPeer
        /\ KeyAvailable(peers, t, k)
        /\ Free(peers) # {}
        /\ peers' = [peers EXCEPT ![t] =
                        [key |-> k, psk |-> s, ip |-> txAllocateIP(peers)]]

UpdatePeer(id, k, s) ==
    LET t == Target(peers, id, k)
    IN  /\ peers[t] # NoPeer
        /\ KeyAvailable(peers, t, k)
        /\ peers' = [peers EXCEPT ![t] = [key |-> k, psk |-> s, ip |-> @.ip]]

KeyConflict(id, k) ==
    LET t == Target(peers, id, k)
    IN  /\ peers[t] # NoPeer
        /\ ~KeyAvailable(peers, t, k)
        /\ UNCHANGED peers

CreatePeer(id, k, s) ==
    /\ peers[Target(peers, id, k)] = NoPeer
    /\ Free(peers) # {}
    /\ peers' = [peers EXCEPT ![id] =
                    [key |-> k, psk |-> s, ip |-> txAllocateIP(peers)]]

SubnetExhausted(id, k) ==
    /\ peers[Target(peers, id, k)] = NoPeer
    /\ Free(peers) = {}
    /\ UNCHANGED peers

UpsertPeer(id, k, s) ==
    \/ UpdatePeer(id, k, s)
    \/ KeyConflict(id, k)
    \/ CreatePeer(id, k, s)
    \/ SubnetExhausted(id, k)

DeletePeer(id) == peers' = [peers EXCEPT ![id] = NoPeer]

StoreInit == peers = [i \in PeerId |-> NoPeer]

StoreNext ==
    \E id \in PeerId :
        \/ \E k \in WGKey, s \in PSK : UpsertPeer(id, k, s)
        \/ DeletePeer(id)

StoreSpec == StoreInit /\ [][StoreNext]_peers

-----------------------------------------------------------------------------
(* The table holds rows under the ids of PeerId (store.Peer).              *)
StoreTypeOK == peers \in [PeerId -> Row \cup {NoPeer}]

(* No two peers hold the same tunnel address, however creations, updates   *)
(* and deletions follow one another (UpsertPeer: "IP allocation is         *)
(* race-free"), and none holds the network, broadcast or server address    *)
(* (txAllocateIP).                                                         *)
AddressesExclusive ==
    \A i, j \in PeerId :
        peers[i] # NoPeer =>
            /\ peers[i].ip \notin Reserved
            /\ peers[j] # NoPeer /\ peers[j].ip = peers[i].ip => i = j

(* A public key belongs to one peer, also after a reconnect under another  *)
(* id (UpsertPeer looks the key up before it inserts).                     *)
KeysExclusive ==
    \A i, j \in PeerId :
        peers[i] # NoPeer /\ peers[j] # NoPeer /\ peers[i].key = peers[j].key
            => i = j

(* A client that stays registered keeps its id and its address, whether    *)
(* the gateway repeats the id (with a new key or not) or the key (with a   *)
(* new id): UpsertPeer, "the allocated IP ... preserved", and the          *)
(* reconnect rule below it.                                                *)
ClientKeepsAddress ==
    [][\A i, j \in PeerId :
          /\ peers[i] # NoPeer
          /\ peers'[j] # NoPeer
          /\ i = j \/ peers[i].key = peers'[j].key
          => i = j /\ peers[i].ip = peers'[j].ip]_peers
=============================================================================

------------------------- MODULE ProvisioningProofs -------------------------
(***************************************************************************)
(* What holds of the peer table for every set of ids and keys and every    *)
(* subnet, and of Provisioning for every set of handlers and sessions,     *)
(* with and without faults.                                                *)
(***************************************************************************)
EXTENDS Provisioning, FiniteSetTheorems, TLAPS

-----------------------------------------------------------------------------
(* The peer table                                                          *)

(* A non-empty set of natural numbers has a least element.                 *)
LEMMA LeastElement ==
    ASSUME NEW S, S \subseteq Nat, S # {}
    PROVE  \E a \in S : \A b \in S : a <= b
<1>. DEFINE R == {ss \in Nat \X Nat : ss[1] < ss[2]}
<1>1. IsWellFoundedOn(R, Nat)
  BY NatLessThanWellFounded, Zenon DEF OpToRel
<1>. HIDE DEF R
<1>2. PICK x \in S : \A y \in S : ~ (<<y, x>> \in R)
  BY <1>1, WFMin, Zenon
<1>3. \A y \in S : ~ (y < x)
  BY <1>2, Zenon DEF R
<1>. QED
  BY <1>3

(* An address that txAllocateIP returns is free.                           *)
LEMMA AllocatedIsFree ==
    ASSUME Free(peers) # {}
    PROVE  txAllocateIP(peers) \in Free(peers)
<1>1. Free(peers) \subseteq Nat
  BY SubnetAssumption DEF Free, Address
<1>2. \E a \in Free(peers) : \A b \in Free(peers) : a <= b
  BY <1>1, LeastElement, Zenon
<1>. QED
  BY <1>2, Zenon DEF txAllocateIP

(* An upsert works on the requested id or on the one that holds the key.   *)
LEMMA TargetIsId ==
    ASSUME NEW id \in PeerId, NEW k \in WGKey
    PROVE  /\ Target(peers, id, k) \in PeerId
           /\ peers[Target(peers, id, k)] = NoPeer =>
                Target(peers, id, k) = id /\ Holders(peers, k) = {}
BY Zenon DEF Target, Holders, Registered

-----------------------------------------------------------------------------

StoreInv == StoreTypeOK /\ AddressesExclusive /\ KeysExclusive

LEMMA UpdatePeerStep ==
    ASSUME StoreInv, NEW id \in PeerId, NEW k \in WGKey, NEW s \in PSK,
           UpdatePeer(id, k, s)
    PROVE  StoreInv'
<1>. DEFINE t == Target(peers, id, k)
<1>1. t \in PeerId
  BY TargetIsId, Zenon
<1>. HIDE DEF t
<1>2. /\ peers[t] # NoPeer
      /\ KeyAvailable(peers, t, k)
      /\ peers' = [peers EXCEPT ![t] = [key |-> k, psk |-> s, ip |-> peers[t].ip]]
  BY Zenon DEF UpdatePeer, t
<1>3. peers[t] \in Row
  BY <1>1, <1>2, Zenon DEF StoreInv, StoreTypeOK
<1>4. StoreTypeOK'
  BY <1>1, <1>2, <1>3, Zenon DEF StoreInv, StoreTypeOK, Row
<1>5. /\ \A i \in PeerId \ {t} : peers'[i] = peers[i]
      /\ peers'[t].ip = peers[t].ip
      /\ peers'[t].key = k
  BY <1>1, <1>2, ZenonT(30) DEF StoreInv, StoreTypeOK
<1>6. AddressesExclusive'
  BY <1>1, <1>2, <1>5 DEF StoreInv, AddressesExclusive
<1>7. \A i \in PeerId \ {t} : peers[i] # NoPeer => peers[i].key # k
  BY <1>2, Zenon DEF KeyAvailable, Holders, Registered
<1>8. KeysExclusive'
  BY <1>5, <1>7 DEF StoreInv, KeysExclusive
<1>. QED
  BY <1>4, <1>6, <1>8, Zenon DEF StoreInv

LEMMA CreatePeerStep ==
    ASSUME StoreInv, NEW id \in PeerId, NEW k \in WGKey, NEW s \in PSK,
           CreatePeer(id, k, s)
    PROVE  StoreInv'
<1>. DEFINE a == txAllocateIP(peers)
<1>1. a \in Free(peers)
  BY AllocatedIsFree, Zenon DEF CreatePeer
<1>. HIDE DEF a
<1>2. peers' = [peers EXCEPT ![id] = [key |-> k, psk |-> s, ip |-> a]]
  BY Zenon DEF CreatePeer, a
<1>3. peers[id] = NoPeer /\ Holders(peers, k) = {}
  BY TargetIsId, Zenon DEF CreatePeer
<1>4. StoreTypeOK'
  BY <1>1, <1>2, Zenon DEF StoreInv, StoreTypeOK, Row, Free
<1>5. /\ \A i \in PeerId \ {id} : peers'[i] = peers[i]
      /\ peers'[id].ip = a
      /\ peers'[id].key = k
  BY <1>2, Zenon DEF StoreInv, StoreTypeOK
<1>6. AddressesExclusive'
  BY <1>1, <1>5 DEF StoreInv, AddressesExclusive, Free, Registered
<1>7. KeysExclusive'
  BY <1>3, <1>5 DEF StoreInv, KeysExclusive, Holders, Registered
<1>. QED
  BY <1>4, <1>6, <1>7, Zenon DEF StoreInv

LEMMA DeletePeerStep ==
    ASSUME StoreInv, NEW id \in PeerId, DeletePeer(id)
    PROVE  StoreInv'
<1>1. StoreTypeOK'
  BY Zenon DEF StoreInv, StoreTypeOK, DeletePeer
<1>2. \A i \in PeerId : peers'[i] = IF i = id THEN NoPeer ELSE peers[i]
  BY Zenon DEF StoreInv, StoreTypeOK, DeletePeer
<1>3. AddressesExclusive'
  BY <1>2, ZenonT(30) DEF StoreInv, AddressesExclusive
<1>4. KeysExclusive'
  BY <1>2, Zenon DEF StoreInv, KeysExclusive
<1>. QED
  BY <1>1, <1>3, <1>4, Zenon DEF StoreInv

LEMMA StoreInvInitial == StoreInit => StoreInv
BY Zenon DEF StoreInit, StoreInv, StoreTypeOK, AddressesExclusive, KeysExclusive

(* Every upsert, whatever its outcome, and every deletion keeps StoreInv.  *)
LEMMA StoreInvInductive == StoreInv /\ [StoreNext]_peers => StoreInv'
<1>. SUFFICES ASSUME StoreInv, [StoreNext]_peers
              PROVE  StoreInv'
  BY Zenon
<1>1. CASE UNCHANGED peers
  BY <1>1, ZenonT(30) DEF StoreInv, StoreTypeOK, AddressesExclusive, KeysExclusive
<1>2. ASSUME NEW id \in PeerId, NEW k \in WGKey, NEW s \in PSK,
             UpsertPeer(id, k, s)
      PROVE  StoreInv'
  BY <1>1, <1>2, UpdatePeerStep, CreatePeerStep, Zenon
     DEF UpsertPeer, KeyConflict, SubnetExhausted
<1>3. ASSUME NEW id \in PeerId, DeletePeer(id)
      PROVE  StoreInv'
  BY <1>3, DeletePeerStep, Zenon
<1>. QED
  BY <1>1, <1>2, <1>3, Zenon DEF StoreNext

LEMMA StoreInvariant == StoreSpec => []StoreInv
BY StoreInvInitial, StoreInvInductive, PTL DEF StoreSpec

(* The peer table hands every tunnel address to at most one peer and never *)
(* a reserved one (txAllocateIP, and the update that keeps the address).   *)
THEOREM StoreSafe == StoreSpec => [](StoreTypeOK /\ AddressesExclusive)
<1>1. StoreInv => StoreTypeOK /\ AddressesExclusive
  BY Zenon DEF StoreInv
<1>. QED
  BY <1>1, StoreInvariant, PTL

(* The peer table registers every public key under one id: an upsert of a  *)
(* key that another id holds goes to that id or is refused (UpsertPeer).   *)
THEOREM KeysStayExclusive == StoreSpec => []KeysExclusive
<1>1. StoreInv => KeysExclusive
  BY Zenon DEF StoreInv
<1>. QED
  BY <1>1, StoreInvariant, PTL

-----------------------------------------------------------------------------

(* ClientKeepsAddress for one step.                                        *)
KeepsAddress ==
    \A i, j \in PeerId :
        /\ peers[i] # NoPeer
        /\ peers'[j] # NoPeer
        /\ i = j \/ peers[i].key = peers'[j].key
        => i = j /\ peers[i].ip = peers'[j].ip

LEMMA StepKeepsAddress == StoreInv /\ [StoreNext]_peers => KeepsAddress
<1>. SUFFICES ASSUME StoreInv, [StoreNext]_peers
              PROVE  KeepsAddress
  BY Zenon
<1>1. CASE UNCHANGED peers
  BY <1>1, ZenonT(30) DEF KeepsAddress, StoreInv, KeysExclusive
<1>2. ASSUME NEW id \in PeerId, NEW k \in WGKey, NEW s \in PSK,
             UpdatePeer(id, k, s)
      PROVE  KeepsAddress
  <2>. DEFINE t == Target(peers, id, k)
  <2>1. t \in PeerId
    BY TargetIsId, Zenon
  <2>. HIDE DEF t
  <2>2. /\ peers[t] # NoPeer
        /\ Holders(peers, k) \subseteq {t}
        /\ peers' = [peers EXCEPT ![t] = [key |-> k, psk |-> s, ip |-> peers[t].ip]]
    BY <1>2, Zenon DEF UpdatePeer, KeyAvailable, t
  <2>3. /\ \A i \in PeerId \ {t} : peers'[i] = peers[i]
        /\ peers'[t].ip = peers[t].ip
        /\ peers'[t].key = k
    BY <2>1, <2>2, Zenon DEF StoreInv, StoreTypeOK
  <2>4. \A i \in PeerId : peers[i] # NoPeer /\ peers[i].key = k => i = t
    BY <2>2, Zenon DEF Holders, Registered
  <2>. QED
    BY <2>3, <2>4 DEF KeepsAddress, StoreInv, KeysExclusive
<1>3. ASSUME NEW id \in PeerId, NEW k \in WGKey, NEW s \in PSK,
             CreatePeer(id, k, s)
      PROVE  KeepsAddress
  <2>1. peers[id] = NoPeer /\ Holders(peers, k) = {}
    BY <1>3, TargetIsId, Zenon DEF CreatePeer
  <2>2. /\ \A i \in PeerId \ {id} : peers'[i] = peers[i]
        /\ peers'[id].key = k
    BY <1>3, Zenon DEF CreatePeer, StoreInv, StoreTypeOK
  <2>. QED
    BY <2>1, <2>2 DEF KeepsAddress, StoreInv, KeysExclusive, Holders, Registered
<1>4. ASSUME NEW id \in PeerId, DeletePeer(id)
      PROVE  KeepsAddress
  <2>1. \A i \in PeerId : peers'[i] = IF i = id THEN NoPeer ELSE peers[i]
    BY <1>4, Zenon DEF StoreInv, StoreTypeOK, DeletePeer
  <2>. QED
    BY <2>1, ZenonT(30) DEF KeepsAddress, StoreInv, KeysExclusive
<1>. QED
  BY <1>1, <1>2, <1>3, <1>4, ZenonT(30)
     DEF StoreNext, UpsertPeer, KeyConflict, SubnetExhausted

(* A registered client keeps its id and its address through every upsert   *)
(* and every deletion of others.                                           *)
THEOREM AddressKept == StoreSpec => ClientKeepsAddress
<1>1. StoreInv /\ [StoreNext]_peers => [KeepsAddress]_peers
  BY StepKeepsAddress, Zenon
<1>. QED
  BY <1>1, StoreInvInitial, StoreInvInductive, PTL
     DEF StoreSpec, ClientKeepsAddress, KeepsAddress

-----------------------------------------------------------------------------

(* The addresses in use.                                                   *)
Used == {peers[i].ip : i \in Registered(peers)}

LEMMA UsedAddresses ==
    ASSUME StoreInv
    PROVE  /\ Used \subseteq Address \ Reserved
           /\ Free(peers) = (Address \ Reserved) \ Used
<1>1. \A i \in Registered(peers) : peers[i].ip \in Address \ Reserved
  BY Zenon DEF StoreInv, StoreTypeOK, AddressesExclusive, Registered, Row
<1>2. QED
  BY <1>1, Zenon DEF Used, Free

LEMMA UsedByOne ==
    ASSUME StoreInv
    PROVE  ExistsBijection(Used, Registered(peers))
<1>. DEFINE f == [a \in Used |-> CHOOSE i \in Registered(peers) : peers[i].ip = a]
<1>1. \A a \in Used : f[a] \in Registered(peers) /\ peers[f[a]].ip = a
  BY Zenon DEF Used
<1>2. \A i \in Registered(peers) : peers[i].ip \in Used /\ f[peers[i].ip] = i
  <2>1. \A i, j \in Registered(peers) : peers[j].ip = peers[i].ip => i = j
    BY Zenon DEF StoreInv, AddressesExclusive, Registered
  <2>2. QED
    BY <1>1, <2>1, ZenonT(30) DEF Used
<1>3. f \in [Used -> Registered(peers)]
  BY <1>1, Zenon
<1>. HIDE DEF f
<1>4. f \in Bijection(Used, Registered(peers))
  <2>1. IsInjective(f)
    BY <1>1, <1>3 DEF IsInjective
  <2>2. \A i \in Registered(peers) : \E a \in Used : f[a] = i
    BY <1>2, Zenon
  <2>3. QED
    BY <1>3, <2>1, <2>2, Zenon DEF Bijection, Injection, Surjection
<1>5. QED
  BY <1>4, Zenon DEF ExistsBijection

(* Every address that is not reserved is free or belongs to one registered *)
(* peer: deletions give back what creations took, and updates neither take *)
(* nor give (txAllocateIP, txUsedIPs, DeletePeer).                         *)
PoolBalanced ==
    Cardinality(Registered(peers)) + Cardinality(Free(peers)) =
        Cardinality(Address \ Reserved)

(* No sequence of upserts and deletions leaks an address: a creation is    *)
(* refused for want of one only when there are as many peers as addresses. *)
THEOREM AddressesNeverLeak ==
    StoreSpec => [](/\ PoolBalanced
                    /\ Free(peers) = {} =>
                          Cardinality(Registered(peers)) = Cardinality(Address \ Reserved))
<1>1. ASSUME StoreInv
      PROVE  /\ PoolBalanced
             /\ Free(peers) = {} =>
                   Cardinality(Registered(peers)) = Cardinality(Address \ Reserved)
  <2>. DEFINE S == Address \ Reserved
  <2>1. IsFiniteSet(Address)
    BY SubnetAssumption, FS_Interval DEF Address
  <2>2. IsFiniteSet(S)
    BY <2>1, FS_Difference, Zenon
  <2>3. Used \subseteq S /\ Free(peers) = S \ Used
    BY <1>1, UsedAddresses, Zenon
  <2>. HIDE DEF S
  <2>4. S \cap Used = Used
    BY <2>3, Zenon
  <2>5. IsFiniteSet(Used)
    BY <2>2, <2>3, FS_Subset, Zenon
  <2>6. Cardinality(Registered(peers)) = Cardinality(Used)
    BY <1>1, <2>5, UsedByOne, FS_Bijection, Zenon
  <2>7. Cardinality(S \ Used) = Cardinality(S) - Cardinality(Used)
    BY <2>2, <2>4, FS_Difference, ZenonT(30)
  <2>8. Cardinality(S) \in Nat /\ Cardinality(Used) \in Nat
    BY <2>2, <2>5, FS_CardinalityType, Zenon
  <2>9. Cardinality(Used) + (Cardinality(S) - Cardinality(Used)) = Cardinality(S)
    BY <2>8
  <2>10. PoolBalanced
    BY <2>3, <2>6, <2>7, <2>9, Zenon DEF PoolBalanced, S
  <2>11. ASSUME Free(peers) = {}
         PROVE  Cardinality(Registered(peers)) = Cardinality(S)
    <3>1. Used = S
      BY <2>3, <2>11, Zenon
    <3>2. QED
      BY <2>6, <3>1, Zenon
  <2>12. QED
    BY <2>10, <2>11, Zenon DEF S
<1>2. QED
  BY <1>1, StoreInvariant, PTL

-----------------------------------------------------------------------------

(* The table after an upsert, as a function of the one before.             *)
AfterUpsert(ps, id, k, s) ==
    LET t == Target(ps, id, k)
    IN  CASE ps[t] # NoPeer /\ KeyAvailable(ps, t, k) ->
                [ps EXCEPT ![t] = [key |-> k, psk |-> s, ip |-> @.ip]]
          [] ps[t] = NoPeer /\ Free(ps) # {} ->
                [ps EXCEPT ![id] = [key |-> k, psk |-> s, ip |-> txAllocateIP(ps)]]
          [] OTHER -> ps

(* UpsertPeer has one outcome in every state of the table.                 *)
LEMMA UpsertIsAFunction ==
    ASSUME NEW id, NEW k, NEW s
    PROVE  UpsertPeer(id, k, s) <=> peers' = AfterUpsert(peers, id, k, s)
<1>. DEFINE t == Target(peers, id, k)
<1>1. CASE peers[t] # NoPeer /\ KeyAvailable(peers, t, k)
  BY <1>1, Zenon DEF UpsertPeer, UpdatePeer, KeyConflict, CreatePeer, SubnetExhausted,
                     AfterUpsert
<1>2. CASE peers[t] # NoPeer /\ ~KeyAvailable(peers, t, k)
  BY <1>2, Zenon DEF UpsertPeer, UpdatePeer, KeyConflict, CreatePeer, SubnetExhausted,
                     AfterUpsert
<1>3. CASE peers[t] = NoPeer /\ Free(peers) # {}
  BY <1>3, Zenon DEF UpsertPeer, UpdatePeer, KeyConflict, CreatePeer, SubnetExhausted,
                     AfterUpsert
<1>4. CASE peers[t] = NoPeer /\ Free(peers) = {}
  BY <1>4, Zenon DEF UpsertPeer, UpdatePeer, KeyConflict, CreatePeer, SubnetExhausted,
                     AfterUpsert
<1>5. QED
  BY <1>1, <1>2, <1>3, <1>4, Zenon

(* An upsert of what a row already says finds the row and changes nothing. *)
LEMMA UpsertOfTheSame ==
    ASSUME NEW q \in [PeerId -> Row \cup {NoPeer}],
           NEW id \in PeerId, NEW k \in WGKey, NEW s \in PSK, NEW t \in PeerId,
           q[t] # NoPeer, q[t].key = k, q[t].psk = s, Holders(q, k) = {t},
           q[id] # NoPeer => t = id
    PROVE  AfterUpsert(q, id, k, s) = q
<1>1. Target(q, id, k) = t
  BY Zenon DEF Target
<1>2. KeyAvailable(q, t, k)
  BY Zenon DEF KeyAvailable
<1>3. AfterUpsert(q, id, k, s) = [q EXCEPT ![t] = [key |-> k, psk |-> s, ip |-> q[t].ip]]
  BY <1>1, <1>2, Zenon DEF AfterUpsert
<1>4. q[t] = [key |-> k, psk |-> s, ip |-> q[t].ip]
  BY Zenon DEF Row
<1>5. QED
  BY <1>3, <1>4, ZenonT(60)

(* A PUT may be sent again, by the gateway or by a client that lost the    *)
(* answer: the second upsert finds what the first one left and changes     *)
(* nothing, whether the first updated, created, moved to the id that holds *)
(* the key or was refused (UpsertPeer).                                    *)
UpsertIdempotent ==
    \A id \in PeerId, k \in WGKey, s \in PSK :
        LET after == AfterUpsert(peers, id, k, s)
        IN  AfterUpsert(after, id, k, s) = after

LEMMA UpsertTwice ==
    ASSUME StoreInv, NEW id \in PeerId, NEW k \in WGKey, NEW s \in PSK
    PROVE  AfterUpsert(AfterUpsert(peers, id, k, s), id, k, s) =
               AfterUpsert(peers, id, k, s)
<1>. DEFINE t == Target(peers, id, k)
            q == AfterUpsert(peers, id, k, s)
<1>. SUFFICES AfterUpsert(q, id, k, s) = q
  BY Zenon
<1>1. /\ t \in PeerId
      /\ peers[t] = NoPeer => t = id /\ Holders(peers, k) = {}
  BY TargetIsId, Zenon
<1>2. peers[id] # NoPeer => t = id
  BY Zenon DEF Target
<1>3. ASSUME NEW u \in PeerId, NEW a \in Address,
             q = [peers EXCEPT ![u] = [key |-> k, psk |-> s, ip |-> a]],
             Holders(peers, k) \subseteq {u},
             peers[id] # NoPeer => u = id
      PROVE  AfterUpsert(q, id, k, s) = q
  <2>. HIDE DEF q
  <2>1. [key |-> k, psk |-> s, ip |-> a] \in Row
    BY Zenon DEF Row
  <2>2. q \in [PeerId -> Row \cup {NoPeer}]
    BY <1>3, <2>1, Zenon DEF StoreInv, StoreTypeOK
  <2>3. /\ q[u] = [key |-> k, psk |-> s, ip |-> a]
        /\ \A i \in PeerId \ {u} : q[i] = peers[i]
    BY <1>3, Zenon DEF StoreInv, StoreTypeOK
  <2>4. q[u] # NoPeer
    BY <2>1, <2>3, NoPeerAssumption, ZenonT(30)
  <2>5. q[u].key = k /\ q[u].psk = s
    BY <2>3
  <2>6. Holders(q, k) = {u}
    <3>1. \A i \in PeerId \ {u} : ~(q[i] # NoPeer /\ q[i].key = k)
      BY <1>3, <2>3, Zenon DEF Holders, Registered
    <3>2. QED
      BY <2>4, <2>5, <3>1, Zenon DEF Holders, Registered
  <2>7. q[id] # NoPeer => u = id
    BY <1>3, <2>3, Zenon
  <2>8. QED
    BY <2>2, <2>4, <2>5, <2>6, <2>7, UpsertOfTheSame, ZenonT(30)
<1>4. CASE peers[t] # NoPeer /\ KeyAvailable(peers, t, k)
  <2>1. q = [peers EXCEPT ![t] = [key |-> k, psk |-> s, ip |-> peers[t].ip]]
    BY <1>4, Zenon DEF AfterUpsert
  <2>2. peers[t].ip \in Address
    BY <1>1, <1>4, Zenon DEF StoreInv, StoreTypeOK, Row
  <2>3. Holders(peers, k) \subseteq {t}
    BY <1>4, Zenon DEF KeyAvailable
  <2>. HIDE DEF q, t
  <2>4. QED
    BY <1>1, <1>2, <1>3, <2>1, <2>2, <2>3, Zenon
<1>5. CASE peers[t] = NoPeer /\ Free(peers) # {}
  <2>1. q = [peers EXCEPT ![id] = [key |-> k, psk |-> s, ip |-> txAllocateIP(peers)]]
    BY <1>5, Zenon DEF AfterUpsert
  <2>2. txAllocateIP(peers) \in Address
    BY <1>5, AllocatedIsFree, Zenon DEF Free
  <2>3. Holders(peers, k) \subseteq {id}
    BY <1>1, <1>5, Zenon
  <2>. HIDE DEF q, t
  <2>4. QED
    BY <1>3, <2>1, <2>2, <2>3, ZenonT(30)
<1>6. CASE ~(peers[t] # NoPeer /\ KeyAvailable(peers, t, k)) /\ ~(peers[t] = NoPeer /\ Free(peers) # {})
  <2>1. q = peers
    BY <1>6, Zenon DEF AfterUpsert
  <2>2. QED
    BY <2>1, Zenon
<1>7. QED
  BY <1>4, <1>5, <1>6, Zenon

(* Repeating an upsert is harmless in every state the table can be in.     *)
THEOREM UpsertIsRetriable == StoreSpec => []UpsertIdempotent
<1>1. StoreInv => UpsertIdempotent
  BY UpsertTwice, Zenon DEF UpsertIdempotent
<1>2. QED
  BY <1>1, StoreInvariant, PTL

-----------------------------------------------------------------------------
(* The handlers                                                            *)

(* A handler at a step of an operation serves a request of that operation. *)
Shape ==
    \A p \in Proc :
        /\ pc[p] = "upsert" => req[p] \in PutRequest
        /\ pc[p] = "delete" => req[p] \in DeleteRequest
        /\ pc[p] \in {"resync", "loop"} => req[p] \in ResyncRequest
        /\ pc[p] \in {"bridge", "mirror"} => req[p] \in StatusRequest
        /\ pc[p] \in ApplyLabel =>
              req[p] \in PutRequest \cup DeleteRequest \cup ResyncRequest

TypeInv == TypeOK /\ Shape

LEMMA ListPeersType ==
    ASSUME StoreTypeOK
    PROVE  ListPeers(peers) \in SUBSET Row
BY Zenon DEF StoreTypeOK, ListPeers, Registered

LEMMA FinishType ==
    ASSUME LocalTypeOK, Shape, NEW p \in Proc, NEW r, Finish(p, r)
    PROVE  LocalTypeOK' /\ Shape'
<1>1. Shape'
  BY Zenon DEF LocalTypeOK, Finish, Shape, ApplyLabel
<1>2. pc' \in [Proc -> Label] /\ req' \in [Proc -> Request \cup {None}]
  BY Zenon DEF LocalTypeOK, Finish, Label
<1>3. LocalTypeOK'
  BY <1>2, Zenon DEF LocalTypeOK, Finish
<1>. QED
  BY <1>1, <1>3, Zenon

LEMMA BeginType ==
    ASSUME LocalTypeOK, Shape, NEW p \in Proc, NEW r, NEW l, Begin(p, r, l),
           \/ r \in PutRequest /\ l = "upsert"
           \/ r \in DeleteRequest /\ l = "delete"
           \/ r \in ResyncRequest /\ l = "resync"
           \/ r \in StatusRequest /\ l = "bridge"
    PROVE  LocalTypeOK' /\ Shape'
<1>1. r \in Request /\ l \in Label
  BY Zenon DEF Request, Label
<1>2. LocalTypeOK'
  BY <1>1, Zenon DEF LocalTypeOK, Begin
<1>3. Shape'
  BY ZenonT(30) DEF LocalTypeOK, Begin, Shape, ApplyLabel
<1>. QED
  BY <1>2, <1>3, Zenon

LEMMA TouchType ==
    ASSUME LocalTypeOK, NEW p \in Proc, Touch(p)
    PROVE  touched' \in [Proc -> SUBSET PeerId]
BY Zenon DEF LocalTypeOK, Touch

(* From upsert, delete and the loop a handler goes to Apply, through its   *)
(* steps, and from its last one back to the loop.                          *)
LEMMA GotoType ==
    ASSUME LocalTypeOK, Shape, NEW p \in Proc, NEW l, Goto(p, l),
           snap' \in [Proc -> SUBSET Row], touched' \in [Proc -> SUBSET PeerId],
           \/ pc[p] \in {"upsert", "delete"} \cup ApplyLabel /\ l \in ApplyLabel
           \/ pc[p] \in ApplyLabel /\ req[p].op = "resync" /\ l = "loop"
           \/ pc[p] = "bridge" /\ l = "mirror"
    PROVE  LocalTypeOK' /\ Shape'
<1>1. l \in Label
  BY Zenon DEF Label, ApplyLabel
<1>2. LocalTypeOK'
  BY <1>1, Zenon DEF LocalTypeOK, Goto
<1>3. Shape'
  <2>. SUFFICES ASSUME NEW q \in Proc
                PROVE  Shape!(q)'
    BY Zenon DEF Shape
  <2>1. CASE q # p
    BY <2>1, Zenon DEF LocalTypeOK, Goto, Shape
  <2>2. CASE q = p
    <3>1. pc'[p] = l /\ req'[p] = req[p]
      BY Zenon DEF LocalTypeOK, Goto
    <3>2. CASE pc[p] \in {"upsert", "delete"} \cup ApplyLabel /\ l \in ApplyLabel
      BY <2>2, <3>1, <3>2, Zenon DEF Shape, ApplyLabel
    <3>3. CASE pc[p] \in ApplyLabel /\ req[p].op = "resync" /\ l = "loop"
      BY <2>2, <3>1, <3>3, Zenon DEF Shape, ApplyLabel, PutRequest, DeleteRequest
    <3>4. CASE pc[p] = "bridge" /\ l = "mirror"
      BY <2>2, <3>1, <3>4, ZenonT(30) DEF Shape, ApplyLabel
    <3>. QED
      BY <3>2, <3>3, <3>4, Zenon
  <2>. QED
    BY <2>1, <2>2, Zenon
<1>. QED
  BY <1>2, <1>3, Zenon

-----------------------------------------------------------------------------

(* Every step of the node is a step of the store, or leaves it alone.      *)
LEMMA StepOfStore ==
    ASSUME TypeInv, [Next]_vars
    PROVE  [StoreNext]_peers
<1>1. ASSUME NEW p \in Proc, Upsert(p)
      PROVE  [StoreNext]_peers
  <2>1. req[p] \in PutRequest
    BY <1>1, Zenon DEF Upsert, TypeInv, Shape
  <2>2. req[p].id \in PeerId /\ req[p].key \in WGKey /\ req[p].psk \in PSK
    BY <2>1, Zenon DEF PutRequest
  <2>3. UpsertPeer(req[p].id, req[p].key, req[p].psk)
    BY <1>1, Zenon DEF Upsert, UpsertPeer
  <2>. QED
    BY <2>2, <2>3, Zenon DEF StoreNext
<1>2. ASSUME NEW p \in Proc, Delete(p)
      PROVE  [StoreNext]_peers
  <2>1. req[p].id \in PeerId
    BY <1>2, Zenon DEF Delete, TypeInv, Shape, DeleteRequest
  <2>. QED
    BY <1>2, <2>1, Zenon DEF Delete, StoreNext
<1>3. ASSUME NEW p \in Proc, ResyncLoop(p)
      PROVE  [StoreNext]_peers
  <2>1. todo[p] \subseteq PeerId
    BY Zenon DEF TypeInv, TypeOK, LocalTypeOK
  <2>. QED
    BY <1>3, <2>1, Zenon DEF ResyncLoop, StoreNext
<1>4. ASSUME NEW p \in Proc,
             Apply(p) \/ ResyncList(p) \/ SetBridge(p) \/ Mirror(p) \/ Fail(p)
      PROVE  UNCHANGED peers
  BY <1>4, Zenon DEF Apply, ConfList, SyncList, List, ConfTruncate, ConfWrite, SyncPeers,
              ResyncList, SetBridge, Mirror, Fail, World
<1>5. ASSUME NEW p \in Proc, HTTPRequest(p) \/ Command(p)
      PROVE  UNCHANGED peers
  BY <1>5, Zenon DEF HTTPRequest, Command, PutPeer, PutRefused, RemovePeer,
              ResyncPeers, SetStatus, World
<1>6. CASE Crash \/ BootConf \/ BringUp
  BY <1>6, Zenon DEF Crash, BootConf, BringUp
<1>7. CASE UNCHANGED vars
  BY <1>7, Zenon DEF vars
<1>. QED
  BY <1>1, <1>2, <1>3, <1>4, <1>5, <1>6, <1>7, ZenonT(30) DEF Next, Step, Proc

LEMMA TypeInvInitial == Init => TypeInv
<1>. SUFFICES ASSUME Init
              PROVE  TypeInv
  BY Zenon
<1>1. StoreTypeOK
  BY StoreInvInitial, Zenon DEF Init, StoreInv
<1>2. LocalTypeOK
  BY Zenon DEF Init, LocalTypeOK, Label
<1>3. Shape
  BY Zenon DEF Init, Shape, ApplyLabel
<1>. QED
  BY <1>1, <1>2, <1>3, ZenonT(30) DEF Init, TypeInv, TypeOK, ConfFile, Empty, Status

(* What a handler's step does to its own state and what it does to the     *)
(* world are typed separately.                                             *)
LEMMA StepLocalType ==
    ASSUME TypeInv, NEW p \in Proc, Step(p)
    PROVE  LocalTypeOK' /\ Shape'
<1>. USE DEF ApplyLabel
<1>1. LocalTypeOK /\ Shape /\ StoreTypeOK
  BY Zenon DEF TypeInv, TypeOK
<1>2. /\ snap \in [Proc -> SUBSET Row]
      /\ touched \in [Proc -> SUBSET PeerId]
      /\ ListPeers(peers) \in SUBSET Row
      /\ Touch(p) => touched' \in [Proc -> SUBSET PeerId]
  BY <1>1, ListPeersType, TouchType, ZenonT(30) DEF LocalTypeOK
<1>3. CASE Upsert(p)
  <2>1. CASE \E r : Finish(p, r)
    BY <1>1, <2>1, FinishType, ZenonT(30)
  <2>2. CASE /\ Goto(p, "confList")
             /\ Touch(p)
             /\ UNCHANGED snap
    BY <1>1, <1>2, <1>3, <2>2, GotoType, ZenonT(30) DEF Upsert
  <2>. QED
    BY <1>3, <2>1, <2>2, ZenonT(30) DEF Upsert
<1>4. CASE Delete(p)
  BY <1>1, <1>2, <1>4, GotoType, ZenonT(30) DEF Delete
<1>5. CASE Apply(p)
  <2>1. CASE ConfList(p) \/ SyncList(p)
    <3>1. snap' \in [Proc -> SUBSET Row]
      BY <1>2, <2>1, Zenon DEF ConfList, SyncList, List
    <3>. QED
      BY <1>1, <1>2, <2>1, <3>1, GotoType, ZenonT(30) DEF ConfList, SyncList, List
  <2>2. CASE ConfTruncate(p)
    BY <1>1, <1>2, <2>2, GotoType, ZenonT(30) DEF ConfTruncate
  <2>3. CASE ConfWrite(p)
    BY <1>1, <1>2, <2>3, GotoType, ZenonT(30) DEF ConfWrite
  <2>4. CASE SyncPeers(p)
    <3>1. CASE \E r : Finish(p, r)
      BY <1>1, <3>1, FinishType, Zenon
    <3>2. CASE req[p].op = "resync" /\ Goto(p, "loop") /\ UNCHANGED <<snap, touched>>
      BY <1>1, <1>2, <2>4, <3>2, GotoType, ZenonT(30) DEF SyncPeers
    <3>. QED
      BY <2>4, <3>1, <3>2, ZenonT(30) DEF SyncPeers, Applied
  <2>. QED
    BY <1>5, <2>1, <2>2, <2>3, <2>4, ZenonT(30) DEF Apply
<1>6. CASE ResyncList(p)
  <2>1. req[p] \in ResyncRequest /\ req[p].keep \in SUBSET PeerId
    BY <1>1, <1>6, Zenon DEF ResyncList, Shape, ResyncRequest
  <2>2. /\ todo' \in [Proc -> SUBSET PeerId]
        /\ missing' \in [Proc -> SUBSET PeerId]
    BY <1>1, <1>6, <2>1, Zenon DEF ResyncList, LocalTypeOK, Registered
  <2>3. Shape'
    BY <1>1, <1>6, <2>1, ZenonT(30) DEF ResyncList, LocalTypeOK, Shape
  <2>. QED
    BY <1>1, <1>6, <2>2, <2>3, ZenonT(30) DEF ResyncList, LocalTypeOK, Label
<1>7. CASE ResyncLoop(p)
  <2>1. CASE Finish(p, "ok")
    BY <1>1, <2>1, FinishType, ZenonT(30)
  <2>2. ASSUME NEW id \in todo[p],
               todo' = [todo EXCEPT ![p] = @ \ {id}],
               pc' = [pc EXCEPT ![p] = "confList"],
               Touch(p), UNCHANGED <<req, snap, missing, solo, last>>
        PROVE  LocalTypeOK' /\ Shape'
    <3>1. req[p] \in ResyncRequest
      BY <1>1, <1>7, Zenon DEF ResyncLoop, Shape
    <3>2. Shape'
      BY <1>1, <2>2, <3>1, Zenon DEF LocalTypeOK, Shape
    <3>. QED
      BY <1>1, <1>2, <2>2, <3>2, Zenon DEF LocalTypeOK, Label
  <2>. QED
    BY <1>7, <2>1, <2>2, Zenon DEF ResyncLoop
<1>8. CASE SetBridge(p)
  BY <1>1, <1>2, <1>8, GotoType, ZenonT(30) DEF SetBridge
<1>9. CASE Mirror(p) \/ Fail(p)
  BY <1>1, <1>9, FinishType, Zenon DEF Mirror, Fail
<1>. QED
  BY <1>3, <1>4, <1>5, <1>6, <1>7, <1>8, <1>9, ZenonT(30) DEF Step

WorldTypeOK ==
    /\ conf \in ConfFile
    /\ live \in SUBSET Row
    /\ ifup \in BOOLEAN
    /\ phase \in {"down", "booting", "up"}
    /\ status \in Status
    /\ bridge \in Status

LEMMA StepWorldType ==
    ASSUME TypeInv, NEW p \in Proc, Step(p)
    PROVE  WorldTypeOK'
<1>1. /\ WorldTypeOK
      /\ snap[p] \in SUBSET Row
  BY Zenon DEF TypeInv, TypeOK, WorldTypeOK, LocalTypeOK
<1>2. /\ Empty \in ConfFile
      /\ Torn \in ConfFile
      /\ Rendered(snap[p]) \in ConfFile
  BY <1>1, Zenon DEF ConfFile, Empty, Torn, Rendered
<1>3. CASE Upsert(p) \/ Delete(p) \/ ResyncList(p) \/ ResyncLoop(p)
  BY <1>1, <1>3, Zenon DEF Upsert, Delete, ResyncList, ResyncLoop, WorldTypeOK, World, NodeOnly
<1>4. CASE ConfList(p) \/ SyncList(p) \/ ConfTruncate(p) \/ ConfWrite(p)
  BY <1>1, <1>2, <1>4, ZenonT(30)
     DEF ConfList, SyncList, List, ConfTruncate, ConfWrite, WorldTypeOK, World, NodeOnly
<1>5. CASE SyncPeers(p)
  BY <1>1, <1>5, Zenon DEF SyncPeers, WorldTypeOK, NodeOnly
<1>6. CASE SetBridge(p) \/ Mirror(p)
  <2>1. req[p].to \in Status
    BY <1>6, Zenon DEF SetBridge, Mirror, TypeInv, Shape, StatusRequest
  <2>. QED
    BY <1>1, <1>6, <2>1, Zenon DEF SetBridge, Mirror, WorldTypeOK
<1>7. CASE Fail(p)
  <2>1. conf' \in ConfFile
    BY <1>1, <1>2, <1>7, ZenonT(30) DEF Fail, WorldTypeOK
  <2>2. live' \in SUBSET Row
    BY <1>1, <1>7, Zenon DEF Fail, WorldTypeOK
  <2>. QED
    BY <1>1, <1>7, <2>1, <2>2, ZenonT(30) DEF Fail, WorldTypeOK, NodeOnly
<1>. QED
  BY <1>3, <1>4, <1>5, <1>6, <1>7, ZenonT(30) DEF Step, Apply

LEMMA RequestType ==
    ASSUME TypeInv, NEW p \in Proc, HTTPRequest(p) \/ Command(p)
    PROVE  LocalTypeOK' /\ Shape' /\ WorldTypeOK'
<1>1. LocalTypeOK /\ Shape /\ WorldTypeOK
  BY Zenon DEF TypeInv, TypeOK, WorldTypeOK
<1>2. UNCHANGED World
  BY Zenon DEF HTTPRequest, Command, PutPeer, PutRefused, RemovePeer, ResyncPeers, SetStatus
<1>3. WorldTypeOK'
  BY <1>1, <1>2, Zenon DEF World, WorldTypeOK
<1>4. ASSUME NEW id \in PeerId, NEW k \in WGKey, NEW s \in PSK, PutPeer(p, id, k, s)
      PROVE  LocalTypeOK' /\ Shape'
  BY <1>1, <1>4, BeginType, Zenon DEF PutPeer, PutRequest
<1>5. ASSUME NEW id \in PeerId, NEW k \in WGKey, NEW s \in PSK, PutRefused(p, id, k, s)
      PROVE  LocalTypeOK' /\ Shape'
  BY <1>1, <1>5, Zenon DEF PutRefused, local, LocalTypeOK, Shape
<1>6. ASSUME NEW id \in PeerId, RemovePeer(p, id)
      PROVE  LocalTypeOK' /\ Shape'
  BY <1>1, <1>6, BeginType, ZenonT(30) DEF RemovePeer, DeleteRequest
<1>7. ASSUME NEW keep \in SUBSET PeerId, ResyncPeers(p, keep)
      PROVE  LocalTypeOK' /\ Shape'
  BY <1>1, <1>7, BeginType, Zenon DEF ResyncPeers, ResyncRequest
<1>8. ASSUME NEW to \in Status, SetStatus(p, to)
      PROVE  LocalTypeOK' /\ Shape'
  BY <1>1, <1>8, BeginType, Zenon DEF SetStatus, StatusRequest
<1>. QED
  BY <1>3, <1>4, <1>5, <1>6, <1>7, <1>8, ZenonT(30) DEF HTTPRequest, Command

LEMMA BootType ==
    ASSUME TypeInv, Crash \/ BootConf \/ BringUp
    PROVE  LocalTypeOK' /\ Shape' /\ WorldTypeOK'
<1>1. LocalTypeOK /\ Shape /\ WorldTypeOK /\ StoreTypeOK
  BY Zenon DEF TypeInv, TypeOK, WorldTypeOK
<1>2. CASE Crash
  <2>1. LocalTypeOK'
    BY <1>2, Zenon DEF Crash, LocalTypeOK, Label
  <2>2. Shape'
    BY <1>2, Zenon DEF Crash, Shape, ApplyLabel
  <2>. QED
    BY <1>1, <1>2, <2>1, <2>2, Zenon DEF Crash, WorldTypeOK, Status
<1>3. CASE BootConf \/ BringUp
  <2>1. LocalTypeOK' /\ Shape'
    BY <1>1, <1>3, Zenon DEF BootConf, BringUp, local, LocalTypeOK, Shape
  <2>2. CASE BootConf
    <3>1. Torn \in ConfFile /\ Rendered(ListPeers(peers)) \in ConfFile
      BY <1>1, ListPeersType, Zenon DEF ConfFile, Torn, Rendered
    <3>. QED
      BY <1>1, <2>1, <2>2, <3>1, Zenon DEF BootConf, WorldTypeOK
  <2>3. CASE BringUp
    BY <1>1, <2>1, <2>3, Zenon DEF BringUp, WorldTypeOK, ConfFile
  <2>. QED
    BY <1>3, <2>2, <2>3, Zenon
<1>. QED
  BY <1>2, <1>3, Zenon

LEMMA TypeInvInductive ==
    ASSUME TypeInv, StoreInv, [Next]_vars
    PROVE  TypeInv' /\ StoreInv'
<1>1. StoreInv'
  BY StepOfStore, StoreInvInductive, Zenon
<1>2. LocalTypeOK' /\ Shape' /\ WorldTypeOK'
  <2>1. CASE UNCHANGED vars
    BY <2>1, Zenon DEF vars, local, TypeInv, TypeOK, LocalTypeOK, Shape, WorldTypeOK
  <2>. QED
    BY <2>1, StepLocalType, StepWorldType, RequestType, BootType, ZenonT(30) DEF Next, Proc
<1>. QED
  BY <1>1, <1>2, Zenon DEF TypeInv, TypeOK, WorldTypeOK, StoreInv

-----------------------------------------------------------------------------
(* The device gets what some handler read from the table: every read is    *)
(* exclusive because the table is, and stays so when the table moves on.   *)

ReadsExclusive ==
    /\ Exclusive(conf.rows)
    /\ \A p \in Proc : Exclusive(snap[p])

(* What a handler that has run alone so far has achieved at each step of   *)
(* Apply.                                                                  *)
SoloProgress ==
    \A p \in Proc : solo[p] =>
        /\ ~Idle(p)
        /\ phase = "up"
        /\ \A q \in Proc \ {p} : Idle(q)
        /\ pc[p] \in {"confTruncate", "confWrite", "sync"} => snap[p] = ListPeers(peers)
        /\ pc[p] = "confWrite" => conf = Empty
        /\ pc[p] \in {"list", "sync"} => conf = Rendered(ListPeers(peers))

BootProgress ==
    /\ phase # "up" => \A p \in Proc : Idle(p)
    /\ phase = "booting" => conf = Rendered(ListPeers(peers))

LEMMA TableExclusive ==
    ASSUME StoreInv
    PROVE  Exclusive(ListPeers(peers))
<1>. SUFFICES ASSUME NEW i \in Registered(peers), NEW j \in Registered(peers),
                     peers[i].ip = peers[j].ip \/ peers[i].key = peers[j].key
              PROVE  peers[i] = peers[j]
  BY DEF Exclusive, ListPeers
<1>1. i = j
  BY Zenon DEF StoreInv, AddressesExclusive, KeysExclusive, Registered
<1>. QED
  BY <1>1, Zenon

LEMMA NothingExclusive == Exclusive({})
BY Zenon DEF Exclusive

LEMMA SubsetExclusive ==
    ASSUME NEW S, NEW T, T \subseteq S, Exclusive(S)
    PROVE  Exclusive(T)
BY Zenon DEF Exclusive

DeviceInv == DeviceSane /\ ReadsExclusive

LEMMA DeviceInvInitial == Init => DeviceInv
<1>. SUFFICES ASSUME Init
              PROVE  DeviceInv
  BY Zenon
<1>1. live = {} /\ conf.rows = {} /\ \A p \in Proc : snap[p] = {}
  BY Zenon DEF Init, Empty
<1>. QED
  BY <1>1, NothingExclusive, Zenon DEF DeviceInv, DeviceSane, ReadsExclusive

LEMMA DeviceInvStep ==
    ASSUME TypeInv, StoreInv, DeviceInv, NEW p \in Proc, Step(p)
    PROVE  DeviceInv'
<1>1. /\ Exclusive(live) /\ \A row \in live : Parses(row)
      /\ Exclusive(conf.rows)
      /\ \A q \in Proc : Exclusive(snap[q])
      /\ snap \in [Proc -> SUBSET Row]
  BY Zenon DEF DeviceInv, DeviceSane, ReadsExclusive, TypeInv, TypeOK, LocalTypeOK
<1>2. /\ Empty.rows = {}
      /\ Torn.rows = {}
      /\ \A S : Rendered(S).rows = S
  BY Zenon DEF Empty, Torn, Rendered
<1>3. \A r : Finish(p, r) => \A q \in Proc : snap'[q] \in {snap[q], {}}
  BY <1>1, Zenon DEF Finish
<1>4. \/ \A q \in Proc : snap'[q] \in {snap[q], {}}
      \/ \A q \in Proc : snap'[q] \in {snap[q], ListPeers(peers)}
  BY <1>1, <1>3, ZenonT(30)
     DEF Step, Upsert, Delete, Apply, ConfList, SyncList, List, ConfTruncate, ConfWrite,
         SyncPeers, Applied, ResyncList, ResyncLoop, SetBridge, Mirror, Fail, Goto
<1>5. \A q \in Proc : Exclusive(snap'[q])
  BY <1>1, <1>4, TableExclusive, NothingExclusive, ZenonT(30)
<1>6. conf' \in {conf, Empty, Torn, Rendered(snap[p])}
  BY Zenon DEF Step, Upsert, Delete, Apply, ConfList, SyncList, List, ConfTruncate, ConfWrite,
         SyncPeers, ResyncList, ResyncLoop, SetBridge, Mirror, Fail, World
<1>7. Exclusive(conf'.rows)
  BY <1>1, <1>2, <1>6, NothingExclusive, ZenonT(30)
<1>8. live' = live \/ (live' \subseteq snap[p] /\ Configurable(snap[p]))
  BY Zenon DEF Step, Upsert, Delete, Apply, ConfList, SyncList, List, ConfTruncate, ConfWrite,
         SyncPeers, ResyncList, ResyncLoop, SetBridge, Mirror, Fail, World
<1>9. Exclusive(live') /\ \A row \in live' : Parses(row)
  BY <1>1, <1>8, SubsetExclusive, Zenon DEF Configurable
<1>. QED
  BY <1>5, <1>7, <1>9, Zenon DEF DeviceInv, DeviceSane, ReadsExclusive, Exclusive, Parses

LEMMA DeviceInvInductive ==
    ASSUME TypeInv, StoreInv, DeviceInv, [Next]_vars
    PROVE  DeviceInv'
<1>1. /\ Exclusive(live) /\ \A row \in live : Parses(row)
      /\ Exclusive(conf.rows)
      /\ \A q \in Proc : Exclusive(snap[q])
  BY Zenon DEF DeviceInv, DeviceSane, ReadsExclusive
<1>2. SUFFICES /\ Exclusive(live') /\ \A row \in live' : Parses(row)
               /\ Exclusive(conf'.rows)
               /\ \A q \in Proc : Exclusive(snap'[q])
  BY Zenon DEF DeviceInv, DeviceSane, ReadsExclusive, Exclusive, Parses
<1>3. CASE \E p \in Proc : Step(p)
  BY <1>3, DeviceInvStep, Zenon DEF DeviceInv, DeviceSane, ReadsExclusive, Exclusive, Parses
<1>4. CASE \E p \in Proc : HTTPRequest(p) \/ Command(p)
  <2>1. UNCHANGED <<live, conf, snap>>
    BY <1>4 DEF HTTPRequest, Command, PutPeer, PutRefused, RemovePeer, ResyncPeers,
                SetStatus, Begin, World, local
  <2>. QED
    BY <1>1, <2>1, ZenonT(30)
<1>5. CASE Crash
  BY <1>1, <1>5, NothingExclusive, Zenon DEF Crash
<1>6. CASE BootConf
  <2>1. Exclusive(conf'.rows)
    <3>1. conf' \in {conf, Torn, Rendered(ListPeers(peers))}
      BY <1>6, Zenon DEF BootConf
    <3>. QED
      BY <1>1, <3>1, TableExclusive, NothingExclusive DEF Rendered, Torn
  <2>2. UNCHANGED <<live, snap>>
    BY <1>6, Zenon DEF BootConf, local
  <2>. QED
    BY <1>1, <2>1, <2>2, Zenon
<1>7. CASE BringUp
  <2>1. UNCHANGED <<conf, snap>>
    BY <1>7, Zenon DEF BringUp, local
  <2>2. Exclusive(live') /\ \A row \in live' : Parses(row)
    BY <1>1, <1>7, NothingExclusive, Zenon DEF BringUp
  <2>. QED
    BY <1>1, <2>1, <2>2, Zenon
<1>8. CASE UNCHANGED vars
  BY <1>1, <1>8, Zenon DEF vars, local
<1>. QED
  BY <1>3, <1>4, <1>5, <1>6, <1>7, <1>8, ZenonT(30) DEF Next, Proc

(* The node's state is well typed, and the device never routes an address  *)
(* to two keys and never holds a key it could not parse.                   *)
THEOREM DeviceStaysSane == Spec => [](TypeOK /\ DeviceSane)
<1>1. Init => TypeInv /\ StoreInv /\ DeviceInv
  BY TypeInvInitial, StoreInvInitial, DeviceInvInitial, Zenon DEF Init
<1>2. TypeInv /\ StoreInv /\ DeviceInv /\ [Next]_vars
        => TypeInv' /\ StoreInv' /\ DeviceInv'
  BY TypeInvInductive, DeviceInvInductive, Zenon
<1>3. TypeInv /\ DeviceInv => TypeOK /\ DeviceSane
  BY Zenon DEF TypeInv, DeviceInv
<1>. QED
  BY <1>1, <1>2, <1>3, PTL DEF Spec

-----------------------------------------------------------------------------
(* A handler that runs alone.                                              *)

SoloInv == SoloProgress /\ BootProgress /\ SoloRequestSyncs

LEMMA SoloInvInitial == Init => SoloInv
BY ZenonT(30) DEF Init, SoloInv, SoloProgress, BootProgress, SoloRequestSyncs,
       AtRest, Idle

(* The part of SoloProgress that is about one handler.                     *)
Progress(p) ==
    /\ pc[p] \in {"confTruncate", "confWrite", "sync"} => snap[p] = ListPeers(peers)
    /\ pc[p] = "confWrite" => conf = Empty
    /\ pc[p] \in {"list", "sync"} => conf = Rendered(ListPeers(peers))

(* While a handler takes a step, no other one is alone and the node is up. *)
LEMMA StepBusy ==
    ASSUME TypeInv, SoloInv, NEW p \in Proc, Step(p)
    PROVE  /\ pc[p] # "idle"
           /\ \A q \in Proc \ {p} : ~solo[q]
           /\ \A q \in Proc \ {p} : solo'[q] = solo[q] /\ pc'[q] = pc[q]
           /\ phase = "up" /\ phase' = "up"
<1>1. pc[p] # "idle"
  BY Zenon DEF Step, Upsert, Delete, Apply, ConfList, SyncList, List, ConfTruncate, ConfWrite,
         SyncPeers, ResyncList, ResyncLoop, SetBridge, Mirror, Fail, Idle
<1>2. phase = "up"
  BY <1>1, Zenon DEF SoloInv, BootProgress, Idle
<1>3. phase' = phase
  BY Zenon DEF Step, Upsert, Delete, Apply, ConfList, SyncList, List, ConfTruncate, ConfWrite,
         SyncPeers, ResyncList, ResyncLoop, SetBridge, Mirror, Fail, World, NodeOnly
<1>4. \A q \in Proc \ {p} : ~solo[q]
  BY <1>1, Zenon DEF SoloInv, SoloProgress, Idle
<1>5. \A q \in Proc \ {p} : solo'[q] = solo[q] /\ pc'[q] = pc[q]
  BY ZenonT(30) DEF TypeInv, TypeOK, LocalTypeOK, Step, Upsert, Delete, Apply, ConfList, SyncList,
         List, ConfTruncate, ConfWrite, SyncPeers, Applied, ResyncList, ResyncLoop,
         SetBridge, Mirror, Fail, Goto, Finish
<1>. QED
  BY <1>1, <1>2, <1>3, <1>4, <1>5, Zenon

(* A step that does not answer keeps SoloInv when it makes progress.       *)
LEMMA StepOn ==
    ASSUME TypeInv, SoloInv, NEW p \in Proc, Step(p),
           pc'[p] # "idle", solo'[p] = solo[p], solo[p] => Progress(p)'
    PROVE  SoloInv'
<1>1. ~AtRest'
  BY Zenon DEF AtRest, Idle
<1>2. SoloRequestSyncs'
  BY <1>1, Zenon DEF SoloRequestSyncs
<1>3. BootProgress'
  BY StepBusy, Zenon DEF BootProgress
<1>4. SoloProgress'
  <2>. SUFFICES ASSUME NEW q \in Proc, solo'[q]
                PROVE  /\ q = p
                       /\ ~Idle(p)'
                       /\ phase' = "up"
                       /\ \A o \in Proc \ {p} : Idle(o)'
                       /\ Progress(p)'
    BY Zenon DEF SoloProgress, Progress
  <2>1. q = p /\ solo[p]
    BY StepBusy, Zenon
  <2>2. \A o \in Proc \ {p} : Idle(o)
    BY <2>1, Zenon DEF SoloInv, SoloProgress
  <2>. QED
    BY <2>1, <2>2, StepBusy, Zenon DEF Idle
<1>. QED
  BY <1>2, <1>3, <1>4, Zenon DEF SoloInv

(* A step that answers keeps SoloInv when a success is what it claims.     *)
LEMMA StepDone ==
    ASSUME TypeInv, SoloInv, NEW p \in Proc, NEW r, Step(p), Finish(p, r),
           solo[p] /\ r = "ok" /\ req[p].op \in {"put", "delete", "boot"} => Synced'
    PROVE  SoloInv'
<1>1. last' = "none" \/ (solo[p] /\ r = "ok" /\ last' = req[p].op)
  BY Zenon DEF Finish
<1>2. SoloRequestSyncs'
  BY <1>1, Zenon DEF SoloRequestSyncs
<1>4. BootProgress'
  BY StepBusy, Zenon DEF BootProgress
<1>5. \A q \in Proc : ~solo'[q]
  BY StepBusy, ZenonT(30) DEF Finish, TypeInv, TypeOK, LocalTypeOK
<1>6. SoloProgress'
  BY <1>5, Zenon DEF SoloProgress
<1>. QED
  BY <1>2, <1>4, <1>6, ZenonT(30) DEF SoloInv

(* A step of Apply that goes on keeps SoloInv when it leaves the table     *)
(* alone and, if its handler is alone, brings the list and the file where  *)
(* the next step expects them.                                             *)
LEMMA ApplyOn ==
    ASSUME TypeInv, SoloInv, NEW p \in Proc, Step(p),
           pc[p] \in ApplyLabel,
           NEW l \in ApplyLabel \cup {"loop"}, Goto(p, l), UNCHANGED peers,
           solo[p] /\ l \in {"confTruncate", "confWrite", "sync"} => snap'[p] = ListPeers(peers),
           solo[p] /\ l = "confWrite" => conf' = Empty,
           solo[p] /\ l \in {"list", "sync"} => conf' = Rendered(ListPeers(peers))
    PROVE  SoloInv'
<1>1. pc'[p] = l /\ solo'[p] = solo[p] /\ req'[p] = req[p]
  BY Zenon DEF Goto, TypeInv, TypeOK, LocalTypeOK
<1>2. pc'[p] # "idle"
  BY <1>1, Zenon DEF ApplyLabel
<1>3. ListPeers(peers)' = ListPeers(peers)
  BY Zenon DEF ListPeers, Registered
<1>5. Rendered(ListPeers(peers))' = Rendered(ListPeers(peers)) /\ Empty' = Empty
  BY <1>3, Zenon DEF Rendered, Empty
<1>6. solo[p] => Progress(p)'
  BY <1>1, <1>3, <1>5, ZenonT(30) DEF Progress
<1>. QED
  BY <1>1, <1>2, <1>6, StepOn, Zenon

LEMMA SoloInvStep ==
    ASSUME TypeInv, SoloInv, NEW p \in Proc, Step(p)
    PROVE  SoloInv'
<1>. USE DEF ApplyLabel
<1>1. /\ LocalTypeOK /\ Shape
      /\ solo[p] => Progress(p)
  BY Zenon DEF TypeInv, TypeOK, SoloInv, SoloProgress, Progress
<1>2. \A l : Goto(p, l) =>
         /\ pc'[p] = l
         /\ UNCHANGED <<req, todo, missing, solo>>
  BY <1>1, Zenon DEF Goto, LocalTypeOK
<1>3. CASE Upsert(p)
  <2>1. req[p].op = "put"
    BY <1>1, <1>3, ZenonT(30) DEF Upsert, Shape, PutRequest
  <2>2. CASE Goto(p, "confList")
    BY <1>2, <2>1, <2>2, StepOn DEF Progress
  <2>3. CASE Finish(p, "error") \/ Finish(p, "exhausted")
    BY <2>3, StepDone, ZenonT(30)
  <2>. QED
    BY <1>3, <2>2, <2>3, Zenon DEF Upsert
<1>4. CASE Delete(p)
  <2>1. req[p].op = "delete"
    BY <1>1, <1>4, Zenon DEF Delete, Shape, DeleteRequest
  <2>. QED
    BY <1>2, <1>4, <2>1, StepOn DEF Delete, Progress
<1>5. CASE ConfList(p)
  <2>1. snap'[p] = ListPeers(peers) /\ UNCHANGED peers
    BY <1>1, <1>5, Zenon DEF ConfList, List, LocalTypeOK, World
  <2>2. pc[p] = "confList" /\ Goto(p, "confTruncate")
    BY <1>5, Zenon DEF ConfList, List
  <2>. QED
    BY <2>1, <2>2, ApplyOn, Zenon
<1>6. CASE ConfTruncate(p)
  <2>1. pc[p] = "confTruncate" /\ Goto(p, "confWrite") /\ UNCHANGED <<peers, snap>> /\ conf' = Empty
    BY <1>6, Zenon DEF ConfTruncate
  <2>2. solo[p] => snap'[p] = ListPeers(peers)
    BY <1>1, <2>1, Zenon DEF Progress
  <2>. QED
    BY <2>1, <2>2, ApplyOn, Zenon
<1>7. CASE ConfWrite(p)
  <2>1. pc[p] = "confWrite" /\ Goto(p, "list") /\ UNCHANGED peers
    BY <1>7, Zenon DEF ConfWrite
  <2>2. solo[p] => snap[p] = ListPeers(peers) /\ conf = Empty
    BY <1>1, <2>1, Zenon DEF Progress
  <2>3. solo[p] => conf' = Rendered(ListPeers(peers))
    BY <1>7, <2>2, Zenon DEF ConfWrite
  <2>. QED
    BY <2>1, <2>3, ApplyOn, Zenon
<1>8. CASE SyncList(p)
  <2>1. snap'[p] = ListPeers(peers) /\ UNCHANGED <<peers, conf>>
    BY <1>1, <1>8, Zenon DEF SyncList, List, LocalTypeOK, World
  <2>2. pc[p] = "list" /\ Goto(p, "sync")
    BY <1>8, Zenon DEF SyncList, List
  <2>3. solo[p] => conf' = Rendered(ListPeers(peers))
    BY <1>1, <2>1, <2>2, Zenon DEF Progress
  <2>. QED
    BY <2>1, <2>2, <2>3, ApplyOn, ZenonT(30)
<1>9. CASE SyncPeers(p)
  <2>1. CASE Finish(p, "error")
    BY <2>1, StepDone, Zenon
  <2>2. CASE Goto(p, "loop")
    <3>1. pc[p] = "sync" /\ UNCHANGED peers
      BY <1>9, Zenon DEF SyncPeers
    <3>. QED
      BY <2>2, <3>1, ApplyOn, Zenon
  <2>3. CASE ifup /\ live' = snap[p] /\ req[p].op # "resync" /\ Finish(p, "ok")
    <3>1. pc[p] = "sync" /\ UNCHANGED <<peers, conf, ifup>>
      BY <1>9, Zenon DEF SyncPeers
    <3>2. solo[p] => snap[p] = ListPeers(peers) /\ conf = Rendered(ListPeers(peers))
      BY <1>1, <3>1, Zenon DEF Progress
    <3>3. ListPeers(peers)' = ListPeers(peers)
      BY <3>1, Zenon DEF ListPeers, Registered
    <3>4. solo[p] => Synced'
      BY <2>3, <3>1, <3>2, <3>3, Zenon DEF Synced, Rendered
    <3>. QED
      BY <2>3, <3>4, StepDone, Zenon
  <2>. QED
    BY <1>9, <2>1, <2>2, <2>3, Zenon DEF SyncPeers, Configurable, Applied
<1>10. CASE ResyncList(p)
  <2>1. pc'[p] = "loop" /\ UNCHANGED solo
    BY <1>1, <1>10, ZenonT(30) DEF ResyncList, LocalTypeOK
  <2>2. Progress(p)'
    BY <2>1, Zenon DEF Progress
  <2>. QED
    BY <2>1, <2>2, StepOn, ZenonT(30)
<1>11. CASE ResyncLoop(p)
  <2>1. req[p].op = "resync" /\ pc[p] = "loop"
    BY <1>1, <1>11, Zenon DEF ResyncLoop, Shape, ResyncRequest
  <2>2. CASE Finish(p, "ok")
    BY <2>1, <2>2, StepDone, ZenonT(30)
  <2>3. CASE pc' = [pc EXCEPT ![p] = "confList"] /\ UNCHANGED solo
    <3>1. pc'[p] = "confList"
      BY <1>1, <2>3, Zenon DEF LocalTypeOK
    <3>2. Progress(p)'
      BY <3>1, Zenon DEF Progress
    <3>. QED
      BY <2>3, <3>1, <3>2, StepOn, Zenon
  <2>. QED
    BY <1>11, <2>2, <2>3, ZenonT(30) DEF ResyncLoop
<1>12. CASE SetBridge(p)
  <2>1. pc'[p] = "mirror" /\ solo'[p] = solo[p]
    BY <1>2, <1>12, Zenon DEF SetBridge
  <2>2. Progress(p)'
    BY <2>1, Zenon DEF Progress
  <2>. QED
    BY <2>1, <2>2, StepOn, Zenon
<1>13. CASE Mirror(p)
  <2>1. req[p].op = "status"
    BY <1>1, <1>13, Zenon DEF Mirror, Shape, StatusRequest
  <2>. QED
    BY <1>13, <2>1, StepDone, Zenon DEF Mirror
<1>14. CASE Fail(p)
  BY <1>14, StepDone, Zenon DEF Fail
<1>. QED
  BY <1>3, <1>4, <1>5, <1>6, <1>7, <1>8, <1>9, <1>10, <1>11, <1>12, <1>13, <1>14, ZenonT(30)
     DEF Step, Apply

LEMMA SoloInvBegin ==
    ASSUME TypeInv, SoloInv, NEW p \in Proc, NEW r, NEW l, Begin(p, r, l),
           UNCHANGED World, l \in {"upsert", "delete", "resync", "bridge"}
    PROVE  SoloInv'
<1>1. pc' = [pc EXCEPT ![p] = l] /\ pc'[p] = l /\ \A q \in Proc \ {p} : pc'[q] = pc[q]
  BY Zenon DEF Begin, TypeInv, TypeOK, LocalTypeOK
<1>2. last' = "none" /\ phase' = "up"
  BY Zenon DEF Begin, World
<1>3. SoloRequestSyncs' /\ BootProgress'
  BY <1>2, Zenon DEF SoloRequestSyncs, BootProgress
<1>4. \A q \in Proc : solo'[q] => q = p /\ \A o \in Proc \ {p} : Idle(o)
  BY Zenon DEF Begin
<1>5. SoloProgress'
  BY <1>1, <1>2, <1>4, Zenon DEF SoloProgress, Idle, ApplyLabel
<1>. QED
  BY <1>3, <1>5, Zenon DEF SoloInv

LEMMA SoloInvRequest ==
    ASSUME TypeInv, SoloInv, NEW p \in Proc, HTTPRequest(p) \/ Command(p)
    PROVE  SoloInv'
<1>1. ASSUME NEW id, NEW k, NEW s, PutRefused(p, id, k, s)
      PROVE  SoloInv'
  <2>1. last' = "none" /\ UNCHANGED <<World, local>>
    BY <1>1, Zenon DEF PutRefused
  <2>2. SoloRequestSyncs'
    BY <2>1, Zenon DEF SoloRequestSyncs
  <2>. QED
    BY <2>1, <2>2, Zenon DEF SoloInv, SoloProgress, BootProgress, Idle, World, local
<1>. QED
  BY <1>1, SoloInvBegin, Zenon
     DEF HTTPRequest, Command, PutPeer, RemovePeer, ResyncPeers, SetStatus

LEMMA SoloInvBoot ==
    ASSUME TypeInv, SoloInv, Crash \/ BootConf \/ BringUp
    PROVE  SoloInv'
<1>1. CASE Crash
  BY <1>1, Zenon DEF Crash, SoloInv, SoloProgress, BootProgress, SoloRequestSyncs,
              AtRest, Idle
<1>2. CASE BootConf
  <2>1. \A q \in Proc : ~solo[q] /\ Idle(q)
    BY <1>2, Zenon DEF BootConf, SoloInv, SoloProgress, BootProgress
  <2>2. UNCHANGED <<pc, solo, peers>> /\ (phase' = "booting" => conf' = Rendered(ListPeers(peers)))
    BY <1>2, Zenon DEF BootConf, local
  <2>5. \A q \in Proc : ~solo'[q] /\ Idle(q)'
    BY <2>1, <2>2, Zenon DEF Idle
  <2>6. ListPeers(peers)' = ListPeers(peers)
    BY <2>2, Zenon DEF ListPeers, Registered
  <2>7. SoloProgress' /\ BootProgress'
    BY <2>2, <2>5, <2>6, Zenon DEF SoloProgress, BootProgress, Rendered
  <2>3. phase' # "up" \/ last' = "none"
    BY <1>2, Zenon DEF BootConf
  <2>4. SoloRequestSyncs'
    BY <2>3, Zenon DEF SoloRequestSyncs, AtRest
  <2>. QED
    BY <2>4, <2>7, Zenon DEF SoloInv
<1>3. CASE BringUp
  <2>1. /\ \A q \in Proc : ~solo[q] /\ Idle(q)
        /\ conf = Rendered(ListPeers(peers))
    BY <1>3, Zenon DEF BringUp, SoloInv, SoloProgress, BootProgress
  <2>2. UNCHANGED <<pc, solo>> /\ phase' = "up"
    BY <1>3, Zenon DEF BringUp, local
  <2>5. \A q \in Proc : ~solo'[q] /\ Idle(q)'
    BY <2>1, <2>2, Zenon DEF Idle
  <2>6. SoloProgress' /\ BootProgress'
    BY <2>2, <2>5, Zenon DEF SoloProgress, BootProgress
  <2>3. last' = "none" \/ Synced'
    BY <1>3, <2>1 DEF BringUp, Synced, Rendered
  <2>4. SoloRequestSyncs'
    BY <2>3, Zenon DEF SoloRequestSyncs
  <2>. QED
    BY <2>4, <2>6, Zenon DEF SoloInv
<1>. QED
  BY <1>1, <1>2, <1>3, Zenon

LEMMA SoloInvariant == Spec => [](TypeInv /\ StoreInv /\ SoloInv)
<1>1. Init => TypeInv /\ StoreInv /\ SoloInv
  BY TypeInvInitial, StoreInvInitial, SoloInvInitial, Zenon DEF Init
<1>2. TypeInv /\ StoreInv /\ SoloInv /\ [Next]_vars => TypeInv' /\ StoreInv' /\ SoloInv'
  <2>. SUFFICES ASSUME TypeInv, StoreInv, SoloInv, [Next]_vars
                PROVE  SoloInv'
    BY TypeInvInductive, Zenon
  <2>1. CASE UNCHANGED vars
    BY <2>1, Zenon DEF vars, local, SoloInv, SoloProgress, BootProgress, SoloRequestSyncs,
                AtRest, Idle, Synced
  <2>. QED
    BY <2>1, SoloInvStep, SoloInvRequest, SoloInvBoot, Zenon DEF Next, Proc
<1>. QED
  BY <1>1, <1>2, PTL DEF Spec

(* A request that was answered with success and that no other handler      *)
(* overlapped leaves table, config file and device with the same peers.    *)
(* The invariant behind it says what such a handler has achieved at every  *)
(* step.                                                                   *)
THEOREM SoloHandlersSync == Spec => []SoloRequestSyncs
<1>1. SoloInv => SoloRequestSyncs
  BY Zenon DEF SoloInv
<1>. QED
  BY <1>1, SoloInvariant, PTL

-----------------------------------------------------------------------------
(* Why handlers end                                                        *)

(* The steps that a handler at label l has before it, up to its answer or  *)
(* the next round of the resync loop.                                      *)
Rank(l) ==
    CASE l \in {"upsert", "delete"} -> 7
      [] l = "confList"             -> 6
      [] l = "confTruncate"         -> 5
      [] l = "confWrite"            -> 4
      [] l = "list"                 -> 3
      [] l \in {"sync", "bridge"}   -> 2
      [] l \in {"loop", "mirror"}   -> 1
      [] OTHER                      -> 0

(* A round of the loop takes six steps: DeletePeer and the five of Apply.  *)
Work(l, ids) ==
    IF l = "resync" THEN 2 + 6 * Cardinality(PeerId) ELSE Rank(l) + 6 * Cardinality(ids)

StepsLeft(p) == Work(pc[p], todo[p])

(* The ways on from one label to another with the same ids to delete.      *)
OnPath ==
    {<<"upsert", "confList">>, <<"delete", "confList">>, <<"confList", "confTruncate">>,
     <<"confTruncate", "confWrite">>, <<"confWrite", "list">>, <<"list", "sync">>,
     <<"sync", "loop">>, <<"bridge", "mirror">>}

(* What a step of p does to p's place in the code.                         *)
Advances(p) ==
    \/ pc[p] # "idle" /\ pc'[p] = "idle" /\ todo'[p] = {}
    \/ <<pc[p], pc'[p]>> \in OnPath /\ todo'[p] = todo[p]
    \/ pc[p] = "resync" /\ pc'[p] = "loop" /\ todo'[p] \subseteq PeerId
    \/ pc[p] = "loop" /\ pc'[p] = "confList" /\ \E id \in todo[p] : todo'[p] = todo[p] \ {id}

Alone(p) == \A q \in Proc \ {p} : pc'[q] = pc[q] /\ todo'[q] = todo[q]

LEMMA GotoAdvances ==
    ASSUME LocalTypeOK, NEW p \in Proc, NEW l, Goto(p, l), <<pc[p], l>> \in OnPath
    PROVE  Advances(p) /\ Alone(p)
<1>1. pc'[p] = l /\ todo'[p] = todo[p] /\ Alone(p)
  BY Zenon DEF LocalTypeOK, Goto, Alone
<1>2. QED
  BY <1>1, Zenon DEF Advances

LEMMA FinishAdvances ==
    ASSUME LocalTypeOK, NEW p \in Proc, NEW r, Finish(p, r), pc[p] # "idle"
    PROVE  Advances(p) /\ Alone(p)
<1>1. pc'[p] = "idle" /\ todo'[p] = {} /\ Alone(p)
  BY Zenon DEF LocalTypeOK, Finish, Alone
<1>2. QED
  BY <1>1, Zenon DEF Advances

LEMMA StepAdvances ==
    ASSUME TypeInv, NEW p \in Proc, Step(p)
    PROVE  Advances(p) /\ Alone(p)
<1>1. LocalTypeOK /\ Shape
  BY Zenon DEF TypeInv, TypeOK
<1>2. CASE Upsert(p)
  <2>1. /\ pc[p] = "upsert"
        /\ Goto(p, "confList") \/ Finish(p, "error") \/ Finish(p, "exhausted")
    BY <1>2, Zenon DEF Upsert
  <2>2. <<pc[p], "confList">> \in OnPath
    BY <2>1, Zenon DEF OnPath
  <2>3. QED
    BY <1>1, <2>1, <2>2, GotoAdvances, FinishAdvances, ZenonT(30)
<1>3. CASE Delete(p)
  BY <1>1, <1>3, GotoAdvances, Zenon DEF Delete, OnPath
<1>4. CASE ConfList(p) \/ SyncList(p)
  BY <1>1, <1>4, GotoAdvances, Zenon DEF ConfList, SyncList, List, OnPath
<1>5. CASE ConfTruncate(p) \/ ConfWrite(p)
  BY <1>1, <1>5, GotoAdvances, Zenon DEF ConfTruncate, ConfWrite, OnPath
<1>6. CASE SyncPeers(p)
  <2>1. pc[p] = "sync" /\ (Goto(p, "loop") \/ \E r : Finish(p, r))
    BY <1>6, Zenon DEF SyncPeers, Applied
  <2>2. <<pc[p], "loop">> \in OnPath
    BY <2>1, Zenon DEF OnPath
  <2>3. QED
    BY <1>1, <2>1, <2>2, GotoAdvances, FinishAdvances, Zenon
<1>7. CASE ResyncList(p)
  <2>1. /\ pc[p] = "resync" /\ pc'[p] = "loop" /\ Alone(p)
        /\ todo'[p] = Registered(peers) \ req[p].keep
    BY <1>1, <1>7, Zenon DEF ResyncList, LocalTypeOK, Alone
  <2>2. QED
    BY <2>1, Zenon DEF Advances, Registered
<1>8. CASE ResyncLoop(p)
  <2>1. CASE Finish(p, "ok")
    BY <1>1, <1>8, <2>1, FinishAdvances, Zenon DEF ResyncLoop
  <2>2. ASSUME NEW id \in todo[p], todo' = [todo EXCEPT ![p] = @ \ {id}],
               pc' = [pc EXCEPT ![p] = "confList"]
        PROVE  Advances(p) /\ Alone(p)
    <3>1. pc'[p] = "confList" /\ todo'[p] = todo[p] \ {id} /\ Alone(p)
      BY <1>1, <2>2, Zenon DEF LocalTypeOK, Alone
    <3>2. QED
      BY <1>8, <3>1, Zenon DEF ResyncLoop, Advances
  <2>3. QED
    BY <1>8, <2>1, <2>2, Zenon DEF ResyncLoop
<1>9. CASE SetBridge(p)
  BY <1>1, <1>9, GotoAdvances, Zenon DEF SetBridge, OnPath
<1>10. CASE Mirror(p) \/ Fail(p)
  BY <1>1, <1>10, FinishAdvances, Zenon DEF Mirror, Fail, Idle
<1>11. QED
  BY <1>2, <1>3, <1>4, <1>5, <1>6, <1>7, <1>8, <1>9, <1>10, ZenonT(30) DEF Step, Apply

LEMMA StepKeepsRequest ==
    ASSUME LocalTypeOK, NEW p \in Proc, Step(p)
    PROVE  /\ \A q \in Proc \ {p} : req'[q] = req[q]
           /\ req'[p] = req[p] \/ (pc'[p] = "idle" /\ req'[p] = None)
<1>1. CASE \E r : Finish(p, r)
  BY <1>1, Zenon DEF Finish, LocalTypeOK
<1>2. CASE UNCHANGED req
  BY <1>2, Zenon
<1>3. (\E r : Finish(p, r)) \/ UNCHANGED req
  <2>1. CASE Upsert(p)
    BY <2>1, Zenon DEF Upsert, Goto
  <2>2. CASE Delete(p)
    BY <2>2, Zenon DEF Delete, Goto
  <2>3. CASE Apply(p)
    BY <2>3, Zenon DEF Apply, ConfList, SyncList, List, ConfTruncate, ConfWrite, SyncPeers,
                       Applied, Goto
  <2>4. CASE ResyncList(p) \/ ResyncLoop(p)
    BY <2>4, Zenon DEF ResyncList, ResyncLoop
  <2>5. CASE SetBridge(p) \/ Mirror(p) \/ Fail(p)
    BY <2>5, Zenon DEF SetBridge, Mirror, Fail, Goto
  <2>6. QED
    BY <2>1, <2>2, <2>3, <2>4, <2>5, Zenon DEF Step
<1>4. QED
  BY <1>1, <1>2, <1>3, Zenon

(* Any way on leads to less work.                                          *)
LEMMA WorkShrinks ==
    ASSUME IsFiniteSet(PeerId), TypeInv, TypeInv', NEW p \in Proc, Advances(p)
    PROVE  StepsLeft(p)' < StepsLeft(p)
<1>. DEFINE n == Cardinality(PeerId)
            c == Cardinality(todo[p])
            d == Cardinality(todo'[p])
<1>1. /\ pc[p] \in Label /\ pc'[p] \in Label
      /\ todo[p] \in SUBSET PeerId /\ todo'[p] \in SUBSET PeerId
  BY Zenon DEF TypeInv, TypeOK, LocalTypeOK
<1>2. n \in Nat /\ IsFiniteSet(todo[p]) /\ IsFiniteSet(todo'[p])
  BY <1>1, FS_CardinalityType, FS_Subset, ZenonT(30)
<1>3. c \in Nat /\ d \in Nat /\ d <= n
  BY <1>1, <1>2, FS_CardinalityType, FS_Subset, Zenon
<1>4. /\ StepsLeft(p) = IF pc[p] = "resync" THEN 2 + 6 * n ELSE Rank(pc[p]) + 6 * c
      /\ StepsLeft(p)' = IF pc'[p] = "resync" THEN 2 + 6 * n ELSE Rank(pc'[p]) + 6 * d
  BY Zenon DEF StepsLeft, Work
<1>. HIDE DEF n
<1>5. CASE pc[p] # "idle" /\ pc'[p] = "idle" /\ todo'[p] = {}
  <2>1. d = 0
    BY <1>5, FS_EmptySet, Zenon
  <2>. HIDE DEF c, d
  <2>2. Rank(pc'[p]) = 0
    BY <1>5, ZenonT(30) DEF Rank
  <2>3. pc[p] # "resync" => Rank(pc[p]) \in 1 .. 7
    BY <1>1, <1>5 DEF Rank, Label, ApplyLabel
  <2>4. QED
    BY <1>2, <1>3, <1>4, <1>5, <2>1, <2>2, <2>3
<1>6. CASE <<pc[p], pc'[p]>> \in OnPath /\ todo'[p] = todo[p]
  <2>1. d = c
    BY <1>6, ZenonT(30)
  <2>. HIDE DEF c, d
  <2>2. /\ pc[p] # "resync" /\ pc'[p] # "resync"
        /\ Rank(pc[p]) \in 1 .. 7 /\ Rank(pc'[p]) \in 0 .. 7
        /\ Rank(pc'[p]) < Rank(pc[p])
    BY <1>6 DEF OnPath, Rank
  <2>3. QED
    BY <1>3, <1>4, <2>1, <2>2
<1>7. CASE pc[p] = "resync" /\ pc'[p] = "loop" /\ todo'[p] \subseteq PeerId
  <2>. HIDE DEF c, d
  <2>1. Rank(pc'[p]) = 1
    BY <1>7, Zenon DEF Rank
  <2>2. QED
    BY <1>2, <1>3, <1>4, <1>7, <2>1
<1>8. CASE /\ pc[p] = "loop" /\ pc'[p] = "confList"
           /\ \E id \in todo[p] : todo'[p] = todo[p] \ {id}
  <2>1. d = c - 1
    BY <1>2, <1>8, FS_RemoveElement, ZenonT(30)
  <2>. HIDE DEF c, d
  <2>2. Rank(pc[p]) = 1 /\ Rank(pc'[p]) = 6
    BY <1>8, Zenon DEF Rank
  <2>3. QED
    BY <1>3, <1>4, <1>8, <2>1, <2>2
<1>9. QED
  BY <1>5, <1>6, <1>7, <1>8, Zenon DEF Advances

(* Nothing but its own steps and a crash moves a handler that is at work,  *)
(* and only a start of its own gives an idle one a request.                *)
LEMMA OthersLeaveAlone ==
    ASSUME TypeInv, [Next]_vars, NEW p \in Proc, ~Idle(p)
    PROVE  \/ Advances(p)
           \/ pc'[p] = pc[p] /\ req'[p] = req[p] /\ todo'[p] = todo[p]
<1>1. LocalTypeOK
  BY Zenon DEF TypeInv, TypeOK
<1>2. ASSUME NEW q \in Proc, Step(q)
      PROVE  \/ Advances(p)
             \/ pc'[p] = pc[p] /\ req'[p] = req[p] /\ todo'[p] = todo[p]
  <2>1. q # p => req'[p] = req[p]
    BY <1>1, <1>2, StepKeepsRequest, Zenon
  <2>2. QED
    BY <1>2, <2>1, StepAdvances, ZenonT(30) DEF Alone
<1>3. ASSUME NEW q \in Proc, NEW r, NEW l, Begin(q, r, l)
      PROVE  pc'[p] = pc[p] /\ req'[p] = req[p] /\ todo'[p] = todo[p]
  BY <1>1, <1>3, Zenon DEF Begin, Idle, LocalTypeOK
<1>4. ASSUME NEW q \in Worker, HTTPRequest(q)
      PROVE  pc'[p] = pc[p] /\ req'[p] = req[p] /\ todo'[p] = todo[p]
  <2>1. q \in Proc
    BY Zenon DEF Proc
  <2>2. QED
    BY <1>3, <1>4, <2>1, Zenon DEF HTTPRequest, PutPeer, PutRefused, RemovePeer, local
<1>5. ASSUME NEW q \in Session, Command(q)
      PROVE  pc'[p] = pc[p] /\ req'[p] = req[p] /\ todo'[p] = todo[p]
  <2>1. q \in Proc
    BY Zenon DEF Proc
  <2>2. QED
    BY <1>3, <1>5, <2>1, Zenon DEF Command, ResyncPeers, SetStatus
<1>6. CASE Crash
  BY <1>6, Zenon DEF Crash, Advances, Idle
<1>7. CASE BootConf \/ BringUp \/ UNCHANGED vars
  BY <1>7, Zenon DEF BootConf, BringUp, vars, local
<1>8. QED
  BY <1>2, <1>4, <1>5, <1>6, <1>7, ZenonT(30) DEF Next

LEMMA WorkBounded ==
    ASSUME IsFiniteSet(PeerId), NEW l \in Label, NEW ids \in SUBSET PeerId
    PROVE  Work(l, ids) \in 0 .. 7 + 6 * Cardinality(PeerId)
<1>. DEFINE n == Cardinality(PeerId)
            c == Cardinality(ids)
<1>1. n \in Nat /\ c \in Nat /\ c <= n
  BY FS_CardinalityType, FS_Subset, Zenon
<1>2. Work(l, ids) = IF l = "resync" THEN 2 + 6 * n ELSE Rank(l) + 6 * c
  BY Zenon DEF Work
<1>. HIDE DEF n, c
<1>3. Rank(l) \in 0 .. 7
  BY DEF Rank, Label, ApplyLabel
<1>4. Work(l, ids) \in 0 .. 7 + 6 * n
  BY <1>1, <1>2, <1>3
<1>5. QED
  BY <1>4, Zenon DEF n

LEMMA StepsLeftBounded ==
    ASSUME IsFiniteSet(PeerId), TypeInv, NEW p \in Proc
    PROVE  StepsLeft(p) \in 0 .. 7 + 6 * Cardinality(PeerId)
<1>1. pc[p] \in Label /\ todo[p] \in SUBSET PeerId
  BY Zenon DEF TypeInv, TypeOK, LocalTypeOK
<1>2. QED
  BY <1>1, WorkBounded, Zenon DEF StepsLeft

(* A handler's own step brings it nearer to its answer, and no step of     *)
(* another takes it back.                                                  *)
MakesHeadway ==
    \A p \in Proc :
        /\ Step(p) => StepsLeft(p)' < StepsLeft(p)
        /\ ~Idle(p) => StepsLeft(p)' <= StepsLeft(p)

Bounded == \A p \in Proc : StepsLeft(p) \in 0 .. 7 + 6 * Cardinality(PeerId)

LEMMA StepsMakeHeadway ==
    ASSUME IsFiniteSet(PeerId), TypeInv, TypeInv', [Next]_vars
    PROVE  MakesHeadway
<1>. SUFFICES ASSUME NEW p \in Proc
              PROVE  MakesHeadway!(p)
  BY Zenon DEF MakesHeadway
<1>1. Step(p) => StepsLeft(p)' < StepsLeft(p)
  BY StepAdvances, WorkShrinks, Zenon
<1>2. ASSUME ~Idle(p)
      PROVE  StepsLeft(p)' <= StepsLeft(p)
  <2>1. StepsLeft(p) \in Int /\ StepsLeft(p)' \in Int
    <3>1. Cardinality(PeerId) \in Nat
      BY FS_CardinalityType, Zenon
    <3>2. /\ StepsLeft(p) \in 0 .. 7 + 6 * Cardinality(PeerId)
          /\ StepsLeft(p)' \in 0 .. 7 + 6 * Cardinality(PeerId)
      <4>1. pc'[p] \in Label /\ todo'[p] \in SUBSET PeerId
        BY Zenon DEF TypeInv, TypeOK, LocalTypeOK
      <4>2. StepsLeft(p)' = Work(pc'[p], todo'[p])
        BY Zenon DEF StepsLeft, Work
      <4>3. QED
        BY <4>1, <4>2, WorkBounded, StepsLeftBounded, Zenon
    <3>3. QED
      BY <3>1, <3>2
  <2>2. CASE Advances(p)
    BY <2>1, <2>2, WorkShrinks
  <2>3. CASE pc'[p] = pc[p] /\ todo'[p] = todo[p]
    <3>1. StepsLeft(p)' = StepsLeft(p)
      BY <2>3, Zenon DEF StepsLeft, Work
    <3>2. QED
      BY <2>1, <3>1
  <2>4. QED
    BY <1>2, <2>2, <2>3, OthersLeaveAlone, Zenon
<1>3. QED
  BY <1>1, <1>2, Zenon

(* A handler that has begun ends: from the start it has at most seven      *)
(* steps to take and six more for every id the table may hold, each of its *)
(* own steps leaves fewer, and nothing that other handlers do adds to      *)
(* them, the rows that PUTs create while ResyncPeers runs included.  This  *)
(* is why every request is answered, given that the goroutine runs.        *)
THEOREM HandlersMakeHeadway ==
    ASSUME IsFiniteSet(PeerId)
    PROVE  Spec => []Bounded /\ [][MakesHeadway]_vars
<1>1. Init => TypeInv /\ StoreInv
  BY TypeInvInitial, StoreInvInitial, Zenon DEF Init
<1>2. TypeInv /\ StoreInv /\ [Next]_vars => TypeInv' /\ StoreInv'
  BY TypeInvInductive, Zenon
<1>3. TypeInv => Bounded
  BY StepsLeftBounded, Zenon DEF Bounded
<1>4. TypeInv /\ TypeInv' /\ [Next]_vars => [MakesHeadway]_vars
  BY StepsMakeHeadway, Zenon
<1>5. QED
  BY <1>1, <1>2, <1>3, <1>4, PTL DEF Spec

(* While the node drains, no handler takes a PUT on, and the PUTs that     *)
(* passed the test of handlePutPeer before only get nearer to their end.   *)
OnlyDrains ==
    status = "draining" =>
        \A p \in Proc : Provisions(p)' => Provisions(p) /\ StepsLeft(p)' <= StepsLeft(p)

LEMMA NoPutBegins ==
    ASSUME TypeInv, [Next]_vars, status = "draining", NEW p \in Proc, Provisions(p)'
    PROVE  Provisions(p)
<1>1. /\ LocalTypeOK
      /\ pc'[p] # "idle" /\ req'[p].op = "put"
  BY Zenon DEF TypeInv, TypeOK, Provisions
<1>2. ASSUME NEW q \in Proc, Step(q)
      PROVE  Provisions(p)
  <2>1. req'[p] = req[p]
    BY <1>1, <1>2, StepKeepsRequest, ZenonT(30)
  <2>2. pc[p] # "idle"
    BY <1>1, <1>2, StepAdvances, Zenon DEF Advances, Alone, OnPath
  <2>3. QED
    BY <1>1, <2>1, <2>2, Zenon DEF Provisions
<1>3. ASSUME NEW q \in Proc, NEW r, NEW l, Begin(q, r, l), r.op # "put"
      PROVE  Provisions(p)
  <2>1. q # p
    BY <1>1, <1>3, Zenon DEF Begin, LocalTypeOK
  <2>2. QED
    BY <1>1, <1>3, <2>1, ZenonT(30) DEF Begin, LocalTypeOK, Provisions
<1>4. CASE UNCHANGED <<pc, req>>
  BY <1>1, <1>4, Zenon DEF Provisions
<1>5. ASSUME NEW q \in Worker, HTTPRequest(q)
      PROVE  Provisions(p)
  <2>1. ASSUME NEW id, RemovePeer(q, id)
        PROVE  Provisions(p)
    <3>1. [op |-> "delete", id |-> id].op # "put"
      BY Zenon
    <3>2. QED
      BY <1>3, <2>1, <3>1, Zenon DEF RemovePeer, Proc
  <2>2. QED
    BY <1>4, <1>5, <2>1, Zenon DEF HTTPRequest, PutPeer, PutRefused, local
<1>6. ASSUME NEW q \in Session, Command(q)
      PROVE  Provisions(p)
  <2>1. ASSUME NEW keep, ResyncPeers(q, keep)
        PROVE  Provisions(p)
    <3>1. [op |-> "resync", keep |-> keep].op # "put"
      BY Zenon
    <3>2. QED
      BY <1>3, <2>1, <3>1, Zenon DEF ResyncPeers, Proc
  <2>2. ASSUME NEW to, SetStatus(q, to)
        PROVE  Provisions(p)
    <3>1. [op |-> "status", to |-> to].op # "put"
      BY Zenon
    <3>2. QED
      BY <1>3, <2>2, <3>1, Zenon DEF SetStatus, Proc
  <2>3. QED
    BY <1>6, <2>1, <2>2, Zenon DEF Command
<1>7. CASE Crash
  BY <1>1, <1>7, Zenon DEF Crash
<1>8. CASE BootConf \/ BringUp \/ UNCHANGED vars
  BY <1>4, <1>8, Zenon DEF BootConf, BringUp, vars, local
<1>9. QED
  BY <1>2, <1>5, <1>6, <1>7, <1>8, ZenonT(30) DEF Next

(* A node that drains works its PUTs off, whatever else it does, and takes *)
(* no new one on (handlePutPeer tests the status first).                   *)
THEOREM DrainingOnlyDrains ==
    ASSUME IsFiniteSet(PeerId)
    PROVE  Spec => [][OnlyDrains]_vars
<1>1. Init => TypeInv /\ StoreInv
  BY TypeInvInitial, StoreInvInitial, Zenon DEF Init
<1>2. TypeInv /\ StoreInv /\ [Next]_vars => TypeInv' /\ StoreInv'
  BY TypeInvInductive, Zenon
<1>3. TypeInv /\ TypeInv' /\ [Next]_vars => [OnlyDrains]_vars
  BY NoPutBegins, StepsMakeHeadway, Zenon DEF OnlyDrains, MakesHeadway, Provisions, Idle
<1>4. QED
  BY <1>1, <1>2, <1>3, PTL DEF Spec

-----------------------------------------------------------------------------
(* What a resync deletes                                                   *)

(* A resync never has an id of the gateway's list on its own list, and an  *)
(* idle handler has no list.                                               *)
KeepInv ==
    \A p \in Proc :
        /\ Idle(p) => todo[p] = {}
        /\ req[p] \in ResyncRequest => todo[p] \cap req[p].keep = {}

LEMMA OnlyListLeavesResync ==
    ASSUME LocalTypeOK, NEW p \in Proc, Step(p), ~ResyncList(p), pc[p] = "resync"
    PROVE  pc'[p] = "idle" /\ todo'[p] = {}
<1>1. Fail(p)
  BY Zenon DEF Step, Upsert, Delete, Apply, ConfList, SyncList, List, ConfTruncate, ConfWrite,
               SyncPeers, ResyncLoop, SetBridge, Mirror
<1>2. QED
  BY <1>1, ZenonT(30) DEF Fail, Finish, LocalTypeOK

LEMMA KeepInvInductive ==
    ASSUME TypeInv, KeepInv, [Next]_vars
    PROVE  KeepInv'
<1>. SUFFICES ASSUME NEW p \in Proc
              PROVE  KeepInv!(p)'
  BY Zenon DEF KeepInv
<1>1. LocalTypeOK /\ KeepInv!(p)
  BY Zenon DEF TypeInv, TypeOK, KeepInv
<1>2. CASE pc'[p] = pc[p] /\ req'[p] = req[p] /\ todo'[p] = todo[p]
  BY <1>1, <1>2, Zenon DEF Idle
<1>3. CASE todo'[p] = {}
  BY <1>3, Zenon
<1>4. ASSUME NEW q \in Proc, Step(q)
      PROVE  KeepInv!(p)'
  <2>1. CASE q # p
    BY <1>1, <1>2, <1>4, <2>1, StepKeepsRequest, StepAdvances, ZenonT(30) DEF Alone
  <2>2. CASE q = p /\ ResyncList(p)
    <3>1. /\ pc'[p] = "loop" /\ req'[p] = req[p]
          /\ todo'[p] = Registered(peers) \ req[p].keep
      BY <1>1, <2>2, Zenon DEF ResyncList, LocalTypeOK
    <3>2. QED
      BY <3>1, Zenon DEF Idle
  <2>3. CASE q = p /\ ~ResyncList(p)
    <3>1. pc[p] # "resync" \/ (pc'[p] = "idle" /\ todo'[p] = {})
      BY <1>1, <1>4, <2>3, OnlyListLeavesResync, ZenonT(30)
    <3>2. /\ todo'[p] \subseteq todo[p]
          /\ pc'[p] = "idle" => todo'[p] = {}
      BY <1>4, <2>3, <3>1, StepAdvances, ZenonT(30) DEF Advances, OnPath
    <3>3. req'[p] = req[p] \/ (pc'[p] = "idle" /\ req'[p] = None)
      BY <1>1, <1>4, <2>3, StepKeepsRequest, Zenon
    <3>4. QED
      BY <1>1, <3>2, <3>3, Zenon DEF Idle
  <2>4. QED
    BY <2>1, <2>2, <2>3, Zenon
<1>5. ASSUME NEW q \in Proc, NEW r, NEW l, Begin(q, r, l)
      PROVE  KeepInv!(p)'
  <2>1. CASE q # p
    BY <1>1, <1>2, <1>5, <2>1, ZenonT(30) DEF Begin, LocalTypeOK
  <2>2. CASE q = p
    BY <1>1, <1>3, <1>5, <2>2, ZenonT(30) DEF Begin
  <2>3. QED
    BY <2>1, <2>2, Zenon
<1>6. ASSUME NEW q \in Worker, HTTPRequest(q)
      PROVE  KeepInv!(p)'
  <2>1. q \in Proc
    BY Zenon DEF Proc
  <2>2. QED
    BY <1>2, <1>5, <1>6, <2>1, ZenonT(30) DEF HTTPRequest, PutPeer, PutRefused, RemovePeer, local
<1>7. ASSUME NEW q \in Session, Command(q)
      PROVE  KeepInv!(p)'
  <2>1. q \in Proc
    BY Zenon DEF Proc
  <2>2. QED
    BY <1>5, <1>7, <2>1, Zenon DEF Command, ResyncPeers, SetStatus
<1>8. CASE Crash
  BY <1>3, <1>8, Zenon DEF Crash
<1>9. CASE BootConf \/ BringUp \/ UNCHANGED vars
  BY <1>2, <1>9, ZenonT(30) DEF BootConf, BringUp, vars, local
<1>10. QED
  BY <1>4, <1>6, <1>7, <1>8, <1>9, ZenonT(30) DEF Next

(* A handler that resyncs leaves every listed row as it finds it, at every *)
(* one of its steps.                                                       *)
SparesListed ==
    \A p \in Proc :
        Step(p) /\ req[p] \in ResyncRequest =>
            \A id \in req[p].keep : peers'[id] = peers[id]

LEMMA ResyncSpares ==
    ASSUME TypeInv, KeepInv, NEW p \in Proc, Step(p), req[p] \in ResyncRequest,
           NEW id \in req[p].keep
    PROVE  peers'[id] = peers[id]
<1>1. Shape /\ StoreTypeOK /\ id \in PeerId /\ todo[p] \subseteq PeerId
  BY Zenon DEF TypeInv, TypeOK, LocalTypeOK, ResyncRequest
<1>2. req[p] \notin PutRequest /\ req[p] \notin DeleteRequest
  BY Zenon DEF ResyncRequest, PutRequest, DeleteRequest
<1>3. ~Upsert(p) /\ ~Delete(p)
  BY <1>1, <1>2, Zenon DEF Upsert, Delete, Shape
<1>4. CASE ResyncLoop(p)
  <2>1. CASE UNCHANGED peers
    BY <2>1, Zenon
  <2>2. ASSUME NEW other \in todo[p], DeletePeer(other)
        PROVE  peers'[id] = peers[id]
    <3>1. other # id
      BY Zenon DEF KeepInv
    <3>2. QED
      BY <1>1, <2>2, <3>1, Zenon DEF DeletePeer, StoreTypeOK
  <2>3. QED
    BY <1>4, <2>1, <2>2, Zenon DEF ResyncLoop
<1>5. CASE UNCHANGED peers
  BY <1>5, Zenon
<1>6. QED
  BY <1>3, <1>4, <1>5, ZenonT(30)
     DEF Step, Apply, ConfList, SyncList, List, ConfTruncate, ConfWrite, SyncPeers,
         ResyncList, SetBridge, Mirror, Fail, World

(* A resync never takes away a peer that the gateway's list names, however *)
(* many handlers create, update and delete rows beside it between its read *)
(* of the table and its deletions (ResyncPeers).                           *)
THEOREM ListedPeersSurvive == Spec => [][SparesListed]_vars
<1>1. Init => TypeInv /\ StoreInv /\ KeepInv
  BY TypeInvInitial, StoreInvInitial, ZenonT(30) DEF Init, KeepInv
<1>2. TypeInv /\ StoreInv /\ KeepInv /\ [Next]_vars => TypeInv' /\ StoreInv' /\ KeepInv'
  BY TypeInvInductive, KeepInvInductive, Zenon
<1>3. TypeInv /\ KeepInv /\ [Next]_vars => [SparesListed]_vars
  BY ResyncSpares, Zenon DEF SparesListed
<1>4. QED
  BY <1>1, <1>2, <1>3, PTL DEF Spec

-----------------------------------------------------------------------------
(* What a resync leaves                                                    *)

(* The ids that a resync accounts for at each of its steps: the listed     *)
(* ones it found and the ones it has still to delete.                      *)
ResyncInv ==
    \A p \in Proc :
        Resyncing(p) =>
            \A i \in PeerId \ touched[p] :
                i \in Registered(peers) <=> i \in (req[p].keep \ missing[p]) \cup todo[p]

(* What handler q leaves alone of another one, p.                          *)
LeavesBe(p) ==
    /\ pc'[p] = pc[p] /\ req'[p] = req[p] /\ todo'[p] = todo[p] /\ missing'[p] = missing[p]
    /\ touched[p] \subseteq touched'[p]
    /\ \A i \in PeerId \ touched'[p] : (peers'[i] = NoPeer) <=> (peers[i] = NoPeer)

LEMMA LeftBeStaysExact ==
    ASSUME ResyncInv, NEW p \in Proc, LeavesBe(p)
    PROVE  ResyncInv!(p)'
<1>1. Resyncing(p)' => Resyncing(p)
  BY Zenon DEF LeavesBe, Resyncing
<1>2. \A i \in PeerId \ touched'[p] :
          i \in Registered(peers)' <=> i \in Registered(peers)
  BY Zenon DEF LeavesBe, Registered
<1>3. \A i \in PeerId \ touched'[p] : i \in PeerId \ touched[p]
  BY Zenon DEF LeavesBe
<1>4. /\ req'[p].keep = req[p].keep /\ missing'[p] = missing[p] /\ todo'[p] = todo[p]
  BY Zenon DEF LeavesBe
<1>5. QED
  BY <1>1, <1>2, <1>3, <1>4, ZenonT(30) DEF ResyncInv

(* A handler that changes the table tells every resync beside it.          *)
LEMMA TouchTells ==
    ASSUME LocalTypeOK, NEW p \in Proc, NEW q \in Proc, p # q, Resyncing(p), Touch(q)
    PROVE  /\ touched[p] \subseteq touched'[p]
           /\ \A i \in PeerId \ touched'[p] : (peers'[i] = NoPeer) <=> (peers[i] = NoPeer)
<1>1. touched'[p] =
          touched[p] \cup {i \in PeerId : (peers[i] = NoPeer) # (peers'[i] = NoPeer)}
  BY Zenon DEF Touch
<1>2. QED
  BY <1>1

LEMMA OtherStepLeavesBe ==
    ASSUME TypeInv, NEW p \in Proc, NEW q \in Proc, p # q, Resyncing(p), Step(q)
    PROVE  LeavesBe(p)
<1>1. LocalTypeOK
  BY Zenon DEF TypeInv, TypeOK
<1>2. pc'[p] = pc[p] /\ req'[p] = req[p] /\ todo'[p] = todo[p]
  BY <1>1, StepKeepsRequest, StepAdvances, ZenonT(30) DEF Alone
<1>3. missing'[p] = missing[p]
  <2>1. CASE \E r : Finish(q, r)
    BY <1>1, <2>1, Zenon DEF Finish, LocalTypeOK
  <2>2. CASE UNCHANGED missing
    BY <2>2, Zenon
  <2>3. CASE ResyncList(q)
    BY <1>1, <2>3, Zenon DEF ResyncList, LocalTypeOK
  <2>4. QED
    BY <2>1, <2>2, <2>3, ZenonT(30)
       DEF Step, Upsert, Delete, Apply, ConfList, SyncList, List, ConfTruncate, ConfWrite,
           SyncPeers, Applied, ResyncLoop, SetBridge, Mirror, Fail, Goto
<1>4. /\ touched[p] \subseteq touched'[p]
      /\ \A i \in PeerId \ touched'[p] : (peers'[i] = NoPeer) <=> (peers[i] = NoPeer)
  <2>1. CASE Touch(q)
    BY <1>1, <2>1, TouchTells, Zenon
  <2>2. CASE UNCHANGED peers /\ \E r : Finish(q, r)
    BY <1>1, <2>2, Zenon DEF Finish, LocalTypeOK
  <2>3. CASE UNCHANGED <<peers, touched>>
    BY <2>3, Zenon
  <2>4. CASE Upsert(q) \/ Delete(q) \/ ResyncLoop(q)
    BY <2>1, <2>2, <2>4, ZenonT(30) DEF Upsert, Delete, ResyncLoop, KeyConflict, SubnetExhausted
  <2>5. CASE Apply(q)
    BY <2>2, <2>3, <2>5, ZenonT(30)
       DEF Apply, ConfList, SyncList, List, ConfTruncate, ConfWrite, SyncPeers, Applied, World
  <2>6. CASE ResyncList(q) \/ SetBridge(q) \/ Mirror(q) \/ Fail(q)
    BY <2>2, <2>3, <2>6, ZenonT(30) DEF ResyncList, SetBridge, Mirror, Fail, World
  <2>7. QED
    BY <2>4, <2>5, <2>6, Zenon DEF Step
<1>5. QED
  BY <1>2, <1>3, <1>4, Zenon DEF LeavesBe

LEMMA OwnStepStaysExact ==
    ASSUME TypeInv, KeepInv, ResyncInv, NEW p \in Proc, Step(p), Resyncing(p)'
    PROVE  ResyncInv!(p)'
<1>1. LocalTypeOK /\ Shape /\ StoreTypeOK
  BY Zenon DEF TypeInv, TypeOK
<1>2. ~\E r : Finish(p, r)
  BY <1>1, Zenon DEF Finish, LocalTypeOK, Resyncing, ApplyLabel
<1>3. CASE ResyncList(p)
  <2>1. /\ todo'[p] = Registered(peers) \ req[p].keep
        /\ missing'[p] = req[p].keep \ Registered(peers)
        /\ UNCHANGED <<peers, req>>
    BY <1>1, <1>3, Zenon DEF ResyncList, LocalTypeOK, World
  <2>2. Registered(peers)' = Registered(peers)
    BY <2>1, Zenon DEF Registered
  <2>3. QED
    BY <2>1, <2>2, Zenon
<1>4. CASE ResyncLoop(p)
  <2>1. req[p] \in ResyncRequest /\ Resyncing(p)
    BY <1>1, <1>4, Zenon DEF ResyncLoop, Shape, Resyncing
  <2>2. PICK id \in todo[p] :
            /\ DeletePeer(id)
            /\ Touch(p)
            /\ todo' = [todo EXCEPT ![p] = @ \ {id}]
            /\ UNCHANGED <<req, missing>>
    BY <1>2, <1>4, Zenon DEF ResyncLoop
  <2>3. todo'[p] = todo[p] \ {id} /\ touched'[p] = touched[p]
    BY <1>1, <2>2, Zenon DEF LocalTypeOK, Touch
  <2>4. Registered(peers)' = Registered(peers) \ {id}
    BY <1>1, <2>2, Zenon DEF DeletePeer, Registered, StoreTypeOK
  <2>5. id \notin req[p].keep
    BY <2>1, <2>2, Zenon DEF KeepInv
  <2>6. \A i \in PeerId \ touched[p] :
            i \in Registered(peers) <=> i \in (req[p].keep \ missing[p]) \cup todo[p]
    BY <2>1, Zenon DEF ResyncInv
  <2>7. QED
    BY <2>2, <2>3, <2>4, <2>5, <2>6, ZenonT(30)
<1>5. CASE Apply(p)
  <2>1. pc[p] \in ApplyLabel /\ UNCHANGED <<peers, req, todo, missing, touched>>
    BY <1>2, <1>5, ZenonT(30)
       DEF Apply, ConfList, SyncList, List, ConfTruncate, ConfWrite, SyncPeers, Applied, World,
           Goto, ApplyLabel
  <2>2. req[p].op = "resync"
    <3>1. CASE pc'[p] = "loop"
      BY <1>1, <1>2, <1>5, <3>1, ZenonT(30)
         DEF Apply, ConfList, SyncList, List, ConfTruncate, ConfWrite, SyncPeers, Applied,
             Goto, LocalTypeOK
    <3>2. CASE pc'[p] # "loop"
      BY <2>1, <3>2, Zenon DEF Resyncing
    <3>3. QED
      BY <3>1, <3>2, Zenon
  <2>3. Resyncing(p)
    BY <2>1, <2>2, Zenon DEF Resyncing
  <2>4. Registered(peers)' = Registered(peers)
    BY <2>1, Zenon DEF Registered
  <2>5. QED
    BY <2>1, <2>3, <2>4, ZenonT(30) DEF ResyncInv
<1>6. CASE Upsert(p) \/ Delete(p)
  <2>1. req[p].op # "resync" /\ Goto(p, "confList")
    BY <1>1, <1>2, <1>6, ZenonT(30) DEF Upsert, Delete, Shape, PutRequest, DeleteRequest
  <2>2. pc'[p] = "confList" /\ req'[p].op # "resync"
    BY <1>1, <2>1, Zenon DEF Goto, LocalTypeOK
  <2>3. QED
    BY <2>2, Zenon DEF Resyncing
<1>7. CASE SetBridge(p)
  <2>1. pc'[p] = "mirror"
    BY <1>1, <1>7, Zenon DEF SetBridge, Goto, LocalTypeOK
  <2>2. QED
    BY <2>1, Zenon DEF Resyncing, ApplyLabel
<1>8. QED
  BY <1>2, <1>3, <1>4, <1>5, <1>6, <1>7, ZenonT(30) DEF Step, Mirror, Fail

LEMMA ResyncInvInductive ==
    ASSUME TypeInv, KeepInv, ResyncInv, [Next]_vars
    PROVE  ResyncInv'
<1>. SUFFICES ASSUME NEW p \in Proc, Resyncing(p)'
              PROVE  ResyncInv!(p)'
  BY Zenon DEF ResyncInv
<1>1. LocalTypeOK
  BY Zenon DEF TypeInv, TypeOK
<1>2. CASE UNCHANGED <<pc, req, todo, missing, touched, peers>>
  BY <1>2, LeftBeStaysExact, Zenon DEF LeavesBe
<1>3. ASSUME NEW q \in Proc, Step(q)
      PROVE  ResyncInv!(p)'
  <2>1. CASE q = p
    BY <1>3, <2>1, OwnStepStaysExact, Zenon
  <2>2. CASE q # p
    <3>1. pc'[p] = pc[p] /\ req'[p] = req[p]
      BY <1>1, <1>3, <2>2, StepKeepsRequest, StepAdvances, ZenonT(30) DEF Alone
    <3>2. Resyncing(p)
      BY <3>1, Zenon DEF Resyncing
    <3>3. QED
      BY <1>3, <2>2, <3>2, OtherStepLeavesBe, LeftBeStaysExact, Zenon
  <2>3. QED
    BY <2>1, <2>2, Zenon
<1>4. ASSUME NEW q \in Proc, NEW r, NEW l, Begin(q, r, l), UNCHANGED World,
             l \in {"upsert", "delete", "resync", "bridge"}
      PROVE  ResyncInv!(p)'
  <2>1. q # p
    BY <1>1, <1>4, ZenonT(30) DEF Begin, LocalTypeOK, Resyncing, ApplyLabel
  <2>2. LeavesBe(p)
    BY <1>1, <1>4, <2>1, ZenonT(30) DEF Begin, LocalTypeOK, LeavesBe, World
  <2>3. QED
    BY <2>2, LeftBeStaysExact, Zenon
<1>5. ASSUME NEW q \in Worker, HTTPRequest(q)
      PROVE  ResyncInv!(p)'
  <2>1. q \in Proc
    BY Zenon DEF Proc
  <2>2. ASSUME NEW id, NEW k, NEW s, PutRefused(q, id, k, s)
        PROVE  ResyncInv!(p)'
    BY <1>2, <2>2, Zenon DEF PutRefused, World, local
  <2>3. QED
    BY <1>4, <1>5, <2>1, <2>2, ZenonT(30) DEF HTTPRequest, PutPeer, RemovePeer
<1>6. ASSUME NEW q \in Session, Command(q)
      PROVE  ResyncInv!(p)'
  <2>1. q \in Proc
    BY Zenon DEF Proc
  <2>2. QED
    BY <1>4, <1>6, <2>1, Zenon DEF Command, ResyncPeers, SetStatus
<1>7. CASE Crash
  BY <1>7, Zenon DEF Crash, Resyncing, ApplyLabel
<1>8. CASE BootConf \/ BringUp \/ UNCHANGED vars
  BY <1>2, <1>8, ZenonT(30) DEF BootConf, BringUp, vars, local
<1>9. QED
  BY <1>3, <1>5, <1>6, <1>7, <1>8, ZenonT(30) DEF Next

(* A resync that answers with success has left exactly the ids of its list *)
(* that it did not report as missing, but for those that other handlers    *)
(* added or removed since it read the table, for any number of handlers    *)
(* and with every fault (ResyncPeers and its loop over the table).         *)
THEOREM ResyncsAreExact == Spec => []ResyncExact
<1>1. Init => TypeInv /\ StoreInv /\ KeepInv /\ ResyncInv
  <2>. SUFFICES ASSUME Init
                PROVE  TypeInv /\ StoreInv /\ KeepInv /\ ResyncInv
    BY Zenon
  <2>1. TypeInv /\ StoreInv /\ KeepInv
    BY TypeInvInitial, StoreInvInitial, ZenonT(30) DEF Init, KeepInv
  <2>2. \A p \in Proc : ~Resyncing(p)
    BY Zenon DEF Init, Resyncing, ApplyLabel
  <2>3. QED
    BY <2>1, <2>2, Zenon DEF ResyncInv
<1>2. TypeInv /\ StoreInv /\ KeepInv /\ ResyncInv /\ [Next]_vars
        => TypeInv' /\ StoreInv' /\ KeepInv' /\ ResyncInv'
  BY TypeInvInductive, KeepInvInductive, ResyncInvInductive, Zenon
<1>3. ResyncInv => ResyncExact
  BY Zenon DEF ResyncInv, ResyncExact, Resyncing
<1>4. QED
  BY <1>1, <1>2, <1>3, PTL DEF Spec
=============================================================================

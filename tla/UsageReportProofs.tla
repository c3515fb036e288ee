------------------------- MODULE UsageReportProofs -------------------------
(***************************************************************************)
(* For any number of clients and bytes, when no two clients use the same   *)
(* key: what is reported and what is still to report add up to what a      *)
(* client moved, unless it lost a report or its counter restarted; and,    *)
(* when every start of the node recreates the device, the gateway is never *)
(* told of more.                                                           *)
(***************************************************************************)
EXTENDS UsageReport, TLAPS

(* No two clients use the same key.                                        *)
DisjointKeys == \A i, j \in PeerId : i # j => KeysOf[i] \cap KeysOf[j] = {}

(* And every start of the node recreates the device.                       *)
OwnKeys == DisjointKeys /\ ~InitFails

(* A client's row, and the pump's copy of it, hold a key of that client.   *)
KeysOwned ==
    \A i \in PeerId :
        /\ key[i] \in KeysOf[i] \cup {NoKey}
        /\ byKey[i] \in KeysOf[i] \cup {NoKey}

(* What a report taken now, after one that saw counter prev, would tell.   *)
Pending(i, prev) == IF key[i] = NoKey THEN 0 ELSE Delta(ctr[key[i]], prev)

(* What the report being built will tell of client i, and the counter it   *)
(* leaves behind.                                                          *)
Building(i) == IF pc = "diff" /\ i \in Covered THEN Delta(seen[byKey[i]], lastUsage[i]) ELSE 0
Prev(i) == IF pc = "diff" /\ i \in Covered THEN seen[byKey[i]] ELSE lastUsage[i]

(* What the gateway does not know yet of client i covers the report being  *)
(* built and the next one.                                                 *)
Unreported ==
    \A i \in PeerId : got[i] + frame[i] + Building(i) + Pending(i, Prev(i)) <= moved[i]

FrameSent == pc # "send" => frame = Zero

UsageInv == TypeOK /\ KeysOwned /\ FrameSent /\ Unreported

LEMMA KeyType == \A i \in PeerId : KeysOf[i] \subseteq WGKey /\ NoKey \notin KeysOf[i]
BY UsageAssumption, Zenon DEF WGKey

LEMMA DeltaType ==
    ASSUME NEW a \in Nat, NEW b \in Nat
    PROVE  Delta(a, b) \in Nat
BY DEF Delta

LEMMA UsageInvInitial == Init => UsageInv
<1>. SUFFICES ASSUME Init
              PROVE  UsageInv
  BY Zenon
<1>1. /\ \A i \in PeerId : /\ key[i] = NoKey /\ byKey[i] = NoKey
                           /\ moved[i] = 0 /\ lastUsage[i] = 0
                           /\ frame[i] = 0 /\ got[i] = 0
      /\ pc = "ended"
  BY Zenon DEF Init, NoKeys, Zero
<1>2. TypeOK
  <2>1. NoKeys \in [PeerId -> WGKey \cup {NoKey}]
    BY Zenon DEF NoKeys
  <2>2. Zero \in [PeerId -> 0 .. MaxBytes] /\ Zero \in [PeerId -> Nat]
    BY UsageAssumption DEF Zero
  <2>3. AllGone \in [WGKey -> Nat \cup {Gone}]
    BY Zenon DEF AllGone
  <2>. QED
    BY <2>1, <2>2, <2>3, Zenon DEF Init, TypeOK
<1>3. KeysOwned /\ FrameSent
  BY <1>1, Zenon DEF Init, KeysOwned, FrameSent
<1>4. Unreported
  <2>. SUFFICES ASSUME NEW i \in PeerId
                PROVE  got[i] + frame[i] + Building(i) + Pending(i, Prev(i)) <= moved[i]
    BY Zenon DEF Unreported
  <2>1. Pending(i, Prev(i)) = 0 /\ Building(i) = 0
    BY <1>1, Zenon DEF Pending, Building
  <2>2. got[i] = 0 /\ frame[i] = 0 /\ moved[i] = 0
    BY <1>1, Zenon
  <2>. QED
    BY <2>1, <2>2, UsageAssumption
<1>. QED
  BY <1>2, <1>3, <1>4, Zenon DEF UsageInv

LEMMA TypeOKStep ==
    ASSUME TypeOK, KeysOwned, FrameSent, [Next]_vars
    PROVE  TypeOK' /\ KeysOwned' /\ FrameSent'
<1>. USE KeyType
<1>1. ASSUME NEW i \in PeerId, Traffic(i)
      PROVE  TypeOK' /\ KeysOwned' /\ FrameSent'
  <2>1. moved'\in [PeerId -> 0 .. MaxBytes]
    BY <1>1, UsageAssumption DEF Traffic, TypeOK
  <2>2. ctr' \in [WGKey -> Nat]
    BY <1>1 DEF Traffic, TypeOK
  <2>. QED
    BY <1>1, <2>1, <2>2, Zenon DEF Traffic, TypeOK, pump, KeysOwned, FrameSent
<1>2. ASSUME NEW i \in PeerId, NEW k \in KeysOf[i], NEW ks \in SUBSET WGKey, Register(i, k, ks)
      PROVE  TypeOK' /\ KeysOwned' /\ FrameSent'
  <2>1. key' \in [PeerId -> WGKey \cup {NoKey}] /\ ctr' \in [WGKey -> Nat]
    BY <1>2, Zenon DEF Register, TypeOK
  <2>2. lossy' \in SUBSET PeerId
    BY <1>2, Zenon DEF Register, TypeOK, Counted
  <2>3. KeysOwned'
    BY <1>2, Zenon DEF Register, TypeOK, KeysOwned, pump
  <2>. QED
    BY <1>2, <2>1, <2>2, <2>3, Zenon DEF Register, TypeOK, pump, FrameSent
<1>3. ASSUME NEW i \in PeerId, NEW ks \in SUBSET WGKey, Remove(i, ks)
      PROVE  TypeOK' /\ KeysOwned' /\ FrameSent'
  <2>1. key' \in [PeerId -> WGKey \cup {NoKey}] /\ ctr' \in [WGKey -> Nat]
    BY <1>3, Zenon DEF Remove, TypeOK
  <2>2. lossy' \in SUBSET PeerId
    BY <1>3, Zenon DEF Remove, TypeOK, Counted
  <2>3. KeysOwned'
    BY <1>3, Zenon DEF Remove, TypeOK, KeysOwned, pump
  <2>. QED
    BY <1>3, <2>1, <2>2, <2>3, Zenon DEF Remove, TypeOK, pump, FrameSent
<1>4. CASE ReadPeers \/ ReadPeersFails \/ PumpEnds \/ Disconnect \/ Connect
  BY <1>4, Zenon DEF ReadPeers, ReadPeersFails, PumpEnds, Disconnect, Connect,
              TypeOK, KeysOwned, FrameSent, device
<1>5. CASE ReadTransfers
  <2>1. seen' \in [WGKey -> Nat \cup {Gone}]
    BY <1>5, Zenon DEF ReadTransfers, TypeOK
  <2>. QED
    BY <1>5, <2>1, Zenon DEF ReadTransfers, TypeOK, KeysOwned, FrameSent, device
<1>12. CASE ReadTransfersFails
  <2>1. AllGone \in [WGKey -> Nat \cup {Gone}]
    BY Zenon DEF AllGone
  <2>. QED
    BY <1>12, <2>1, Zenon DEF ReadTransfersFails, TypeOK, KeysOwned, FrameSent, device
<1>6. CASE Diff
  <2>1. \A i \in Covered : seen[byKey[i]] \in Nat
    BY Zenon DEF Covered, TypeOK
  <2>2. frame' \in [PeerId -> Nat] /\ lastUsage' \in [PeerId -> Nat]
    BY <1>6, <2>1, DeltaType, Zenon DEF Diff, TypeOK
  <2>3. NoKeys \in [PeerId -> WGKey \cup {NoKey}] /\ AllGone \in [WGKey -> Nat \cup {Gone}]
    BY Zenon DEF NoKeys, AllGone
  <2>4. KeysOwned'
    BY <1>6, Zenon DEF Diff, KeysOwned, NoKeys, device
  <2>. QED
    BY <1>6, <2>2, <2>3, <2>4, Zenon DEF Diff, TypeOK, FrameSent, device
<1>7. Zero \in [PeerId -> Nat] /\ NoKeys \in [PeerId -> WGKey \cup {NoKey}]
      /\ AllGone \in [WGKey -> Nat \cup {Gone}]
  BY Zenon DEF Zero, NoKeys, AllGone
<1>8. CASE Delivered
  <2>1. got' \in [PeerId -> Nat]
    BY <1>8 DEF Delivered, TypeOK
  <2>. QED
    BY <1>7, <1>8, <2>1, Zenon DEF Delivered, TypeOK, KeysOwned, FrameSent, device
<1>9. CASE WriteFails
  BY <1>7, <1>9, Zenon DEF WriteFails, TypeOK, KeysOwned, FrameSent, device
<1>10. CASE Restart
  <2>1. ctr' \in [WGKey -> Nat]
    BY <1>10 DEF Restart, TypeOK
  <2>2. KeysOwned'
    BY <1>10, Zenon DEF Restart, KeysOwned, NoKeys
  <2>. QED
    BY <1>7, <1>10, <2>1, <2>2, Zenon DEF Restart, TypeOK, FrameSent
<1>11. CASE UNCHANGED vars
  BY <1>11, Zenon DEF vars, device, pump, TypeOK, KeysOwned, FrameSent
<1>. QED
  BY <1>1, <1>2, <1>3, <1>4, <1>5, <1>6, <1>8, <1>9, <1>10, <1>11, <1>12, Zenon DEF Next, Report

(* The terms of Unreported are natural numbers.                            *)
LEMMA TermTypes ==
    ASSUME TypeOK, NEW i \in PeerId
    PROVE  /\ got[i] \in Nat /\ frame[i] \in Nat /\ moved[i] \in Nat
           /\ Prev(i) \in Nat /\ Building(i) \in Nat
           /\ \A p \in Nat : Pending(i, p) \in Nat
<1>1. got[i] \in Nat /\ frame[i] \in Nat /\ lastUsage[i] \in Nat
  BY Zenon DEF TypeOK
<1>2. moved[i] \in Nat
  BY UsageAssumption DEF TypeOK
<1>3. i \in Covered => seen[byKey[i]] \in Nat
  BY Zenon DEF Covered, TypeOK
<1>4. Prev(i) \in Nat
  BY <1>1, <1>3, Zenon DEF Prev
<1>5. Building(i) \in Nat
  BY <1>1, <1>3, DeltaType, Zenon DEF Building
<1>6. ASSUME NEW p \in Nat PROVE Pending(i, p) \in Nat
  <2>1. key[i] # NoKey => ctr[key[i]] \in Nat
    BY Zenon DEF TypeOK
  <2>. QED
    BY <2>1, DeltaType, Zenon DEF Pending
<1>. QED
  BY <1>1, <1>2, <1>4, <1>5, <1>6, Zenon

(* A step that leaves the pump alone and lets no counter grow by more than *)
(* its client moved keeps Unreported.                                      *)
LEMMA DeviceStep ==
    ASSUME TypeOK, TypeOK', NEW i \in PeerId,
           UNCHANGED <<pump, lastUsage, got>>,
           moved'[i] >= moved[i],
           \A p \in Nat : Pending(i, p)' <= Pending(i, p) + (moved'[i] - moved[i]),
           got[i] + frame[i] + Building(i) + Pending(i, Prev(i)) <= moved[i]
    PROVE  (got[i] + frame[i] + Building(i) + Pending(i, Prev(i)) <= moved[i])'
<1>1. /\ got'[i] = got[i] /\ frame'[i] = frame[i]
      /\ Building(i)' = Building(i) /\ Prev(i)' = Prev(i)
  BY Zenon DEF pump, Building, Prev, Covered
<1>2. /\ got[i] \in Nat /\ frame[i] \in Nat /\ moved[i] \in Nat
      /\ Prev(i) \in Nat /\ Building(i) \in Nat /\ Pending(i, Prev(i)) \in Nat
  BY TermTypes, Zenon
<1>3. moved'[i] \in Nat
  BY UsageAssumption DEF TypeOK
<1>4. Pending(i, Prev(i))' = (IF key'[i] = NoKey THEN 0 ELSE Delta(ctr'[key'[i]], Prev(i)))
  BY <1>1, Zenon DEF Pending
<1>5. (IF key'[i] = NoKey THEN 0 ELSE Delta(ctr'[key'[i]], Prev(i)))
         <= Pending(i, Prev(i)) + (moved'[i] - moved[i])
  BY <1>2, Zenon DEF Pending
<1>6. Pending(i, Prev(i))' \in Nat
  BY <1>4, <1>2, DeltaType DEF TypeOK
<1>. QED
  BY <1>1, <1>2, <1>3, <1>4, <1>5, <1>6

(* Traffic, registrations and removals: a counter grows with its client's  *)
(* bytes only, and a restarted one is worth nothing.                       *)
LEMMA DeviceKeepsUnreported ==
    ASSUME OwnKeys, UsageInv, TypeOK', NEW j \in PeerId,
           \/ Traffic(j)
           \/ \E ks \in SUBSET WGKey :
                 Remove(j, ks) \/ \E k \in KeysOf[j] : Register(j, k, ks)
    PROVE  Unreported'
<1>. SUFFICES ASSUME NEW i \in PeerId
              PROVE  (got[i] + frame[i] + Building(i) + Pending(i, Prev(i)) <= moved[i])'
  BY Zenon DEF Unreported
<1>1. TypeOK /\ got[i] + frame[i] + Building(i) + Pending(i, Prev(i)) <= moved[i]
  BY Zenon DEF UsageInv, Unreported
<1>2. moved[i] \in Nat /\ moved'[i] \in Nat /\ key[i] \in WGKey \cup {NoKey}
      /\ key'[i] \in WGKey \cup {NoKey} /\ ctr \in [WGKey -> Nat] /\ ctr' \in [WGKey -> Nat]
  BY <1>1, UsageAssumption DEF TypeOK
<1>3. CASE Traffic(j)
  <2>1. UNCHANGED <<pump, lastUsage, got>> /\ key' = key
    BY <1>3, Zenon DEF Traffic
  <2>2. CASE i = j
    <3>1. moved'[i] = moved[i] + 1 /\ key[i] \in WGKey /\ ctr'[key[i]] = ctr[key[i]] + 1
          /\ key[i] # NoKey
      BY <1>1, <1>2, <1>3, <2>2, Zenon DEF Traffic, TypeOK
    <3>2. ASSUME NEW p \in Nat
          PROVE  Pending(i, p)' <= Pending(i, p) + (moved'[i] - moved[i])
      <4>1. Delta(ctr[key[i]] + 1, p) <= Delta(ctr[key[i]], p) + 1
        BY <1>2, <3>1 DEF Delta
      <4>2. Pending(i, p)' = Delta(ctr[key[i]] + 1, p) /\ Pending(i, p) = Delta(ctr[key[i]], p)
        BY <2>1, <3>1, Zenon DEF Pending
      <4>. QED
        BY <4>1, <4>2, <3>1, <1>2
    <3>. QED
      BY <1>1, <1>2, <2>1, <3>1, <3>2, DeviceStep
  <2>3. CASE i # j
    <3>1. key[i] # NoKey => key[i] # key[j]
      BY <1>3, <2>3, Zenon DEF UsageInv, KeysOwned, OwnKeys, DisjointKeys, Traffic
    <3>2. moved'[i] = moved[i] /\ (key[i] # NoKey => ctr'[key[i]] = ctr[key[i]])
      BY <1>1, <1>2, <1>3, <2>3, <3>1, Zenon DEF Traffic, TypeOK
    <3>3. ASSUME NEW p \in Nat
          PROVE  Pending(i, p)' <= Pending(i, p) + (moved'[i] - moved[i])
      <4>1. Pending(i, p)' = Pending(i, p)
        BY <2>1, <3>2, Zenon DEF Pending
      <4>2. Pending(i, p) \in Nat
        BY <1>1, TermTypes, Zenon
      <4>. QED
        BY <4>1, <4>2, <3>2, <1>2
    <3>. QED
      BY <1>1, <1>2, <2>1, <3>2, <3>3, DeviceStep
  <2>. QED
    BY <2>2, <2>3, Zenon
<1>4. CASE \E ks \in SUBSET WGKey :
              Remove(j, ks) \/ \E k \in KeysOf[j] : Register(j, k, ks)
  <2>1. UNCHANGED <<moved, pump, lastUsage, got>>
    BY <1>4, Zenon DEF Remove, Register
  <2>2. key'[i] = NoKey \/ ctr'[key'[i]] = 0 \/ (key'[i] = key[i] /\ ctr'[key[i]] = ctr[key[i]])
    <3>1. PICK ks \in SUBSET WGKey : Remove(j, ks) \/ \E k \in KeysOf[j] : Register(j, k, ks)
      BY <1>4, Zenon
    <3>2. key \in [PeerId -> WGKey \cup {NoKey}]
      BY <1>1, Zenon DEF TypeOK
    <3>3. CASE Remove(j, ks)
      <4>1. key'[i] = NoKey \/ key'[i] = key[i]
        BY <3>2, <3>3, Zenon DEF Remove
      <4>2. key[i] # NoKey => ctr'[key[i]] \in {0, ctr[key[i]]}
        BY <1>2, <3>3, Zenon DEF Remove
      <4>. QED
        BY <4>1, <4>2, Zenon
    <3>4. ASSUME NEW k \in KeysOf[j], Register(j, k, ks)
          PROVE  key'[i] = NoKey \/ ctr'[key'[i]] = 0
                 \/ (key'[i] = key[i] /\ ctr'[key[i]] = ctr[key[i]])
      <4>1. k \in WGKey /\ key'[i] = IF i = j THEN k ELSE key[i]
        BY <3>2, <3>4, KeyType, ZenonT(30) DEF Register
      <4>2. \A x \in WGKey : ctr'[x] = IF x \in ks \/ (x = k /\ key[j] # k) THEN 0 ELSE ctr[x]
        BY <3>4, Zenon DEF Register
      <4>. QED
        BY <1>2, <4>1, <4>2, Zenon
    <3>. QED
      BY <3>1, <3>3, <3>4, Zenon
  <2>3. ASSUME NEW p \in Nat
        PROVE  Pending(i, p)' <= Pending(i, p) + (moved'[i] - moved[i])
    <3>1. Pending(i, p) \in Nat
      BY <1>1, TermTypes, Zenon
    <3>2. Delta(0, p) = 0
      BY DEF Delta
    <3>3. Pending(i, p)' = 0 \/ Pending(i, p)' = Pending(i, p)
      <4>1. Pending(i, p)' = (IF key'[i] = NoKey THEN 0 ELSE Delta(ctr'[key'[i]], p))
        BY Zenon DEF Pending
      <4>2. CASE key'[i] = NoKey
        BY <4>1, <4>2, Zenon
      <4>3. CASE key'[i] # NoKey /\ ctr'[key'[i]] = 0
        BY <3>2, <4>1, <4>3, Zenon
      <4>4. CASE key'[i] # NoKey /\ key'[i] = key[i] /\ ctr'[key[i]] = ctr[key[i]]
        BY <4>1, <4>4, Zenon DEF Pending
      <4>. QED
        BY <2>2, <4>2, <4>3, <4>4, Zenon
    <3>. QED
      BY <2>1, <3>1, <3>3, <1>2
  <2>. QED
    BY <1>1, <1>2, <2>1, <2>3, DeviceStep
<1>. QED
  BY <1>3, <1>4, Zenon

(* A report whose read of the device failed covers nobody.                 *)
LEMMA FailedReadCovers ==
    ASSUME TypeOK, ReadTransfersFails, NEW i \in PeerId
    PROVE  i \notin Covered'
<1>1. byKey'[i] = byKey[i] /\ byKey[i] \in WGKey \cup {NoKey} /\ seen' = AllGone
  BY Zenon DEF TypeOK, ReadTransfersFails
<1>2. byKey[i] \in WGKey => seen'[byKey[i]] = Gone
  BY <1>1, Zenon DEF AllGone
<1>3. QED
  BY <1>1, <1>2, Zenon DEF Covered, Gone

(* The steps of the pump and the restart move bytes from one term of       *)
(* Unreported to another, or drop them.                                    *)
LEMMA PumpKeepsUnreported ==
    ASSUME OwnKeys, UsageInv, TypeOK',
           Report \/ Delivered \/ WriteFails \/ PumpEnds \/ Connect \/ Disconnect \/ Restart
    PROVE  Unreported'
<1>. SUFFICES ASSUME NEW i \in PeerId
              PROVE  (got[i] + frame[i] + Building(i) + Pending(i, Prev(i)) <= moved[i])'
  BY Zenon DEF Unreported
<1>1. TypeOK /\ got[i] + frame[i] + Building(i) + Pending(i, Prev(i)) <= moved[i]
  BY Zenon DEF UsageInv, Unreported
<1>2. /\ got[i] \in Nat /\ frame[i] \in Nat /\ moved[i] \in Nat
      /\ Building(i) \in Nat /\ Pending(i, Prev(i)) \in Nat
  BY <1>1, TermTypes, Zenon
<1>3. moved' = moved
  BY Zenon DEF Report, ReadPeers, ReadPeersFails, ReadTransfers, ReadTransfersFails, Diff,
         Delivered, WriteFails,
         PumpEnds, Connect, Disconnect, Restart, device
<1>4. CASE ReadPeers \/ ReadPeersFails \/ PumpEnds \/ Connect \/ Disconnect
  <2>1. UNCHANGED <<key, ctr, got, frame, lastUsage>>
    BY <1>4, Zenon DEF ReadPeers, ReadPeersFails, PumpEnds, Connect, Disconnect, device
  <2>2. Building(i)' = Building(i) /\ Prev(i)' = Prev(i)
    BY <1>4, Zenon DEF ReadPeers, ReadPeersFails, PumpEnds, Connect, Disconnect, Building, Prev, Covered
  <2>3. Pending(i, Prev(i))' = Pending(i, Prev(i))
    BY <2>1, <2>2, Zenon DEF Pending
  <2>. QED
    BY <1>1, <1>3, <2>1, <2>2, <2>3, Zenon
<1>5. CASE ReadTransfers
  <2>1. UNCHANGED <<key, ctr, got, frame, byKey, lastUsage>> /\ pc' = "diff"
    BY <1>5, Zenon DEF ReadTransfers, device
  <2>2. Building(i) = 0 /\ Prev(i) = lastUsage[i]
    BY <1>5, Zenon DEF ReadTransfers, Building, Prev
  <2>3. CASE i \in Covered'
    <3>1. key[i] = byKey[i] /\ key[i] # NoKey /\ key[i] \in WGKey
      <4>1. byKey[i] \in KeysOf[i] /\ OnDevice(byKey[i])
        BY <1>1, <1>5, <2>1, <2>3, ZenonT(30) DEF Covered, ReadTransfers, UsageInv, KeysOwned, TypeOK
      <4>. QED
        BY <4>1, KeyType, ZenonT(30) DEF OnDevice, OwnKeys, DisjointKeys, UsageInv, KeysOwned
    <3>2. seen'[byKey[i]] = ctr[key[i]] /\ ctr[key[i]] \in Nat
      BY <1>1, <1>5, <3>1, Zenon DEF ReadTransfers, OnDevice, TypeOK
    <3>3. Building(i)' = Pending(i, Prev(i)) /\ Prev(i)' = ctr[key[i]]
      BY <2>1, <2>2, <2>3, <3>1, <3>2, Zenon DEF Building, Prev, Pending
    <3>4. Pending(i, Prev(i))' = Delta(ctr[key[i]], ctr[key[i]])
      BY <2>1, <3>1, <3>3, Zenon DEF Pending
    <3>5. Delta(ctr[key[i]], ctr[key[i]]) = 0
      BY <3>2 DEF Delta
    <3>. QED
      BY <1>1, <1>2, <1>3, <2>1, <2>2, <3>3, <3>4, <3>5
  <2>4. CASE i \notin Covered'
    <3>1. Building(i)' = 0 /\ Prev(i)' = Prev(i)
      BY <2>1, <2>2, <2>4, Zenon DEF Building, Prev
    <3>2. Pending(i, Prev(i))' = Pending(i, Prev(i))
      BY <2>1, <3>1, Zenon DEF Pending
    <3>. QED
      BY <1>1, <1>2, <1>3, <2>1, <2>2, <3>1, <3>2, Zenon
  <2>. QED
    BY <2>3, <2>4, Zenon
<1>9. CASE ReadTransfersFails
  <2>1. /\ UNCHANGED <<key, ctr, got, frame, byKey, lastUsage>>
        /\ pc = "transfers" /\ i \notin Covered'
    BY <1>1, <1>9, FailedReadCovers, Zenon DEF ReadTransfersFails, device
  <2>2. Building(i) = 0 /\ Building(i)' = 0 /\ Prev(i)' = Prev(i)
    BY <2>1, Zenon DEF Building, Prev
  <2>3. Pending(i, Prev(i))' = Pending(i, Prev(i))
    BY <2>1, <2>2, Zenon DEF Pending
  <2>. QED
    BY <1>1, <1>3, <2>1, <2>2, <2>3, Zenon
<1>6. CASE Diff
  <2>1. UNCHANGED <<key, ctr, got>> /\ pc' = "send" /\ pc = "diff"
    BY <1>6, Zenon DEF Diff, device
  <2>2. frame[i] = 0
    BY <2>1, Zenon DEF UsageInv, FrameSent, Zero
  <2>3. frame'[i] = Building(i) /\ lastUsage'[i] = Prev(i)
    BY <1>6, Zenon DEF Diff, Building, Prev
  <2>4. Building(i)' = 0 /\ Prev(i)' = Prev(i)
    BY <2>1, <2>3, Zenon DEF Building, Prev
  <2>5. Pending(i, Prev(i))' = Pending(i, Prev(i))
    BY <2>1, <2>4, Zenon DEF Pending
  <2>. QED
    BY <1>1, <1>2, <1>3, <2>1, <2>2, <2>3, <2>4, <2>5
<1>7. CASE Delivered \/ WriteFails
  <2>1. UNCHANGED <<key, ctr, lastUsage>> /\ pc = "send" /\ pc' # "diff"
    BY <1>7, Zenon DEF Delivered, WriteFails, device
  <2>2. frame'[i] = 0 /\ (got'[i] = got[i] + frame[i] \/ got'[i] = got[i])
    BY <1>7, Zenon DEF Delivered, WriteFails, Zero
  <2>3. Building(i) = 0 /\ Building(i)' = 0 /\ Prev(i)' = Prev(i)
    BY <2>1, Zenon DEF Building, Prev
  <2>4. Pending(i, Prev(i))' = Pending(i, Prev(i))
    BY <2>1, <2>3, Zenon DEF Pending
  <2>. QED
    BY <1>1, <1>2, <1>3, <2>2, <2>3, <2>4
<1>8. CASE Restart
  <2>1. frame'[i] = 0 /\ got'[i] = got[i] /\ pc' = "ended" /\ lastUsage'[i] = 0
    BY <1>8, Zenon DEF Restart, Zero
  <2>2. key' = key /\ ctr' = [k \in WGKey |-> 0]
    BY <1>8, Zenon DEF Restart, OwnKeys
  <2>3. Building(i)' = 0 /\ Prev(i)' = 0
    BY <2>1, Zenon DEF Building, Prev
  <2>4. Pending(i, Prev(i))' = 0
    <3>1. key[i] # NoKey => ctr'[key[i]] = 0
      BY <1>1, <2>2, Zenon DEF TypeOK
    <3>. QED
      BY <2>2, <2>3, <3>1 DEF Pending, Delta
  <2>. QED
    BY <1>1, <1>2, <1>3, <2>1, <2>3, <2>4
<1>. QED
  BY <1>4, <1>5, <1>6, <1>7, <1>8, <1>9, Zenon DEF Report

LEMMA UsageInvInductive == OwnKeys /\ UsageInv /\ [Next]_vars => UsageInv'
<1>. SUFFICES ASSUME OwnKeys, UsageInv, [Next]_vars
              PROVE  UsageInv'
  BY Zenon
<1>1. TypeOK' /\ KeysOwned' /\ FrameSent'
  BY TypeOKStep, Zenon DEF UsageInv
<1>2. CASE UNCHANGED vars
  BY <1>2, ZenonT(30) DEF vars, device, pump, UsageInv, TypeOK, KeysOwned, FrameSent, Unreported,
              Building, Prev, Pending, Covered
<1>3. CASE Next
  BY <1>1, <1>3, DeviceKeepsUnreported, PumpKeepsUnreported, Zenon DEF Next, UsageInv
<1>. QED
  BY <1>2, <1>3, Zenon

(* When no two clients use the same key and every start of the node        *)
(* recreates the device, the gateway is never told of more bytes than a    *)
(* client moved: the deltas of BuildUsageReport, the reports writePump     *)
(* sends or loses, and every restart included.                             *)
THEOREM UsageNeverOverReported ==
    ASSUME OwnKeys
    PROVE  Spec => [](TypeOK /\ NeverOverReported)
<1>1. UsageInv => TypeOK /\ NeverOverReported
  <2>. SUFFICES ASSUME UsageInv, NEW i \in PeerId
                PROVE  got[i] + frame[i] <= moved[i]
    BY Zenon DEF UsageInv, NeverOverReported
  <2>1. TypeOK /\ got[i] + frame[i] + Building(i) + Pending(i, Prev(i)) <= moved[i]
    BY Zenon DEF UsageInv, Unreported
  <2>2. /\ got[i] \in Nat /\ frame[i] \in Nat /\ moved[i] \in Nat
        /\ Building(i) \in Nat /\ Pending(i, Prev(i)) \in Nat
    BY <2>1, TermTypes, Zenon
  <2>. QED
    BY <2>1, <2>2
<1>2. UsageInv /\ [Next]_vars => UsageInv'
  BY UsageInvInductive, Zenon
<1>. QED
  BY <1>1, <1>2, UsageInvInitial, PTL DEF Spec

-----------------------------------------------------------------------------
(* What is reported and what is still to report add up                     *)

(* A counter, a copy of one and a remembered one never exceed what the     *)
(* client moved; one that moved nothing is not reported.                   *)
BoundedAt(i) ==
    /\ lastUsage[i] <= moved[i]
    /\ \A k \in KeysOf[i] : ctr[k] <= moved[i] /\ seen[k] <= moved[i]
    /\ moved[i] = 0 => got[i] = 0 /\ frame[i] = 0

(* A client that lost nothing: the counter has grown since the last report *)
(* and since the read of the report being built.  A key that is no longer  *)
(* the client's was given up before it moved a byte.                       *)
ExactAt(i) ==
    /\ key[i] = NoKey => moved[i] = 0
    /\ key[i] # NoKey =>
          /\ lastUsage[i] <= ctr[key[i]]
          /\ got[i] + frame[i] + ctr[key[i]] = moved[i] + lastUsage[i]
          /\ pc \in {"transfers", "diff"} /\ byKey[i] \notin {key[i], NoKey} =>
                lastUsage[i] = 0
          /\ pc = "diff" /\ i \in Covered =>
                /\ byKey[i] = key[i] =>
                      lastUsage[i] <= seen[key[i]] /\ seen[key[i]] <= ctr[key[i]]
                /\ byKey[i] # key[i] => seen[byKey[i]] = 0

AddInv ==
    /\ TypeOK /\ KeysOwned /\ FrameSent
    /\ \A i \in PeerId : BoundedAt(i)
    /\ \A i \in PeerId \ lossy : ExactAt(i)

(* The values of a client are numbers, its keys are keys of the device.    *)
LEMMA ClientTypes ==
    ASSUME TypeOK, KeysOwned, NEW i \in PeerId
    PROVE  /\ got[i] \in Nat /\ frame[i] \in Nat /\ moved[i] \in Nat /\ lastUsage[i] \in Nat
           /\ \A k \in KeysOf[i] : /\ k \in WGKey /\ k # NoKey
                                   /\ ctr[k] \in Nat /\ seen[k] \in Nat \cup {Gone}
           /\ key[i] \in KeysOf[i] \cup {NoKey} /\ byKey[i] \in KeysOf[i] \cup {NoKey}
           /\ i \in Covered => byKey[i] \in KeysOf[i] /\ seen[byKey[i]] \in Nat
<1>1. got[i] \in Nat /\ frame[i] \in Nat /\ lastUsage[i] \in Nat
  BY Zenon DEF TypeOK
<1>2. moved[i] \in Nat
  BY UsageAssumption DEF TypeOK
<1>3. \A k \in KeysOf[i] : k \in WGKey /\ k # NoKey
  BY KeyType, Zenon
<1>4. \A k \in KeysOf[i] : ctr[k] \in Nat /\ seen[k] \in Nat \cup {Gone}
  BY <1>3, Zenon DEF TypeOK
<1>5. key[i] \in KeysOf[i] \cup {NoKey} /\ byKey[i] \in KeysOf[i] \cup {NoKey}
  BY Zenon DEF KeysOwned
<1>6. i \in Covered => byKey[i] \in KeysOf[i] /\ seen[byKey[i]] \in Nat
  BY <1>4, <1>5, Zenon DEF Covered
<1>. QED
  BY <1>1, <1>2, <1>3, <1>4, <1>5, <1>6, Zenon

(* A client that has moved nothing has zeros everywhere.                   *)
LEMMA NothingMoved ==
    ASSUME TypeOK, KeysOwned, NEW i \in PeerId, BoundedAt(i), moved[i] = 0
    PROVE  /\ got[i] = 0 /\ frame[i] = 0 /\ lastUsage[i] = 0
           /\ \A k \in KeysOf[i] : ctr[k] = 0 /\ (seen[k] = 0 \/ seen[k] = Gone)
<1>1. got[i] = 0 /\ frame[i] = 0 /\ lastUsage[i] <= 0
  BY Zenon DEF BoundedAt
<1>2. \A k \in KeysOf[i] : ctr[k] <= 0 /\ seen[k] <= 0
  BY Zenon DEF BoundedAt
<1>. QED
  BY <1>1, <1>2, ClientTypes

(* The steps of the device: what they do to client i.                      *)
LEMMA DeviceEffect ==
    ASSUME DisjointKeys, TypeOK, KeysOwned, NEW j \in PeerId, NEW i \in PeerId,
           \/ Traffic(j)
           \/ \E ks \in SUBSET WGKey :
                 Remove(j, ks) \/ \E k \in KeysOf[j] : Register(j, k, ks)
    PROVE  /\ UNCHANGED <<pump, lastUsage, got>> /\ lossy \subseteq lossy'
           /\ \/ /\ key[i] \in KeysOf[i] /\ key'[i] = key[i] /\ moved'[i] = moved[i] + 1
                 /\ \A k \in KeysOf[i] : ctr'[k] = IF k = key[i] THEN ctr[k] + 1 ELSE ctr[k]
              \/ /\ moved'[i] = moved[i]
                 /\ \A k \in KeysOf[i] : ctr'[k] = ctr[k] \/ ctr'[k] = 0
                 /\ \/ moved[i] = 0 \/ i \in lossy'
                    \/ /\ key'[i] = key[i]
                       /\ key[i] \in KeysOf[i] => ctr'[key[i]] = ctr[key[i]]
<1>1. /\ key \in [PeerId -> WGKey \cup {NoKey}] /\ ctr \in [WGKey -> Nat]
      /\ moved \in [PeerId -> 0 .. MaxBytes] /\ moved[i] \in Nat
      /\ KeysOf[i] \subseteq WGKey /\ NoKey \notin KeysOf[i]
      /\ key[i] \in KeysOf[i] \cup {NoKey} /\ key[j] \in KeysOf[j] \cup {NoKey}
  BY ClientTypes, KeyType, Zenon DEF TypeOK, KeysOwned
<1>2. CASE Traffic(j)
  <2>1. UNCHANGED <<key, pump, lastUsage, got, lossy>> /\ key[j] # NoKey
    BY <1>2, Zenon DEF Traffic
  <2>2. CASE i = j
    <3>1. moved'[i] = moved[i] + 1
      BY <1>1, <1>2, <2>2, Zenon DEF Traffic
    <3>2. \A k \in KeysOf[i] : ctr'[k] = IF k = key[i] THEN ctr[k] + 1 ELSE ctr[k]
      BY <1>1, <1>2, <2>2, Zenon DEF Traffic
    <3>. QED
      BY <1>1, <2>1, <2>2, <3>1, <3>2, Zenon
  <2>3. CASE i # j
    <3>1. key[j] \notin KeysOf[i]
      BY <1>1, <2>1, <2>3, Zenon DEF DisjointKeys
    <3>2. moved'[i] = moved[i]
      BY <1>1, <1>2, <2>3, Zenon DEF Traffic
    <3>3. \A k \in KeysOf[i] : ctr'[k] = ctr[k]
      BY <1>1, <1>2, <3>1, ZenonT(30) DEF Traffic
    <3>. QED
      BY <2>1, <3>2, <3>3, Zenon
  <2>. QED
    BY <2>2, <2>3, Zenon
<1>3. ASSUME NEW ks \in SUBSET WGKey, Remove(j, ks)
      PROVE  /\ UNCHANGED <<pump, lastUsage, got>> /\ lossy \subseteq lossy'
             /\ moved'[i] = moved[i]
             /\ \A k \in KeysOf[i] : ctr'[k] = ctr[k] \/ ctr'[k] = 0
             /\ \/ moved[i] = 0 \/ i \in lossy'
                \/ /\ key'[i] = key[i]
                   /\ key[i] \in KeysOf[i] => ctr'[key[i]] = ctr[key[i]]
  <2>1. UNCHANGED <<moved, pump, lastUsage, got>> /\ lossy \subseteq lossy'
    BY <1>3, Zenon DEF Remove
  <2>2. \A x \in WGKey : ctr'[x] = IF x \in ks THEN 0 ELSE ctr[x]
    BY <1>3, Zenon DEF Remove
  <2>3. key'[i] = IF i = j THEN NoKey ELSE key[i]
    BY <1>1, <1>3, Zenon DEF Remove
  <2>4. moved[i] > 0 /\ (i = j \/ key[i] \in ks) => i \in lossy'
    BY <1>3, ZenonT(30) DEF Remove, Counted
  <2>. QED
    BY <1>1, <2>1, <2>2, <2>3, <2>4
<1>4. ASSUME NEW ks \in SUBSET WGKey, NEW n \in KeysOf[j], Register(j, n, ks)
      PROVE  /\ UNCHANGED <<pump, lastUsage, got>> /\ lossy \subseteq lossy'
             /\ moved'[i] = moved[i]
             /\ \A k \in KeysOf[i] : ctr'[k] = ctr[k] \/ ctr'[k] = 0
             /\ \/ moved[i] = 0 \/ i \in lossy'
                \/ /\ key'[i] = key[i]
                   /\ key[i] \in KeysOf[i] => ctr'[key[i]] = ctr[key[i]]
  <2>1. UNCHANGED <<moved, pump, lastUsage, got>> /\ lossy \subseteq lossy'
    BY <1>4, Zenon DEF Register
  <2>2. \A x \in WGKey : ctr'[x] = IF x \in ks \/ (x = n /\ key[j] # n) THEN 0 ELSE ctr[x]
    BY <1>4, Zenon DEF Register
  <2>3. key'[i] = IF i = j THEN n ELSE key[i]
    BY <1>1, <1>4, Zenon DEF Register
  <2>4. moved[i] > 0 /\ (key[i] \in ks \/ (i = j /\ key[i] # n)) => i \in lossy'
    BY <1>4, Zenon DEF Register, Counted
  <2>5. i # j => key[i] # n
    BY <1>4, Zenon DEF Register
  <2>. QED
    BY <1>1, <2>1, <2>2, <2>3, <2>4, <2>5
<1>. QED
  BY <1>2, <1>3, <1>4, Zenon

LEMMA AddsUpOnDevice ==
    ASSUME DisjointKeys, AddInv, TypeOK', KeysOwned', NEW j \in PeerId, NEW i \in PeerId,
           \/ Traffic(j)
           \/ \E ks \in SUBSET WGKey :
                 Remove(j, ks) \/ \E k \in KeysOf[j] : Register(j, k, ks)
    PROVE  BoundedAt(i)' /\ (i \notin lossy' => ExactAt(i)')
<1>1. TypeOK /\ KeysOwned /\ BoundedAt(i) /\ (i \notin lossy => ExactAt(i))
  BY Zenon DEF AddInv
<1>2. /\ got[i] \in Nat /\ frame[i] \in Nat /\ moved[i] \in Nat /\ lastUsage[i] \in Nat
      /\ \A k \in KeysOf[i] : k # NoKey /\ ctr[k] \in Nat /\ seen[k] \in Nat \cup {Gone}
      /\ key[i] \in KeysOf[i] \cup {NoKey} /\ byKey[i] \in KeysOf[i] \cup {NoKey}
      /\ i \in Covered => byKey[i] \in KeysOf[i] /\ seen[byKey[i]] \in Nat
  BY <1>1, ClientTypes, Zenon
<1>3. key'[i] \in KeysOf[i] \cup {NoKey}
  BY Zenon DEF KeysOwned
<1>4. /\ got' = got /\ frame' = frame /\ lastUsage' = lastUsage /\ pc' = pc
      /\ byKey' = byKey /\ seen' = seen /\ lossy \subseteq lossy'
  BY <1>1, DeviceEffect, Zenon DEF pump
<1>5. Covered' = Covered
  BY <1>4, Zenon DEF Covered
<1>6. CASE /\ key[i] \in KeysOf[i] /\ key'[i] = key[i] /\ moved'[i] = moved[i] + 1
           /\ \A k \in KeysOf[i] : ctr'[k] = IF k = key[i] THEN ctr[k] + 1 ELSE ctr[k]
  <2>1. BoundedAt(i)'
    BY <1>1, <1>2, <1>4, <1>6, SMTT(30) DEF BoundedAt, Gone
  <2>2. i \notin lossy' => ExactAt(i)'
    BY <1>1, <1>2, <1>4, <1>5, <1>6 DEF ExactAt
  <2>. QED
    BY <2>1, <2>2, Zenon
<1>7. CASE /\ moved'[i] = moved[i]
           /\ \A k \in KeysOf[i] : ctr'[k] = ctr[k] \/ ctr'[k] = 0
           /\ \/ moved[i] = 0 \/ i \in lossy'
              \/ /\ key'[i] = key[i]
                 /\ key[i] \in KeysOf[i] => ctr'[key[i]] = ctr[key[i]]
  <2>1. BoundedAt(i)'
    BY <1>1, <1>2, <1>4, <1>7 DEF BoundedAt
  <2>2. CASE moved[i] = 0
    <3>1. /\ got[i] = 0 /\ frame[i] = 0 /\ lastUsage[i] = 0
          /\ \A k \in KeysOf[i] : ctr[k] = 0 /\ (seen[k] = 0 \/ seen[k] = Gone)
      BY <1>1, <2>2, NothingMoved, ZenonT(30)
    <3>2. /\ got'[i] = 0 /\ frame'[i] = 0 /\ lastUsage'[i] = 0 /\ moved'[i] = 0
          /\ \A k \in KeysOf[i] : ctr'[k] = 0
          /\ i \in Covered' => byKey'[i] \in KeysOf[i] /\ seen'[byKey'[i]] = 0
      BY <1>2, <1>4, <1>5, <1>7, <2>2, <3>1 DEF Gone
    <3>. QED
      BY <1>3, <2>1, <3>2 DEF ExactAt
  <2>3. CASE i \notin lossy' /\ key'[i] = key[i] /\ (key[i] \in KeysOf[i] => ctr'[key[i]] = ctr[key[i]])
    BY <1>1, <1>2, <1>4, <1>5, <1>7, <2>1, <2>3, Zenon DEF ExactAt
  <2>. QED
    BY <1>7, <2>1, <2>2, <2>3, ZenonT(30)
<1>. QED
  BY <1>1, <1>6, <1>7, DeviceEffect, ZenonT(30)

LEMMA AddsUpInDiff ==
    ASSUME AddInv, Diff, NEW i \in PeerId
    PROVE  BoundedAt(i)' /\ (i \notin lossy' => ExactAt(i)')
<1>1. TypeOK /\ KeysOwned /\ FrameSent /\ BoundedAt(i) /\ (i \notin lossy => ExactAt(i))
  BY Zenon DEF AddInv
<1>2. /\ got[i] \in Nat /\ moved[i] \in Nat /\ lastUsage[i] \in Nat
      /\ \A k \in KeysOf[i] : k # NoKey /\ ctr[k] \in Nat /\ k \in WGKey
      /\ key[i] \in KeysOf[i] \cup {NoKey}
      /\ i \in Covered => byKey[i] \in KeysOf[i] /\ byKey[i] # NoKey /\ seen[byKey[i]] \in Nat
  BY <1>1, ClientTypes, Zenon
<1>3. frame[i] = 0
  BY <1>1, Zenon DEF FrameSent, Zero, Diff
<1>4. /\ got' = got /\ moved' = moved /\ ctr' = ctr /\ key' = key /\ lossy' = lossy
      /\ pc = "diff" /\ pc' = "send" /\ \A k \in WGKey : seen'[k] = Gone
      /\ frame'[i] = IF i \in Covered THEN Delta(seen[byKey[i]], lastUsage[i]) ELSE 0
      /\ lastUsage'[i] = IF i \in Covered THEN seen[byKey[i]] ELSE lastUsage[i]
  BY Zenon DEF Diff, device, AllGone
<1>5. BoundedAt(i)'
  <2>1. lastUsage'[i] <= moved[i]
    BY <1>1, <1>2, <1>4, ZenonT(30) DEF BoundedAt
  <2>2. moved[i] = 0 => frame'[i] = 0 /\ got'[i] = 0
    <3>. SUFFICES ASSUME moved[i] = 0
                  PROVE  frame'[i] = 0 /\ got'[i] = 0
      BY Zenon
    <3>1. got[i] = 0 /\ \A k \in KeysOf[i] : seen[k] = 0 \/ seen[k] = Gone
      BY <1>1, NothingMoved, Zenon
    <3>2. lastUsage[i] = 0
      BY <1>1, NothingMoved, Zenon
    <3>. QED
      BY <1>2, <1>4, <3>1, <3>2 DEF Delta, Gone
  <2>3. \A k \in KeysOf[i] : ctr'[k] <= moved'[i] /\ seen'[k] <= moved'[i]
    BY <1>1, <1>2, <1>4 DEF BoundedAt, Gone
  <2>. QED
    BY <1>4, <2>1, <2>2, <2>3, Zenon DEF BoundedAt
<1>6. ASSUME i \notin lossy'
      PROVE  ExactAt(i)'
  <2>1. ExactAt(i)
    BY <1>1, <1>4, <1>6, Zenon
  <2>2. CASE key[i] = NoKey
    BY <1>4, <2>1, <2>2, Zenon DEF ExactAt
  <2>3. CASE key[i] # NoKey
    <3>1. /\ key[i] \in KeysOf[i] /\ lastUsage[i] <= ctr[key[i]]
          /\ got[i] + ctr[key[i]] = moved[i] + lastUsage[i]
      BY <1>2, <1>3, <2>1, <2>3 DEF ExactAt
    <3>2. CASE i \in Covered /\ byKey[i] = key[i]
      <4>1. lastUsage[i] <= seen[key[i]] /\ seen[key[i]] <= ctr[key[i]]
        BY <1>4, <2>1, <2>3, <3>2, ZenonT(30) DEF ExactAt
      <4>2. frame'[i] = seen[key[i]] - lastUsage[i] /\ lastUsage'[i] = seen[key[i]]
        BY <1>2, <1>4, <3>2, <4>1 DEF Delta
      <4>. QED
        BY <1>2, <1>4, <2>3, <3>1, <3>2, <4>1, <4>2 DEF ExactAt
    <3>3. CASE i \in Covered /\ byKey[i] # key[i]
      <4>1. lastUsage[i] = 0 /\ seen[byKey[i]] = 0
        BY <1>2, <1>4, <2>1, <2>3, <3>3, Zenon DEF ExactAt
      <4>2. frame'[i] = 0 /\ lastUsage'[i] = 0
        BY <1>4, <3>3, <4>1 DEF Delta
      <4>. QED
        BY <1>2, <1>4, <2>3, <3>1, <4>1, <4>2 DEF ExactAt
    <3>4. CASE i \notin Covered
      BY <1>2, <1>4, <2>3, <3>1, <3>4 DEF ExactAt
    <3>. QED
      BY <3>2, <3>3, <3>4, Zenon
  <2>. QED
    BY <2>2, <2>3, Zenon
<1>. QED
  BY <1>5, <1>6, Zenon

LEMMA AddsUpElsewhere ==
    ASSUME DisjointKeys, AddInv, NEW i \in PeerId,
           \/ ReadPeers \/ ReadPeersFails \/ ReadTransfers \/ ReadTransfersFails
           \/ Delivered \/ WriteFails
           \/ PumpEnds \/ Connect \/ Disconnect \/ Restart \/ UNCHANGED vars
    PROVE  BoundedAt(i)' /\ (i \notin lossy' => ExactAt(i)')
<1>1. TypeOK /\ KeysOwned /\ FrameSent /\ BoundedAt(i) /\ (i \notin lossy => ExactAt(i))
  BY Zenon DEF AddInv
<1>2. /\ got[i] \in Nat /\ frame[i] \in Nat /\ moved[i] \in Nat /\ lastUsage[i] \in Nat
      /\ \A k \in KeysOf[i] : k \in WGKey /\ k # NoKey /\ ctr[k] \in Nat
      /\ key[i] \in KeysOf[i] \cup {NoKey} /\ byKey[i] \in KeysOf[i] \cup {NoKey}
  BY <1>1, ClientTypes, Zenon
<1>3. CASE ReadPeers
  <2>1. /\ got' = got /\ frame' = frame /\ moved' = moved /\ lastUsage' = lastUsage
        /\ ctr' = ctr /\ seen' = seen /\ key' = key /\ lossy' = lossy
        /\ pc' = "transfers" /\ byKey' = key
    BY <1>3, Zenon DEF ReadPeers, device
  <2>. QED
    BY <1>1, <2>1, Zenon DEF BoundedAt, ExactAt
<1>4. CASE ReadPeersFails \/ PumpEnds \/ Connect
  <2>1. /\ got' = got /\ frame' = frame /\ moved' = moved /\ lastUsage' = lastUsage
        /\ ctr' = ctr /\ seen' = seen /\ key' = key /\ lossy' = lossy
        /\ pc' \notin {"transfers", "diff"}
    BY <1>4, Zenon DEF ReadPeersFails, PumpEnds, Connect, device
  <2>. QED
    BY <1>1, <2>1, Zenon DEF BoundedAt, ExactAt
<1>5. CASE Disconnect \/ UNCHANGED vars
  <2>1. /\ got' = got /\ frame' = frame /\ moved' = moved /\ lastUsage' = lastUsage
        /\ ctr' = ctr /\ seen' = seen /\ key' = key /\ lossy' = lossy
        /\ pc' = pc /\ byKey' = byKey
    BY <1>5, Zenon DEF Disconnect, vars, device, pump
  <2>. QED
    BY <1>1, <2>1, Zenon DEF BoundedAt, ExactAt, Covered
<1>6. CASE ReadTransfers
  <2>1. /\ got' = got /\ frame' = frame /\ moved' = moved /\ lastUsage' = lastUsage
        /\ ctr' = ctr /\ key' = key /\ lossy' = lossy /\ byKey' = byKey
        /\ pc = "transfers" /\ pc' = "diff"
        /\ \A k \in WGKey : seen'[k] = IF OnDevice(k) THEN ctr[k] ELSE Gone
    BY <1>6, ZenonT(30) DEF ReadTransfers, device
  <2>2. BoundedAt(i)'
    BY <1>1, <1>2, <2>1 DEF BoundedAt, Gone
  <2>3. i \in Covered' => byKey[i] = key[i] /\ seen'[key[i]] = ctr[key[i]]
    <3>. SUFFICES ASSUME i \in Covered'
                  PROVE  byKey[i] = key[i] /\ seen'[key[i]] = ctr[key[i]]
      BY Zenon
    <3>1. byKey[i] \in KeysOf[i] /\ byKey[i] \in WGKey /\ seen'[byKey[i]] # Gone
      BY <1>2, <2>1, Zenon DEF Covered
    <3>2. PICK j \in PeerId : key[j] = byKey[i]
      BY <2>1, <3>1, Zenon DEF OnDevice
    <3>3. key[j] \in KeysOf[j]
      BY <1>1, <1>2, <3>1, <3>2, Zenon DEF KeysOwned
    <3>4. j = i
      BY <3>1, <3>2, <3>3, ZenonT(30) DEF DisjointKeys
    <3>. QED
      BY <2>1, <3>1, <3>2, <3>4, Zenon
  <2>4. i \notin lossy' => ExactAt(i)'
    BY <1>1, <1>2, <2>1, <2>3, SMTT(30) DEF ExactAt
  <2>. QED
    BY <2>2, <2>4, Zenon
<1>7. CASE Delivered
  <2>1. /\ moved' = moved /\ lastUsage' = lastUsage /\ ctr' = ctr /\ seen' = seen
        /\ key' = key /\ lossy' = lossy /\ pc' = "idle"
        /\ got'[i] = got[i] + frame[i] /\ frame'[i] = 0
    BY <1>7, ZenonT(30) DEF Delivered, device, Zero
  <2>2. BoundedAt(i)'
    BY <1>1, <1>2, <2>1, SMTT(30) DEF BoundedAt
  <2>3. i \notin lossy' => ExactAt(i)'
    BY <1>1, <1>2, <2>1, SMTT(30) DEF ExactAt
  <2>. QED
    BY <2>2, <2>3, Zenon
<1>8. CASE WriteFails
  <2>1. /\ moved' = moved /\ lastUsage' = lastUsage /\ ctr' = ctr /\ seen' = seen
        /\ key' = key /\ pc' = "ended" /\ got' = got /\ frame'[i] = 0
        /\ lossy \subseteq lossy' /\ (frame[i] > 0 => i \in lossy')
    BY <1>8, Zenon DEF WriteFails, device, Zero
  <2>. QED
    BY <1>1, <1>2, <2>1 DEF BoundedAt, ExactAt
<1>9. CASE Restart
  <2>1. /\ moved' = moved /\ lastUsage'[i] = 0 /\ key' = key /\ pc' = "ended"
        /\ got' = got /\ frame'[i] = 0 /\ (moved[i] > 0 => i \in lossy')
        /\ \A k \in WGKey : seen'[k] = Gone /\ (ctr'[k] = 0 \/ ctr'[k] = ctr[k])
    BY <1>9, ZenonT(30) DEF Restart, Zero, AllGone
  <2>2. BoundedAt(i)'
    BY <1>1, <1>2, <2>1, SMTT(30) DEF BoundedAt, Gone
  <2>3. ASSUME i \notin lossy'
        PROVE  ExactAt(i)'
    <3>1. moved[i] = 0
      BY <1>2, <2>1, <2>3
    <3>2. got[i] = 0 /\ \A k \in KeysOf[i] : ctr[k] = 0
      BY <1>1, <3>1, NothingMoved, Zenon
    <3>. QED
      BY <1>2, <2>1, <3>1, <3>2 DEF ExactAt
  <2>. QED
    BY <2>2, <2>3, Zenon
<1>10. CASE ReadTransfersFails
  <2>1. /\ got' = got /\ frame' = frame /\ moved' = moved /\ lastUsage' = lastUsage
        /\ ctr' = ctr /\ key' = key /\ lossy' = lossy /\ byKey' = byKey
        /\ pc = "transfers" /\ i \notin Covered'
        /\ \A k \in WGKey : seen'[k] = Gone
    BY <1>1, <1>10, FailedReadCovers, ZenonT(30) DEF ReadTransfersFails, device, AllGone
  <2>2. BoundedAt(i)'
    BY <1>1, <1>2, <2>1 DEF BoundedAt, Gone
  <2>3. i \notin lossy' => ExactAt(i)'
    BY <1>1, <2>1, Zenon DEF ExactAt
  <2>. QED
    BY <2>2, <2>3, Zenon
<1>. QED
  BY <1>3, <1>4, <1>5, <1>6, <1>7, <1>8, <1>9, <1>10, Zenon

LEMMA AddInvInitial == Init => AddInv
<1>. SUFFICES ASSUME Init
              PROVE  AddInv
  BY Zenon
<1>1. TypeOK /\ KeysOwned /\ FrameSent
  BY UsageInvInitial, Zenon DEF UsageInv
<1>2. ASSUME NEW i \in PeerId
      PROVE  BoundedAt(i) /\ ExactAt(i)
  <2>1. /\ key[i] = NoKey /\ moved[i] = 0 /\ lastUsage[i] = 0 /\ got[i] = 0 /\ frame[i] = 0
        /\ \A k \in WGKey : ctr[k] = 0 /\ seen[k] = Gone
    BY Zenon DEF Init, NoKeys, Zero, AllGone
  <2>. QED
    BY <2>1, KeyType DEF BoundedAt, ExactAt, Gone
<1>. QED
  BY <1>1, <1>2, Zenon DEF AddInv

LEMMA AddInvInductive == DisjointKeys /\ AddInv /\ [Next]_vars => AddInv'
<1>. SUFFICES ASSUME DisjointKeys, AddInv, [Next]_vars
              PROVE  AddInv'
  BY Zenon
<1>1. TypeOK' /\ KeysOwned' /\ FrameSent'
  BY TypeOKStep, Zenon DEF AddInv
<1>2. ASSUME NEW i \in PeerId
      PROVE  BoundedAt(i)' /\ (i \notin lossy' => ExactAt(i)')
  BY <1>1, AddsUpOnDevice, AddsUpInDiff, AddsUpElsewhere, Zenon DEF Next, Report
<1>. QED
  BY <1>1, <1>2, Zenon DEF AddInv

(* ReportsAddUp for any number of clients and bytes, when no two clients   *)
(* use the same key, whether or not a start recreates the device: between  *)
(* two reports what the gateway was told and what BuildUsageReport would   *)
(* tell it add up to what the client moved, unless a report of it was lost *)
(* or its counter restarted.                                               *)
THEOREM ReportsStayExact ==
    ASSUME DisjointKeys
    PROVE  Spec => []ReportsAddUp
<1>1. AddInv => ReportsAddUp
  <2>. SUFFICES ASSUME AddInv, pc # "send", NEW i \in PeerId \ lossy, key[i] # NoKey
                PROVE  got[i] + Delta(ctr[key[i]], lastUsage[i]) = moved[i]
    BY Zenon DEF ReportsAddUp
  <2>1. frame[i] = 0
    BY Zenon DEF AddInv, FrameSent, Zero
  <2>2. /\ lastUsage[i] <= ctr[key[i]]
        /\ got[i] + frame[i] + ctr[key[i]] = moved[i] + lastUsage[i]
    BY Zenon DEF AddInv, ExactAt
  <2>3. got[i] \in Nat /\ moved[i] \in Nat /\ lastUsage[i] \in Nat /\ ctr[key[i]] \in Nat
    BY ClientTypes, Zenon DEF AddInv
  <2>4. Delta(ctr[key[i]], lastUsage[i]) = ctr[key[i]] - lastUsage[i]
    BY <2>2, <2>3 DEF Delta
  <2>5. got[i] + ctr[key[i]] = moved[i] + lastUsage[i]
    BY <2>1, <2>2, <2>3
  <2>. QED
    BY <2>3, <2>4, <2>5
<1>. QED
  BY <1>1, AddInvInitial, AddInvInductive, PTL DEF Spec

-----------------------------------------------------------------------------
(* The meter                                                               *)

(* Traffic is a movement of the meter.                                     *)
LEMMA TrafficMoves ==
    ASSUME TypeOK, NEW i \in PeerId, Traffic(i)
    PROVE  Meter!Next
<1>1. Meter!Move(i)
  BY Zenon DEF Traffic, Meter!Move
<1>2. QED
  BY <1>1, Zenon DEF Meter!Next

LEMMA DeliveryTells ==
    ASSUME UsageInv, NeverOverReported, Delivered
    PROVE  Meter!Next
<1>1. /\ got \in [PeerId -> Nat] /\ frame \in [PeerId -> Nat]
      /\ moved \in [PeerId -> 0 .. MaxBytes]
  BY Zenon DEF UsageInv, TypeOK
<1>2. got' = [i \in PeerId |-> got[i] + frame[i]] /\ UNCHANGED moved
  BY Zenon DEF Delivered, device
<1>3. got' \in [PeerId -> Nat]
  BY <1>1, <1>2
<1>4. ASSUME NEW i \in PeerId
      PROVE  got[i] <= got'[i] /\ got'[i] <= moved[i]
  <2>1. got[i] \in Nat /\ frame[i] \in Nat /\ got'[i] = got[i] + frame[i]
    BY <1>1, <1>2, Zenon
  <2>2. got[i] + frame[i] <= moved[i]
    BY Zenon DEF NeverOverReported
  <2>3. QED
    BY <2>1, <2>2
<1>5. Meter!Tell
  BY <1>2, <1>3, <1>4, Zenon DEF Meter!Tell
<1>6. QED
  BY <1>5, Zenon DEF Meter!Next

LEMMA StepOfMeter ==
    ASSUME UsageInv, NeverOverReported, [Next]_vars
    PROVE  [Meter!Next]_(Meter!vars)
<1>1. CASE \E i \in PeerId : Traffic(i)
  BY <1>1, TrafficMoves, Zenon DEF UsageInv
<1>2. CASE Delivered
  BY <1>2, DeliveryTells, Zenon
<1>3. CASE UNCHANGED <<moved, got>>
  BY <1>3, Zenon DEF Meter!vars
<1>4. ASSUME NEW i, NEW k, NEW ks, Remove(i, ks) \/ Register(i, k, ks)
      PROVE  UNCHANGED <<moved, got>>
  BY <1>4, Zenon DEF Remove, Register
<1>5. CASE Report
  BY <1>3, <1>5, Zenon DEF Report, ReadPeers, ReadPeersFails, ReadTransfers, ReadTransfersFails,
                         Diff, device
<1>6. CASE WriteFails \/ PumpEnds \/ Connect \/ Disconnect \/ Restart
  BY <1>3, <1>6, Zenon DEF WriteFails, PumpEnds, Connect, Disconnect, Restart, device
<1>7. CASE UNCHANGED vars
  BY <1>3, <1>7, Zenon DEF vars, device
<1>8. QED
  BY <1>1, <1>2, <1>3, <1>4, <1>5, <1>6, <1>7, Zenon DEF Next

(* To the gateway the node is a meter: what it was told of a client never  *)
(* goes back and never runs ahead of what the client moved, through every  *)
(* restart of a counter, of a session and of the node, and a report says   *)
(* something new or nothing (BuildUsageReport, writePump).                 *)
THEOREM UsageImplementsMeter ==
    ASSUME OwnKeys
    PROVE  Spec => ImplementsMeter
<1>1. Init => UsageInv /\ Meter!Init
  BY UsageInvInitial, Zenon DEF Init, Zero, Meter!Init
<1>2. UsageInv /\ [Next]_vars => UsageInv'
  BY UsageInvInductive, Zenon
<1>3. UsageInv /\ NeverOverReported /\ [Next]_vars => [Meter!Next]_(Meter!vars)
  BY StepOfMeter, Zenon
<1>4. QED
  BY <1>1, <1>2, <1>3, UsageNeverOverReported, PTL DEF Spec, ImplementsMeter, Meter!Spec
=============================================================================

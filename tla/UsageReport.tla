---------------------------- MODULE UsageReport ----------------------------
(***************************************************************************)
(* Usage accounting: GatewayBridge.BuildUsageReport turns the device's     *)
(* cumulative transfer counters into per-client deltas, and the write pump *)
(* of the gateway session sends them (internal/node/gateway.go,            *)
(* internal/gatewayclient/client.go).                                      *)
(*                                                                         *)
(* The device counts per key; a counter restarts at 0 when its key is      *)
(* added, and possibly whenever the peer list is replaced (ReplacePeers).  *)
(* The bridge remembers, per client id, the counter of its last report.    *)
(* One counter stands for both directions, which are treated alike.  A     *)
(* row and its peer on the device change in one step: the time between the *)
(* commit and Apply, and an Apply that fails, are those of Provisioning.   *)
(*                                                                         *)
(* A write pump outlives its session until it next writes: session returns *)
(* as soon as one of its two pumps ends, and closes the socket.  It writes *)
(* a ping every 27s and the pump of the next session builds no report      *)
(* before 60s, so one pump at a time is building or sending a report.      *)
(***************************************************************************)
EXTENDS Integers

CONSTANTS
    PeerId,     \* client ids
    KeysOf,     \* the keys a client registers, by id
    InitFails,  \* TRUE: Manager.Init may fail before it recreates the device
    MaxBytes,   \* bound on the bytes a client moves
    NoKey       \* "not registered"

WGKey == UNION {KeysOf[i] : i \in PeerId}

ASSUME UsageAssumption ==
    /\ MaxBytes \in Nat
    /\ InitFails \in BOOLEAN
    /\ NoKey \notin WGKey

VARIABLES
    key,        \* the peer table and the device's peers: id -> key
    ctr,        \* the device's counters: key -> bytes
    moved,      \* history: the bytes each client moved
    lastUsage,  \* GatewayBridge.lastUsage; a missing entry is 0
    pc,         \* where the pump stands
    byKey,      \* the table as the pump read it: id -> key
    seen,       \* the counters as the pump read them: key -> bytes or Gone
    frame,      \* the deltas of the pump's report: id -> bytes
    open,       \* its socket is open
    got,        \* the bytes the gateway was told of, per client
    lossy       \* history: clients that lost a report or whose counter restarted

device == <<key, ctr, moved>>
pump == <<pc, byKey, seen, frame, open>>
vars == <<device, pump, lastUsage, got, lossy>>

Gone == -1      \* the device has no such key

Zero == [i \in PeerId |-> 0]
NoKeys == [i \in PeerId |-> NoKey]
AllGone == [k \in WGKey |-> Gone]

OnDevice(k) == \E i \in PeerId : key[i] = k

-----------------------------------------------------------------------------
(* The device                                                              *)

Traffic(i) ==
    /\ key[i] # NoKey
    /\ moved[i] < MaxBytes
    /\ moved' = [moved EXCEPT ![i] = @ + 1]
    /\ ctr' = [ctr EXCEPT ![key[i]] = @ + 1]
    /\ UNCHANGED <<key, pump, lastUsage, got, lossy>>

(* The clients that have moved bytes and whose key is in ks.               *)
Counted(ks) == {i \in PeerId : moved[i] > 0 /\ key[i] \in ks}

(* A PUT gives client i key k, its old one or another, and replaces the    *)
(* peer list: the counters of the keys in ks restart.                      *)
Register(i, k, ks) ==
    /\ \A j \in PeerId \ {i} : key[j] # k
    /\ key' = [key EXCEPT ![i] = k]
    /\ ctr' = [x \in WGKey |-> IF x \in ks \/ (x = k /\ key[i] # k) THEN 0 ELSE ctr[x]]
    /\ lossy' = lossy \cup Counted(ks) \cup (IF key[i] # k THEN Counted({key[i]}) ELSE {})
    /\ UNCHANGED <<moved, pump, lastUsage, got>>

(* A DELETE takes the key away; lastUsage keeps the client's entry.        *)
Remove(i, ks) ==
    /\ key[i] # NoKey
    /\ key' = [key EXCEPT ![i] = NoKey]
    /\ ctr' = [x \in WGKey |-> IF x \in ks THEN 0 ELSE ctr[x]]
    /\ lossy' = lossy \cup Counted(ks \cup {key[i]})
    /\ UNCHANGED <<moved, pump, lastUsage, got>>

-----------------------------------------------------------------------------
(* BuildUsageReport, in the order of its reads                             *)

(* Mutant: the map from keys to clients stays empty.                       *)
ReadPeersEmpty ==
    /\ pc = "idle"
    /\ pc' = "transfers"
    /\ byKey' = NoKeys
    /\ UNCHANGED <<device, seen, frame, open, lastUsage, got, lossy>>

ReadPeers ==
    /\ pc = "idle"
    /\ pc' = "transfers"
    /\ byKey' = key
    /\ UNCHANGED <<device, seen, frame, open, lastUsage, got, lossy>>

(* ListPeers fails: an empty report.                                       *)
ReadPeersFails ==
    /\ pc = "idle"
    /\ pc' = "send"
    /\ UNCHANGED <<device, byKey, seen, frame, open, lastUsage, got, lossy>>

ReadTransfers ==
    /\ pc = "transfers"
    /\ pc' = "diff"
    /\ seen' = [k \in WGKey |-> IF OnDevice(k) THEN ctr[k] ELSE Gone]
    /\ UNCHANGED <<device, byKey, frame, open, lastUsage, got, lossy>>

(* PeerTransfers cannot read the device and returns no transfers: the      *)
(* report covers nobody and lastUsage stays.                               *)
ReadTransfersFails ==
    /\ pc = "transfers"
    /\ pc' = "diff"
    /\ seen' = AllGone
    /\ UNCHANGED <<device, byKey, frame, open, lastUsage, got, lossy>>

(* Mutant: the counter itself is reported.                                 *)
DeltaAbsolute(now, prev) == now

(* Mutant: a counter that restarted gives a negative delta.                *)
DeltaSigned(now, prev) == now - prev

(* A counter below the last report has restarted: all of it is new.        *)
Delta(now, prev) == IF now < prev THEN now ELSE now - prev

(* The clients a report covers: known by the table read and seen on the    *)
(* device.                                                                 *)
Covered == {i \in PeerId : byKey[i] # NoKey /\ seen[byKey[i]] # Gone}

(* Mutant: the counter that is remembered is read again.                   *)
DiffRereads ==
    /\ pc = "diff"
    /\ pc' = "send"
    /\ frame' = [i \in PeerId |->
                    IF i \in Covered THEN Delta(seen[byKey[i]], lastUsage[i]) ELSE 0]
    /\ lastUsage' = [i \in PeerId |->
                    IF i \in Covered THEN ctr[byKey[i]] ELSE lastUsage[i]]
    /\ byKey' = NoKeys
    /\ seen' = AllGone
    /\ UNCHANGED <<device, open, got, lossy>>

(* The locked part: deltas, and the counters they were taken from.         *)
Diff ==
    /\ pc = "diff"
    /\ pc' = "send"
    /\ frame' = [i \in PeerId |->
                    IF i \in Covered THEN Delta(seen[byKey[i]], lastUsage[i]) ELSE 0]
    /\ lastUsage' = [i \in PeerId |->
                    IF i \in Covered THEN seen[byKey[i]] ELSE lastUsage[i]]
    /\ byKey' = NoKeys
    /\ seen' = AllGone
    /\ UNCHANGED <<device, open, got, lossy>>

-----------------------------------------------------------------------------
(* The write pump                                                          *)

Delivered ==
    /\ pc = "send"
    /\ open
    /\ got' = [i \in PeerId |-> got[i] + frame[i]]
    /\ frame' = Zero
    /\ pc' = "idle"
    /\ UNCHANGED <<device, byKey, seen, open, lastUsage, lossy>>

(* The socket is closed or breaks: the pump ends and the report with it.   *)
WriteFails ==
    /\ pc = "send"
    /\ lossy' = lossy \cup {i \in PeerId : frame[i] > 0}
    /\ frame' = Zero
    /\ pc' = "ended"
    /\ open' = FALSE
    /\ UNCHANGED <<device, byKey, seen, lastUsage, got>>

(* A heartbeat or a ping finds the socket closed.                          *)
PumpEnds ==
    /\ pc = "idle"
    /\ ~open
    /\ pc' = "ended"
    /\ UNCHANGED <<device, byKey, seen, frame, open, lastUsage, got, lossy>>

(* The read pump ends: the socket is closed under the write pump.          *)
Disconnect ==
    /\ open
    /\ open' = FALSE
    /\ UNCHANGED <<device, pc, byKey, seen, frame, lastUsage, got, lossy>>

Connect ==
    /\ ~open
    /\ pc = "ended"
    /\ open' = TRUE
    /\ pc' = "idle"
    /\ UNCHANGED <<device, byKey, seen, frame, lastUsage, got, lossy>>

(* The process restarts with an empty lastUsage.  BringUp recreates the    *)
(* device; when Init fails before it, the old device serves on.            *)
Restart ==
    /\ pc' = "ended"
    /\ byKey' = NoKeys
    /\ seen' = AllGone
    /\ frame' = Zero
    /\ open' = FALSE
    /\ lastUsage' = Zero
    /\ \/ ctr' = [k \in WGKey |-> 0]
       \/ InitFails /\ UNCHANGED ctr
    /\ lossy' = {i \in PeerId : moved[i] > 0}
    /\ UNCHANGED <<key, moved, got>>

-----------------------------------------------------------------------------

Init ==
    /\ key = NoKeys
    /\ ctr = [k \in WGKey |-> 0]
    /\ moved = Zero
    /\ lastUsage = Zero
    /\ pc = "ended"
    /\ byKey = NoKeys
    /\ seen = AllGone
    /\ frame = Zero
    /\ open = FALSE
    /\ got = Zero
    /\ lossy = {}

Report == ReadPeers \/ ReadPeersFails \/ ReadTransfers \/ ReadTransfersFails \/ Diff

Next ==
    \/ \E i \in PeerId :
          \/ Traffic(i)
          \/ \E ks \in SUBSET WGKey :
                Remove(i, ks) \/ \E k \in KeysOf[i] : Register(i, k, ks)
    \/ Report \/ Delivered \/ WriteFails \/ PumpEnds
    \/ Connect \/ Disconnect \/ Restart

Spec == Init /\ [][Next]_vars

(* A live pump keeps ticking and finishes what it does; its reads of the   *)
(* database and of the device do not fail for ever.  Nothing makes         *)
(* clients, the gateway or the network act.                                *)
FairSpec ==
    /\ Spec
    /\ WF_vars(Report \/ Delivered \/ WriteFails)
    /\ SF_vars(ReadPeers)
    /\ SF_vars(ReadTransfers)

-----------------------------------------------------------------------------
(* What the table, the device, the pump and the gateway's totals may be   *)
(* (BuildUsageReport, writePump).                                          *)
TypeOK ==
    /\ key \in [PeerId -> WGKey \cup {NoKey}]
    /\ ctr \in [WGKey -> Nat]
    /\ moved \in [PeerId -> 0 .. MaxBytes]
    /\ lastUsage \in [PeerId -> Nat]
    /\ pc \in {"ended", "idle", "transfers", "diff", "send"}
    /\ byKey \in [PeerId -> WGKey \cup {NoKey}]
    /\ seen \in [WGKey -> Nat \cup {Gone}]
    /\ frame \in [PeerId -> Nat]
    /\ open \in BOOLEAN
    /\ got \in [PeerId -> Nat]
    /\ lossy \in SUBSET PeerId

(* The gateway is never told of more bytes than a client moved, whatever   *)
(* counters restart, reports fail or restarts of the node come in between  *)
(* ("PeerUsage is one client's traffic delta").  This is of clients with   *)
(* keys of their own and of starts that recreate the device: a key that    *)
(* passes to another client takes its counter along, and with InitFails    *)
(* the counters outlive lastUsage.                                         *)
NeverOverReported ==
    \A i \in PeerId : got[i] + frame[i] <= moved[i]

(* While no report waits to be sent, what the gateway was told and what    *)
(* the next report would tell add up to what the client moved, unless one  *)
(* of its reports was lost or its counter restarted (BuildUsageReport).    *)
ReportsAddUp ==
    pc # "send" =>
        \A i \in PeerId \ lossy :
            key[i] # NoKey =>
                got[i] + Delta(ctr[key[i]], lastUsage[i]) = moved[i]

(* To the gateway the node is a meter: what it was told of a client never  *)
(* goes back and never runs ahead of what the client moved, whatever       *)
(* counter, session or node restarts, and only a delivered report tells it *)
(* anything (BuildUsageReport, writePump).  The conditions are those of    *)
(* NeverOverReported.                                                      *)
Meter == INSTANCE Meter WITH Client <- PeerId, told <- got

ImplementsMeter == Meter!Spec

(* While a session stays up, every byte of a client that lost nothing is   *)
(* eventually reported (the usage ticker of writePump), although reads of  *)
(* the table and of the device fail time and again and the reports of such *)
(* rounds are empty.                                                       *)
EventuallyReported ==
    <>[]open => \A i \in PeerId : <>[](i \in lossy \/ got[i] = moved[i])
=============================================================================

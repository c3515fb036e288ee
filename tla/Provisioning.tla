---------------------------- MODULE Provisioning ----------------------------
(***************************************************************************)
(* Peer provisioning: the HTTP handlers of internal/api/peers.go and the   *)
(* gateway commands of internal/node/gateway.go, down to the peer table    *)
(* (PeerStore), the rendered interface config and the WireGuard device.    *)
(*                                                                         *)
(* Handlers run concurrently, one goroutine per HTTP request (Worker) and  *)
(* one command reader per gateway session (Session).  Nothing serialises   *)
(* them but the single database connection, so every database statement,   *)
(* file operation and device call is a step of its own.                    *)
(***************************************************************************)
EXTENDS PeerStore

CONSTANTS
    Worker,     \* HTTP handler goroutines
    Session,    \* gateway command readers
    GoodKey,    \* the keys wgtypes.ParseKey accepts
    GoodPsk,    \* the preshared keys it accepts, "none" being one of them
    Faults,     \* TRUE: databases, disks, devices fail and the node crashes
    None        \* "no request", "no reply"

ASSUME ProvisioningAssumption ==
    /\ GoodKey \subseteq WGKey
    /\ GoodPsk \subseteq PSK
    /\ Faults \in BOOLEAN
    /\ Worker \cap Session = {}

Proc == Worker \cup Session

Status == {"online", "draining"}

PutRequest == [op : {"put"}, id : PeerId, key : WGKey, psk : PSK]
DeleteRequest == [op : {"delete"}, id : PeerId]
ResyncRequest == [op : {"resync"}, keep : SUBSET PeerId]
StatusRequest == [op : {"status"}, to : Status]
Request == PutRequest \cup DeleteRequest \cup ResyncRequest \cup StatusRequest

ASSUME NoneAssumption == None \notin Request

(* The peer part of the config file: a rendering of rows, nothing (just    *)
(* truncated), or what two writers or an interrupted one left.             *)
Rendered(rows) == [state |-> "whole", rows |-> rows]
Empty == [state |-> "empty", rows |-> {}]
Torn == [state |-> "torn", rows |-> {}]
ConfFile == [state : {"whole", "empty", "torn"}, rows : SUBSET Row]

(* Where a handler stands.                                                 *)
ApplyLabel == {"confList", "confTruncate", "confWrite", "list", "sync"}
Label == ApplyLabel \cup {"idle", "upsert", "delete", "resync", "loop", "bridge", "mirror"}

(* The outcome of a handler, before it is rendered: success, the API is    *)
(* draining, the address pool is dry, or any other error.                  *)
Result == {"ok", "draining", "exhausted", "error"}

VARIABLES
    conf,       \* the interface config file
    live,       \* the peer rows configured on the device
    ifup,       \* the device exists
    phase,      \* of the node process: down, booting, up
    status,     \* Server.status, which the handlers test
    bridge,     \* GatewayBridge.status, which the heartbeats report
    pc,         \* where every handler stands
    req,        \* the request it serves
    snap,       \* the rows its last ListPeers returned
    todo,       \* resync: ids still to delete
    missing,    \* resync: listed ids the node does not have
    touched,    \* history: the ids that other handlers added or removed since
                \* this resync read the table
    solo,       \* history: no other handler ran since this one began
    last        \* history: what the latest request asked for, if it was
                \* answered with success and no other ran beside it, until
                \* another begins; a start of the node counts as one

local == <<pc, req, snap, todo, missing, touched, solo>>
vars == <<peers, conf, live, ifup, phase, status, bridge, local, last>>

-----------------------------------------------------------------------------
(* Requests and replies.                                                   *)

Idle(p) == pc[p] = "idle"

AtRest == phase = "up" /\ \A p \in Proc : Idle(p)

(* Handler p starts on request r at step l.                                *)
Begin(p, r, l) ==
    /\ phase = "up"
    /\ Idle(p)
    /\ pc' = [pc EXCEPT ![p] = l]
    /\ req' = [req EXCEPT ![p] = r]
    /\ solo' = [q \in Proc |-> q = p /\ \A o \in Proc \ {p} : Idle(o)]
    /\ last' = "none"
    /\ UNCHANGED <<snap, todo, missing, touched>>

(* Handler p answers with result r; its local state goes with it.          *)
Finish(p, r) ==
    /\ last' = IF solo[p] /\ r = "ok" THEN req[p].op ELSE "none"
    /\ pc' = [pc EXCEPT ![p] = "idle"]
    /\ req' = [req EXCEPT ![p] = None]
    /\ snap' = [snap EXCEPT ![p] = {}]
    /\ todo' = [todo EXCEPT ![p] = {}]
    /\ missing' = [missing EXCEPT ![p] = {}]
    /\ touched' = [touched EXCEPT ![p] = {}]
    /\ solo' = [solo EXCEPT ![p] = FALSE]

(* Handler p goes on to step l.                                            *)
Goto(p, l) ==
    /\ pc' = [pc EXCEPT ![p] = l]
    /\ UNCHANGED <<req, todo, missing, solo, last>>

(* Handler p has read the table for a resync and not answered yet.         *)
Resyncing(p) ==
    pc[p] = "loop" \/ (pc[p] \in ApplyLabel /\ req[p].op = "resync")

(* Handler p changes the table beside the resyncs of others.               *)
Touch(p) ==
    touched' = [q \in Proc |->
        IF q # p /\ Resyncing(q)
        THEN touched[q] \cup {i \in PeerId : (peers[i] = NoPeer) # (peers'[i] = NoPeer)}
        ELSE touched[q]]

World == <<peers, conf, live, ifup, phase, status, bridge>>
NodeOnly == <<phase, status, bridge>>

-----------------------------------------------------------------------------
(* PUT and DELETE /api/v2/peers/:id                                        *)

(* Mutant: the handler does not look at the status.                        *)
PutUnchecked(p, id, k, s) ==
    /\ Begin(p, [op |-> "put", id |-> id, key |-> k, psk |-> s], "upsert")
    /\ UNCHANGED World

PutPeer(p, id, k, s) ==
    /\ status # "draining"
    /\ Begin(p, [op |-> "put", id |-> id, key |-> k, psk |-> s], "upsert")
    /\ UNCHANGED World

PutRefused(p, id, k, s) ==
    /\ phase = "up"
    /\ Idle(p)
    /\ status = "draining"
    /\ last' = "none"
    /\ UNCHANGED <<World, local>>

Upsert(p) ==
    LET r == req[p]
    IN  /\ pc[p] = "upsert"
        /\ \/ /\ UpdatePeer(r.id, r.key, r.psk) \/ CreatePeer(r.id, r.key, r.psk)
              /\ Goto(p, "confList")
              /\ Touch(p)
              /\ UNCHANGED snap
           \/ /\ KeyConflict(r.id, r.key)
              /\ Finish(p, "error")
           \/ /\ SubnetExhausted(r.id, r.key)
              /\ Finish(p, "exhausted")
        /\ UNCHANGED <<conf, live, ifup, NodeOnly>>

RemovePeer(p, id) ==
    /\ Begin(p, [op |-> "delete", id |-> id], "delete")
    /\ UNCHANGED World

(* Mutant: the device is not synced after a deletion.                      *)
DeleteNotApplied(p) ==
    /\ pc[p] = "delete"
    /\ DeletePeer(req[p].id)
    /\ Finish(p, "ok")
    /\ UNCHANGED <<conf, live, ifup, NodeOnly>>

Delete(p) ==
    /\ pc[p] = "delete"
    /\ DeletePeer(req[p].id)
    /\ Touch(p)
    /\ Goto(p, "confList")
    /\ UNCHANGED <<conf, live, ifup, NodeOnly, snap>>

-----------------------------------------------------------------------------
(* Manager.Apply: render the config file from one read of the table, then  *)
(* configure the device from another.                                      *)

List(p, from, to) ==
    /\ pc[p] = from
    /\ Goto(p, to)
    /\ snap' = [snap EXCEPT ![p] = ListPeers(peers)]
    /\ UNCHANGED <<World, touched>>

ConfList(p) == List(p, "confList", "confTruncate")

(* os.WriteFile opens with O_TRUNC ...                                     *)
ConfTruncate(p) ==
    /\ pc[p] = "confTruncate"
    /\ Goto(p, "confWrite")
    /\ conf' = Empty
    /\ UNCHANGED <<peers, live, ifup, NodeOnly, snap, touched>>

(* ... and writes from offset 0: over another writer's text, a shorter     *)
(* text leaves the tail of the longer one behind.                          *)
ConfWrite(p) ==
    /\ pc[p] = "confWrite"
    /\ Goto(p, "list")
    /\ LET text == Rendered(snap[p])
       IN  conf' \in {text} \cup (IF conf \in {Empty, text} THEN {} ELSE {Torn})
    /\ UNCHANGED <<peers, live, ifup, NodeOnly, snap, touched>>

SyncList(p) == List(p, "list", "sync")

Parses(row) == row.key \in GoodKey /\ row.psk \in GoodPsk

(* Mutant: the keys are not parsed before the device is configured.        *)
ConfigurableUnparsed(rows) == ifup

Configurable(rows) == ifup /\ \A row \in rows : Parses(row)

(* A resync goes on with the next id; a PUT or DELETE is done.             *)
Applied(p) ==
    IF req[p].op = "resync"
    THEN Goto(p, "loop") /\ UNCHANGED <<snap, touched>>
    ELSE Finish(p, "ok")

(* Mutant: ReplacePeers is not set.                                        *)
SyncMerges(p) ==
    /\ pc[p] = "sync"
    /\ \/ /\ Configurable(snap[p])
          /\ live' = live \cup snap[p]
          /\ Applied(p)
       \/ /\ ~Configurable(snap[p])
          /\ Finish(p, "error")
          /\ UNCHANGED live
    /\ UNCHANGED <<peers, conf, ifup, NodeOnly>>

(* Mutant: a row that does not parse is skipped.                           *)
SyncSkipsBad(p) ==
    /\ pc[p] = "sync"
    /\ \/ /\ ifup
          /\ live' = {row \in snap[p] : Parses(row)}
          /\ Applied(p)
       \/ /\ ~ifup
          /\ Finish(p, "error")
          /\ UNCHANGED live
    /\ UNCHANGED <<peers, conf, ifup, NodeOnly>>

(* SyncPeers parses every row before it touches the device.                *)
SyncPeers(p) ==
    /\ pc[p] = "sync"
    /\ \/ /\ Configurable(snap[p])
          /\ live' = snap[p]
          /\ Applied(p)
       \/ /\ ~Configurable(snap[p])
          /\ Finish(p, "error")
          /\ UNCHANGED live
    /\ UNCHANGED <<peers, conf, ifup, NodeOnly>>

-----------------------------------------------------------------------------
(* Gateway commands                                                        *)

ResyncPeers(p, keep) ==
    /\ Begin(p, [op |-> "resync", keep |-> keep], "resync")
    /\ UNCHANGED World

(* Mutant: the test of the list is inverted.                               *)
ResyncListInverted(p) ==
    /\ pc[p] = "resync"
    /\ pc' = [pc EXCEPT ![p] = "loop"]
    /\ todo' = [todo EXCEPT ![p] = Registered(peers) \cap req[p].keep]
    /\ missing' = [missing EXCEPT ![p] = req[p].keep \ Registered(peers)]
    /\ UNCHANGED <<World, req, snap, touched, solo, last>>

ResyncList(p) ==
    /\ pc[p] = "resync"
    /\ pc' = [pc EXCEPT ![p] = "loop"]
    /\ todo' = [todo EXCEPT ![p] = Registered(peers) \ req[p].keep]
    /\ missing' = [missing EXCEPT ![p] = req[p].keep \ Registered(peers)]
    /\ UNCHANGED <<World, req, snap, touched, solo, last>>

(* Mutant: the loop deletes its first id again and again.                  *)
ResyncLoopStuck(p) ==
    /\ pc[p] = "loop"
    /\ \/ /\ todo[p] = {}
          /\ Finish(p, "ok")
          /\ UNCHANGED peers
       \/ \E id \in todo[p] :
             /\ DeletePeer(id)
             /\ Touch(p)
             /\ Goto(p, "confList")
             /\ UNCHANGED snap
    /\ UNCHANGED <<conf, live, ifup, NodeOnly>>

(* One id after the other, each with a full Apply.                         *)
ResyncLoop(p) ==
    /\ pc[p] = "loop"
    /\ \/ /\ todo[p] = {}
          /\ Finish(p, "ok")
          /\ UNCHANGED peers
       \/ \E id \in todo[p] :
             /\ DeletePeer(id)
             /\ Touch(p)
             /\ todo' = [todo EXCEPT ![p] = @ \ {id}]
             /\ pc' = [pc EXCEPT ![p] = "confList"]
             /\ UNCHANGED <<req, snap, missing, solo, last>>
    /\ UNCHANGED <<conf, live, ifup, NodeOnly>>

(* Drain and undrain set the bridge's status, then the API's, not under    *)
(* one lock.                                                               *)
SetStatus(p, to) ==
    /\ Begin(p, [op |-> "status", to |-> to], "bridge")
    /\ UNCHANGED World

SetBridge(p) ==
    /\ pc[p] = "bridge"
    /\ bridge' = req[p].to
    /\ Goto(p, "mirror")
    /\ UNCHANGED <<peers, conf, live, ifup, phase, status, snap, touched>>

Mirror(p) ==
    /\ pc[p] = "mirror"
    /\ status' = req[p].to
    /\ Finish(p, "ok")
    /\ UNCHANGED <<peers, conf, live, ifup, phase, bridge>>

-----------------------------------------------------------------------------
(* Faults, crashes and the start of the node                               *)

(* A statement, file operation or device call of handler p fails: the      *)
(* request's context is cancelled, the database is busy, the disk is full, *)
(* the kernel refuses.  A transaction rolls back, a write leaves part of   *)
(* its text, and a device that was told to replace its peers may hold some *)
(* of the new ones.                                                        *)
Fail(p) ==
    /\ Faults
    /\ ~Idle(p)
    /\ pc[p] \notin {"bridge", "mirror"}
    /\ pc[p] = "loop" => todo[p] # {}
    /\ Finish(p, "error")
    /\ conf' \in {conf} \cup (IF pc[p] = "confWrite" THEN {Torn} ELSE {})
    /\ live' \in {live} \cup (IF pc[p] = "sync" /\ Configurable(snap[p])
                              THEN SUBSET snap[p] ELSE {})
    /\ UNCHANGED <<peers, ifup, NodeOnly>>

(* The process ends.  The database and the file stay; the device stays on  *)
(* a host and goes with a container.                                       *)
Crash ==
    /\ Faults
    /\ phase # "down"
    /\ phase' = "down"
    /\ pc' = [p \in Proc |-> "idle"]
    /\ req' = [p \in Proc |-> None]
    /\ snap' = [p \in Proc |-> {}]
    /\ todo' = [p \in Proc |-> {}]
    /\ missing' = [p \in Proc |-> {}]
    /\ touched' = [p \in Proc |-> {}]
    /\ solo' = [p \in Proc |-> FALSE]
    /\ last' = "none"
    /\ status' = "online"
    /\ bridge' = "online"
    /\ \/ UNCHANGED <<live, ifup>>
       \/ live' = {} /\ ifup' = FALSE
    /\ UNCHANGED <<peers, conf>>

(* Manager.Init renders the config; when it cannot, the node starts        *)
(* without touching the device.                                            *)
BootConf ==
    /\ phase = "down"
    /\ \/ /\ conf' = Rendered(ListPeers(peers))
          /\ phase' = "booting"
          /\ UNCHANGED last
       \/ /\ Faults
          /\ conf' \in {conf, Torn}
          /\ phase' = "up"
          /\ last' = "none"
    /\ UNCHANGED <<peers, live, ifup, status, bridge, local>>

(* wg-quick down, then up; an interface that cannot be configured is       *)
(* deleted again.  The node starts either way.                             *)
BringUp ==
    /\ phase = "booting"
    /\ phase' = "up"
    /\ \/ /\ \A row \in conf.rows : Parses(row)
          /\ live' = conf.rows
          /\ ifup' = TRUE
          /\ last' = "boot"
       \/ /\ Faults \/ \E row \in conf.rows : ~Parses(row)
          /\ live' = {}
          /\ ifup' = FALSE
          /\ last' = "none"
    /\ UNCHANGED <<peers, conf, status, bridge, local>>

-----------------------------------------------------------------------------

Init ==
    /\ StoreInit
    /\ conf = Empty
    /\ live = {}
    /\ ifup = FALSE
    /\ phase = "down"
    /\ status = "online"
    /\ bridge = "online"
    /\ pc = [p \in Proc |-> "idle"]
    /\ req = [p \in Proc |-> None]
    /\ snap = [p \in Proc |-> {}]
    /\ todo = [p \in Proc |-> {}]
    /\ missing = [p \in Proc |-> {}]
    /\ touched = [p \in Proc |-> {}]
    /\ solo = [p \in Proc |-> FALSE]
    /\ last = "none"

Apply(p) == ConfList(p) \/ ConfTruncate(p) \/ ConfWrite(p) \/ SyncList(p) \/ SyncPeers(p)

Step(p) ==
    \/ Upsert(p) \/ Delete(p)
    \/ Apply(p)
    \/ ResyncList(p) \/ ResyncLoop(p)
    \/ SetBridge(p) \/ Mirror(p)
    \/ Fail(p)

HTTPRequest(p) ==
    \E id \in PeerId :
        \/ \E k \in WGKey, s \in PSK : PutPeer(p, id, k, s) \/ PutRefused(p, id, k, s)
        \/ RemovePeer(p, id)

Command(p) ==
    \/ \E keep \in SUBSET PeerId : ResyncPeers(p, keep)
    \/ \E to \in Status : SetStatus(p, to)

Next ==
    \/ \E p \in Worker : HTTPRequest(p)
    \/ \E p \in Session : Command(p)
    \/ \E p \in Proc : Step(p)
    \/ Crash \/ BootConf \/ BringUp

Spec == Init /\ [][Next]_vars

(* Handlers are goroutines: none is starved for ever, and no step waits    *)
(* for another handler.  Nothing makes a client send a request.            *)
FairSpec ==
    /\ Spec
    /\ \A p \in Proc : WF_vars(Step(p))
    /\ WF_vars(BootConf \/ BringUp)

-----------------------------------------------------------------------------
LocalTypeOK ==
    /\ pc \in [Proc -> Label]
    /\ req \in [Proc -> Request \cup {None}]
    /\ snap \in [Proc -> SUBSET Row]
    /\ todo \in [Proc -> SUBSET PeerId]
    /\ missing \in [Proc -> SUBSET PeerId]
    /\ touched \in [Proc -> SUBSET PeerId]
    /\ solo \in [Proc -> BOOLEAN]

(* What the table, the file, the device, the node and the handlers may     *)
(* hold (store.Peer, SetStatus, the labels of the steps below).            *)
TypeOK ==
    /\ StoreTypeOK
    /\ conf \in ConfFile
    /\ live \in SUBSET Row
    /\ ifup \in BOOLEAN
    /\ phase \in {"down", "booting", "up"}
    /\ status \in Status
    /\ bridge \in Status
    /\ LocalTypeOK

(* Rows no two of which share an address or a key.                         *)
Exclusive(rows) ==
    \A r, q \in rows : r.ip = q.ip \/ r.key = q.key => r = q

(* The device never routes one tunnel address to two keys and never holds  *)
(* a key it could not parse, although concurrent handlers configure it     *)
(* from old reads of the table (Apply, SyncPeers) and a failing call may   *)
(* leave it half configured.                                               *)
DeviceSane == Exclusive(live) /\ \A row \in live : Parses(row)

Synced == ifup /\ live = ListPeers(peers) /\ conf = Rendered(ListPeers(peers))

(* A PUT or DELETE that was answered with success while no other handler   *)
(* ran, or a start that brought the interface up, leaves the table, the    *)
(* config file and the device with the same peers, whatever failed,        *)
(* crashed or raced before it (UpsertPeer, DeletePeer, Apply, Init).       *)
SoloRequestSyncs ==
    AtRest /\ last \in {"put", "delete", "boot"} => Synced

(* A resync that has come to the end of its loop and is about to answer    *)
(* with success (ResyncPeers) has left exactly the ids of the gateway's    *)
(* list that it did not report as missing, but for the ids that other      *)
(* handlers added or removed since it read the table: whatever PUTs and    *)
(* DELETEs run beside it, fail, or configure the device in between, it     *)
(* accounts for every other id.                                            *)
ResyncExact ==
    \A p \in Proc :
        pc[p] = "loop" /\ todo[p] = {} =>
            \A i \in PeerId \ touched[p] :
                i \in Registered(peers) <=> i \in req[p].keep \ missing[p]

Provisions(p) == pc[p] # "idle" /\ req[p].op = "put"

(* A node that stays draining is eventually rid of the PUTs that had       *)
(* passed the check of handlePutPeer before, and lets no other in.         *)
DrainTakesEffect ==
    <>[](status = "draining") => <>[](\A p \in Proc : ~Provisions(p))

(* Every request is answered or lost in a crash: in particular the loop of *)
(* ResyncPeers ends, although PUTs keep adding rows while it runs.         *)
Answered == \A p \in Proc : pc[p] # "idle" ~> pc[p] = "idle"

-----------------------------------------------------------------------------
(* What the documentation says of the same steps.                          *)

(* "Remove a peer from all protocols", "204: Peer removed": when every     *)
(* handler is done, the device has no peer that is not in the table.       *)
RemovedFromDevice == AtRest => live \subseteq ListPeers(peers)
=============================================================================

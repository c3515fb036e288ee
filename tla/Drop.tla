-------------------------------- MODULE Drop --------------------------------
(***************************************************************************)
(* The Drop service (internal/drop/service.go, client.go, internal/api/    *)
(* drop.go) over a Kubo sidecar whose identity KuboIdentity hands over:    *)
(* health polling, upload admission against the polled capacity, AddAndPin *)
(* and Unpin.  An HTTP handler (Worker) serves one request at a time; the  *)
(* poller runs beside them.                                                *)
(*                                                                         *)
(* Kubo itself is external: it stores the objects it receives, pins them,  *)
(* and reclaims what is not pinned.  An object stands for a content, and   *)
(* takes one unit of storage.                                              *)
(***************************************************************************)
EXTENDS KuboIdentity, FiniteSets

CONSTANTS
    Worker,
    Object,     \* the contents that are uploaded
    StorageMax  \* DROP_STORAGE_MAX, in objects

ASSUME DropAssumption == StorageMax \in Nat /\ IsFiniteSet(Object)

VARIABLES
    state,      \* Snapshot.State
    size,       \* Snapshot.RepoSizeBytes
    poll,       \* where refresh stands
    wpc,        \* where every handler stands
    object,     \* what it uploads
    honest,     \* the body has the declared size and digest
    stored,     \* Kubo: the objects in the repository
    pins,       \* Kubo: the pinned ones
    unpinned,   \* history: its object was unpinned since Kubo added it
    owed        \* history: uploads answered with success and not unpinned since

snapshot == <<state, size, poll>>
request == <<wpc, object, honest, unpinned>>
kubo == <<stored, pins>>
vars == <<idVars, snapshot, request, kubo, owed>>

Reachable == kpc = "daemon"
operational == identityReady /\ state \in {"active", "degraded", "full"}
writable == identityReady /\ state = "active"

-----------------------------------------------------------------------------
(* refresh: Version, then RepoStats.  The poller only runs once the        *)
(* identity is in order.  Either call may fail with Kubo up as well: they  *)
(* share a timeout.                                                        *)

setSnapshot(s, n) == state' = s /\ size' = n

Version ==
    /\ identityReady
    /\ poll = "version"
    /\ Reachable
    /\ poll' = "stat"
    /\ UNCHANGED <<state, size, idVars, request, kubo, owed>>

VersionFails ==
    /\ identityReady
    /\ poll = "version"
    /\ setSnapshot("unreachable", 0)
    /\ UNCHANGED <<poll, idVars, request, kubo, owed>>

(* Mutant: a full repository stays full until the node restarts.           *)
RepoStatsSticky ==
    /\ poll = "stat"
    /\ Reachable
    /\ poll' = "version"
    /\ setSnapshot(IF Cardinality(stored) >= StorageMax \/ state = "full"
                   THEN "full" ELSE "active", Cardinality(stored))
    /\ UNCHANGED <<idVars, request, kubo, owed>>

RepoStats ==
    /\ poll = "stat"
    /\ Reachable
    /\ poll' = "version"
    /\ setSnapshot(IF Cardinality(stored) >= StorageMax THEN "full" ELSE "active",
                   Cardinality(stored))
    /\ UNCHANGED <<idVars, request, kubo, owed>>

RepoStatsFail ==
    /\ poll = "stat"
    /\ poll' = "version"
    /\ setSnapshot("degraded", 0)
    /\ UNCHANGED <<idVars, request, kubo, owed>>

-----------------------------------------------------------------------------
(* Requests                                                                *)

Goto(w, l) == wpc' = [wpc EXCEPT ![w] = l]

(* A handler is done with its request, however it answers.                 *)
Finish(w) ==
    /\ Goto(w, "idle")
    /\ object' = [object EXCEPT ![w] = None]
    /\ honest' = [honest EXCEPT ![w] = FALSE]
    /\ unpinned' = [unpinned EXCEPT ![w] = FALSE]

(* Upload: writable() ...                                                  *)
Upload(w, o, good) ==
    /\ npc = "up"
    /\ wpc[w] = "idle"
    /\ writable
    /\ Goto(w, "admit")
    /\ object' = [object EXCEPT ![w] = o]
    /\ honest' = [honest EXCEPT ![w] = good]
    /\ UNCHANGED <<idVars, snapshot, unpinned, kubo, owed>>

(* ... then Snapshot(), which may be a later one ...                       *)
Admit(w) ==
    /\ wpc[w] = "admit"
    /\ \/ /\ size < StorageMax
          /\ Goto(w, "add")
          /\ UNCHANGED <<object, honest, unpinned>>
       \/ /\ size >= StorageMax
          /\ Finish(w)
    /\ UNCHANGED <<idVars, snapshot, kubo, owed>>

(* ... then AddAndPin.  Kubo stores what it receives; whether it pins      *)
(* when the writer breaks off after a failed verification is Kubo's        *)
(* choice, since the closing boundary has been sent by then.               *)
KuboAdds(w) ==
    /\ wpc[w] = "add"
    /\ Reachable
    /\ Goto(w, "answer")
    /\ stored' = stored \cup {object[w]}
    /\ \/ pins' = pins \cup {object[w]}
       \/ ~honest[w] /\ UNCHANGED pins
    /\ UNCHANGED <<idVars, snapshot, object, honest, unpinned, owed>>

(* Mutant: the error of the writer is overlooked.                          *)
AddAnsweredUnverified(w) ==
    /\ wpc[w] = "answer"
    /\ Finish(w)
    /\ owed' = IF unpinned[w] THEN owed ELSE owed \cup {object[w]}
    /\ UNCHANGED <<idVars, snapshot, kubo>>

(* The answer reaches the client, or is lost with the connection.          *)
AddAnswered(w) ==
    /\ wpc[w] = "answer"
    /\ Finish(w)
    /\ \/ honest[w] /\ ~unpinned[w] /\ owed' = owed \cup {object[w]}
       \/ UNCHANGED owed
    /\ UNCHANGED <<idVars, snapshot, kubo>>

(* The request fails before Kubo has the content.                          *)
AddFails(w) ==
    /\ wpc[w] = "add"
    /\ Finish(w)
    /\ UNCHANGED <<idVars, snapshot, kubo, owed>>

(* Unpin removes a pin, and succeeds when there is none.                   *)
Unpin(o) ==
    /\ npc = "up"
    /\ operational
    /\ Reachable
    /\ pins' = pins \ {o}
    /\ owed' = owed \ {o}
    /\ unpinned' = [w \in Worker |-> unpinned[w] \/ (wpc[w] = "answer" /\ object[w] = o)]
    /\ UNCHANGED <<idVars, snapshot, wpc, object, honest, stored>>

(* Kubo's garbage collection.                                              *)
Collect ==
    /\ Reachable
    /\ stored # pins
    /\ stored' = pins
    /\ UNCHANGED <<idVars, snapshot, request, pins, owed>>

-----------------------------------------------------------------------------
(* A step of the handoff.  The service starts and ends with the node       *)
(* (NewService), and is degraded when Start could not prepare the          *)
(* identity.                                                               *)
Handoff ==
    /\ IdentityNext
    /\ \/ /\ npc' = "off" /\ npc # "off"
          /\ setSnapshot("starting", 0)
          /\ poll' = "version"
          /\ wpc' = [w \in Worker |-> "idle"]
          /\ object' = [w \in Worker |-> None]
          /\ honest' = [w \in Worker |-> FALSE]
          /\ unpinned' = [w \in Worker |-> FALSE]
       \/ /\ npc' = "up" /\ npc # "up"
          /\ state' = IF identityReady' THEN state ELSE "degraded"
          /\ UNCHANGED <<size, poll, request>>
       \/ /\ npc' = npc \/ npc' \notin {"off", "up"}
          /\ UNCHANGED <<snapshot, request>>
    /\ UNCHANGED <<kubo, owed>>

Init ==
    /\ IdentityInit
    /\ state = "starting" /\ size = 0 /\ poll = "version"
    /\ wpc = [w \in Worker |-> "idle"]
    /\ object = [w \in Worker |-> None]
    /\ honest = [w \in Worker |-> FALSE]
    /\ unpinned = [w \in Worker |-> FALSE]
    /\ stored = {} /\ pins = {} /\ owed = {}

refresh == Version \/ VersionFails \/ RepoStats \/ RepoStatsFail

Next ==
    \/ Handoff
    \/ refresh
    \/ \E w \in Worker :
          \/ \E o \in Object, good \in BOOLEAN : Upload(w, o, good)
          \/ Admit(w) \/ KuboAdds(w) \/ AddAnswered(w) \/ AddFails(w)
    \/ \E o \in Object : Unpin(o)
    \/ Collect

(* The containers are restarted, the handoff goes on, the poller ticks,    *)
(* and a Kubo that stays up answers it at last.                            *)
FairSpec ==
    /\ Init /\ [][Next]_vars
    /\ WF_vars(Handoff /\ Prepare)
    /\ WF_vars(Handoff /\ Sidecar)
    /\ WF_vars(refresh)
    /\ SF_vars(Version) /\ SF_vars(RepoStats)

-----------------------------------------------------------------------------
(* The type invariant.                                                     *)
TypeOK ==
    /\ IdentityTypeOK
    /\ state \in {"starting", "active", "degraded", "full", "unreachable"}
    /\ size \in 0 .. Cardinality(Object)
    /\ poll \in {"version", "stat"}
    /\ wpc \in [Worker -> {"idle", "admit", "add", "answer"}]
    /\ object \in [Worker -> Object \cup {None}]
    /\ honest \in [Worker -> BOOLEAN]
    /\ unpinned \in [Worker -> BOOLEAN]
    /\ pins \subseteq stored /\ stored \subseteq Object
    /\ owed \subseteq Object

(* An upload that was answered with success stays pinned until it is       *)
(* unpinned: through other uploads of the same content that fail their     *)
(* verification, garbage collection, and restarts (AddAndPin, Upload).     *)
UploadsStayPinned == owed \subseteq pins

(* When Kubo stays up with room to spare, the node accepts uploads again,  *)
(* whatever it had seen before: full, unreachable or without statistics    *)
(* (refresh).  A later call that fails can only interrupt that.            *)
UploadsResume ==
    <>[](identityReady /\ Reachable /\ Cardinality(stored) < StorageMax) => []<>writable
=============================================================================

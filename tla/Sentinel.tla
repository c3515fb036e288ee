------------------------------ MODULE Sentinel ------------------------------
(***************************************************************************)
(* The Sentinel sidecar: an HTTP server that writes a DNS policy as        *)
(* fragments of Unbound's configuration and has Unbound load them          *)
(* (internal/sentinel).                                                    *)
(*                                                                         *)
(* A policy is a value; a fragment holds the policy it was rendered from.  *)
(* The fragments are on a volume, so they outlive the container; Unbound,  *)
(* which runs in it, loads them whenever the container starts.  The counts *)
(* /status and /metrics give are left out.                                 *)
(***************************************************************************)
EXTENDS Naturals

CONSTANTS
    Policy,     \* the policies the gateway may send
    File,       \* the generated fragments
    Handler,    \* requests Sentinel may be serving at a time
    EnvLicensed \* SENTINEL_LICENSED, the licence a new server starts with

ASSUME LicenceAssumption == EnvLicensed \in BOOLEAN

VARIABLES
    up,         \* the container runs
    slic,       \* Server.licensed
    files,      \* the fragments on the volume
    loaded,     \* the policy Unbound works with, or Mixed
    writer      \* the policy/apply requests being served

sentinelVars == <<up, slic, files, loaded, writer>>

NoPolicy == "no policy"
Empty == "empty"        \* truncated, not yet written
Mixed == "mixed"        \* one rendering over the tail of another
NoFile == "no file"
NoWriter == [pol |-> NoPolicy, left |-> {}, open |-> NoFile]

ASSUME NamesAssumption ==
    /\ {NoPolicy, Empty, Mixed} \cap Policy = {}
    /\ NoFile \notin File /\ File # {}

Content == Policy \cup {NoPolicy, Empty, Mixed}

SentinelTypeOK ==
    /\ up \in BOOLEAN /\ slic \in BOOLEAN
    /\ files \in [File -> Content]
    /\ loaded \in Policy \cup {NoPolicy, Mixed}
    /\ writer \in [Handler -> [pol : Policy \cup {NoPolicy}, left : SUBSET File,
                               open : File \cup {NoFile}]]

(* The policy a set of fragments amounts to: theirs, if they agree.        *)
Whole(fs) ==
    IF \E p \in Policy \cup {NoPolicy} : \A f \in File : fs[f] = p
    THEN CHOOSE p \in Policy \cup {NoPolicy} : \A f \in File : fs[f] = p
    ELSE Mixed

Idle(h) == writer[h] = NoWriter

SentinelInit ==
    /\ up = TRUE /\ slic = EnvLicensed
    /\ files = [f \in File |-> NoPolicy]
    /\ loaded = NoPolicy
    /\ writer = [h \in Handler |-> NoWriter]

(* POST /license/check with a licence state.                               *)
handleLicenseCheck(lic) ==
    /\ up
    /\ slic' = lic
    /\ UNCHANGED <<up, files, loaded, writer>>

(* POST /policy/apply: the licence is read once, under the lock; the files *)
(* are then written without it, in no particular order.                    *)
handlePolicyApply(h, p) ==
    /\ up /\ slic /\ Idle(h)
    /\ writer' = [writer EXCEPT ![h] = [pol |-> p, left |-> File, open |-> NoFile]]
    /\ UNCHANGED <<up, slic, files, loaded>>

(* os.WriteFile opens and truncates, then writes.                          *)
OpenFile(h, f) ==
    /\ ~Idle(h) /\ writer[h].open = NoFile /\ f \in writer[h].left
    /\ files' = [files EXCEPT ![f] = Empty]
    /\ writer' = [writer EXCEPT ![h].open = f]
    /\ UNCHANGED <<up, slic, loaded>>

(* A write over what another request has written meanwhile may leave the   *)
(* tail of the longer text.                                                *)
WriteFile(h) ==
    LET f == writer[h].open
        p == writer[h].pol
    IN  /\ f # NoFile
        /\ \E c \in IF files[f] \in {Empty, p} THEN {p} ELSE {p, Mixed} :
              files' = [files EXCEPT ![f] = c]
        /\ writer' = [writer EXCEPT ![h].open = NoFile, ![h].left = @ \ {f}]
        /\ UNCHANGED <<up, slic, loaded>>

(* Mutant: the request is answered when a file is still to be written.     *)
ApplyDoneEarly(h) ==
    /\ ~Idle(h) /\ writer[h].open = NoFile /\ writer[h].left # File
    /\ writer' = [writer EXCEPT ![h] = NoWriter]
    /\ UNCHANGED <<up, slic, files, loaded>>

(* The end of Server.apply.                                                *)
ApplyDone(h) ==
    /\ ~Idle(h) /\ writer[h].open = NoFile /\ writer[h].left = {}
    /\ writer' = [writer EXCEPT ![h] = NoWriter]
    /\ UNCHANGED <<up, slic, files, loaded>>

(* A file that cannot be written ends the request there.                   *)
ApplyFails(h) ==
    /\ ~Idle(h) /\ writer[h].left # {}
    /\ writer' = [writer EXCEPT ![h] = NoWriter]
    /\ UNCHANGED <<up, slic, files, loaded>>

(* POST /reload.                                                           *)
handleReload ==
    /\ up
    /\ loaded' = Whole(files)
    /\ UNCHANGED <<up, slic, files, writer>>

(* The container stops, and is started again: a new server, with the       *)
(* licence of its environment, and Unbound on the fragments as they are.   *)
SentinelStops ==
    /\ up
    /\ up' = FALSE
    /\ writer' = [h \in Handler |-> NoWriter]
    /\ UNCHANGED <<slic, files, loaded>>

SentinelStarts ==
    /\ ~up
    /\ up' = TRUE
    /\ slic' = EnvLicensed
    /\ loaded' = Whole(files)
    /\ UNCHANGED <<files, writer>>

SentinelStep ==
    \/ \E h \in Handler : \/ \E f \in File : OpenFile(h, f)
                          \/ WriteFile(h)
    \/ SentinelStops
    \/ SentinelStarts
=============================================================================

------------------------------ MODULE Firewall ------------------------------
(***************************************************************************)
(* The node's firewall client between the gateway's commands and the       *)
(* sidecar of the profile, Sentinel or Shield (internal/firewall, and the  *)
(* firewall commands of internal/node).                                    *)
(*                                                                         *)
(* A reader executes one command at a time.  A reader that is inside a     *)
(* command when its session ends finishes it beside the reader of the next *)
(* session, so there may be more than one.  The client's fields are        *)
(* written and read without a lock.                                        *)
(***************************************************************************)
EXTENDS Sentinel, Shield

CONSTANTS
    Reader,     \* readers of gateway commands
    Lapsed      \* the policies the gateway sends as unlicensed

ASSUME LapsedAssumption == Lapsed \subseteq Policy

VARIABLES
    provider,   \* cfg.FirewallProvider
    licensed,   \* Client.licensed
    cmd,        \* the command of each reader and how far it is
    held,       \* history: the policy that ought to be enforced
    crossed     \* history: a sync has begun while another command, of any
                \* kind, was under way

clientVars == <<licensed, cmd, held, crossed>>
vars == <<sentinelVars, shieldVars, clientVars, provider>>

NoHandler == "no handler"
ASSUME HandlerAssumption == NoHandler \notin Handler

NoCmd == [pc |-> "idle", pol |-> NoPolicy, body |-> FALSE, at |-> NoHandler,
          alone |-> FALSE, pw |-> NoPw]

Pc == {"idle", "check", "body", "license", "apply", "wait", "reload", "password"}

TypeOK ==
    /\ SentinelTypeOK
    /\ ShieldTypeOK
    /\ provider \in {"unbound_erebrus", "adguard_home"}
    /\ licensed \in BOOLEAN
    /\ cmd \in [Reader -> [pc : Pc, pol : Policy \cup {NoPolicy}, body : BOOLEAN,
                           at : Handler \cup {NoHandler}, alone : BOOLEAN,
                           pw : Password \cup {NoPw}]]
    /\ held \in Policy \cup {NoPolicy}
    /\ crossed \in BOOLEAN

Sentinel == provider = "unbound_erebrus"

Init ==
    /\ SentinelInit
    /\ ShieldInit
    /\ provider \in {"unbound_erebrus", "adguard_home"}
    /\ Sentinel => envPw = NoPw
    /\ licensed = TRUE
    /\ cmd = [r \in Reader |-> NoCmd]
    /\ held = NoPolicy /\ crossed = FALSE

At(r, pc) == cmd[r].pc = pc

Goes(r, pc) == cmd' = [cmd EXCEPT ![r].pc = pc]

(* The command is answered, well or with an error.                         *)
Answer(r) == cmd' = [cmd EXCEPT ![r] = NoCmd]

-----------------------------------------------------------------------------
(* sync_firewall                                                           *)

(* Mutant: the licence in the payload is not taken over.                   *)
SyncKeepsLicence(r, p) ==
    /\ At(r, "idle")
    /\ crossed' = (crossed \/ \E o \in Reader : ~At(o, "idle"))
    /\ IF Sentinel THEN cmd' = [cmd EXCEPT ![r].pc = "check", ![r].pol = p]
                   ELSE UNCHANGED cmd
    /\ UNCHANGED <<sentinelVars, shieldVars, provider, licensed, held>>

(* Sync takes the licence over and goes to the provider's own; Shield's    *)
(* clears AdGuard's cache and is done.                                     *)
Sync(r, p) ==
    /\ At(r, "idle")
    /\ licensed' = (p \notin Lapsed)
    /\ crossed' = (crossed \/ \E o \in Reader : ~At(o, "idle"))
    /\ IF Sentinel THEN cmd' = [cmd EXCEPT ![r].pc = "check", ![r].pol = p]
                   ELSE UNCHANGED cmd
    /\ UNCHANGED <<sentinelVars, shieldVars, provider, held>>

(* syncSentinel reads the licence, reads it again for the body it sends,   *)
(* posts it whatever comes of that, and reads it a third time.             *)
CheckLicensed(r) ==
    /\ At(r, "check")
    /\ IF licensed THEN Goes(r, "body") ELSE Answer(r)
    /\ UNCHANGED <<sentinelVars, shieldVars, provider, licensed, held, crossed>>

LicenseBody(r) ==
    /\ At(r, "body")
    /\ cmd' = [cmd EXCEPT ![r].pc = "license", ![r].body = licensed]
    /\ UNCHANGED <<sentinelVars, shieldVars, provider, licensed, held, crossed>>

PostLicense(r) ==
    /\ At(r, "license")
    /\ handleLicenseCheck(cmd[r].body) \/ UNCHANGED sentinelVars
    /\ IF licensed THEN cmd' = [cmd EXCEPT ![r].pc = "apply", ![r].body = FALSE] ELSE Answer(r)
    /\ UNCHANGED <<shieldVars, provider, licensed, held, crossed>>

(* The policy is posted.  Another apply under way, or one that starts      *)
(* later, means that this sync is not alone on the files.                  *)
PostApply(r) ==
    /\ At(r, "apply")
    /\ \E h \in Handler :
         /\ \A o \in Reader : cmd[o].at # h
         /\ handlePolicyApply(h, cmd[r].pol)
         /\ cmd' = [o \in Reader |->
                      IF o = r THEN [cmd[r] EXCEPT !.pc = "wait", !.at = h,
                                                   !.alone = \A g \in Handler : Idle(g)]
                      ELSE [cmd[o] EXCEPT !.alone = FALSE]]
    /\ held' = NoPolicy
    /\ UNCHANGED <<shieldVars, provider, licensed, crossed>>

(* Sentinel is unlicensed, or the call does not get through.               *)
ApplyRefused(r) ==
    /\ At(r, "apply")
    /\ Answer(r)
    /\ UNCHANGED <<sentinelVars, shieldVars, provider, licensed, held, crossed>>

(* Whoever waits on handler h is answered, well or with an error.          *)
Answered(h, ok) ==
    cmd' = [r \in Reader |->
              IF At(r, "wait") /\ cmd[r].at = h
              THEN IF ok THEN [cmd[r] EXCEPT !.pc = "reload", !.at = NoHandler] ELSE NoCmd
              ELSE cmd[r]]

ApplyEnds(h) ==
    /\ \/ ApplyDone(h) /\ Answered(h, TRUE)
       \/ ApplyFails(h) /\ Answered(h, FALSE)
    /\ UNCHANGED <<shieldVars, provider, licensed, held, crossed>>

(* The client waits ten seconds; Sentinel goes on.                         *)
ApplyTimesOut(r) ==
    /\ At(r, "wait")
    /\ Answer(r)
    /\ UNCHANGED <<sentinelVars, shieldVars, provider, licensed, held, crossed>>

(* The reload of a sync or of restart_firewall; a sync that was alone from *)
(* the start of its apply has put its policy in force.                     *)
PostReload(r) ==
    /\ At(r, "reload")
    /\ handleReload
    /\ held' = IF cmd[r].alone THEN cmd[r].pol ELSE held
    /\ Answer(r)
    /\ UNCHANGED <<shieldVars, provider, licensed, crossed>>

ReloadFails(r) ==
    /\ At(r, "reload")
    /\ Answer(r)
    /\ UNCHANGED <<sentinelVars, shieldVars, provider, licensed, held, crossed>>

-----------------------------------------------------------------------------
(* The other commands, and the node's own start                            *)

(* restart_firewall: Shield's restart of AdGuard changes nothing here.     *)
Restart(r) ==
    /\ Sentinel /\ At(r, "idle")
    /\ Goes(r, "reload")
    /\ UNCHANGED <<sentinelVars, shieldVars, provider, licensed, held, crossed>>

(* set_firewall_credentials: the configuration first, then AdGuard, which  *)
(* takes it only if it is not configured.                                  *)
SetAdminPassword(r, pw) ==
    /\ ~Sentinel /\ At(r, "idle")
    /\ adminPw' = pw
    /\ told' = pw
    /\ cmd' = [cmd EXCEPT ![r].pc = "password", ![r].pw = pw]
    /\ UNCHANGED <<adguard, envPw, setup, got, fresh>>
    /\ UNCHANGED <<sentinelVars, provider, licensed, held, crossed>>

PostPassword(r) ==
    /\ At(r, "password")
    /\ Install(cmd[r].pw) \/ UNCHANGED adguard
    /\ Answer(r)
    /\ UNCHANGED <<envPw, adminPw, setup, got, fresh, told>>
    /\ UNCHANGED <<sentinelVars, provider, licensed, held, crossed>>

(* The node stops and starts: what its readers were doing is over, what    *)
(* Sentinel is serving goes on; the licence is asked for.                  *)
NodeRestarts ==
    /\ cmd' = [r \in Reader |-> NoCmd]
    /\ licensed' \in IF Sentinel /\ up THEN {slic, TRUE} ELSE {TRUE}
    /\ IF Sentinel THEN UNCHANGED shieldVars ELSE ShieldBoots
    /\ UNCHANGED <<sentinelVars, provider, held, crossed>>

SidecarStep ==
    /\ IF Sentinel THEN SentinelStep /\ UNCHANGED shieldVars
                   ELSE ShieldStep /\ UNCHANGED sentinelVars
    /\ UNCHANGED <<clientVars, provider>>

(* A step of the command that reader r is in, or its next one.             *)
Command(r) ==
    \/ \E p \in Policy : Sync(r, p)
    \/ CheckLicensed(r)
    \/ LicenseBody(r)
    \/ PostLicense(r)
    \/ PostApply(r)
    \/ ApplyRefused(r)
    \/ ApplyTimesOut(r)
    \/ PostReload(r)
    \/ ReloadFails(r)
    \/ Restart(r)
    \/ \E pw \in Password : SetAdminPassword(r, pw)
    \/ PostPassword(r)

Next ==
    \/ \E r \in Reader : Command(r)
    \/ \E h \in Handler : ApplyEnds(h)
    \/ NodeRestarts
    \/ SidecarStep

Spec == Init /\ [][Next]_vars

-----------------------------------------------------------------------------
(* Properties                                                              *)

(* A policy whose sync was answered well, with no other apply on the files *)
(* since it began, is in every fragment, and Unbound works with it, until  *)
(* the next apply: refused syncs, restarts of Unbound, of the container or *)
(* of the node, and calls that fail or come late, do not change that.      *)
EnforcedUntilReplaced ==
    held # NoPolicy =>
        (\A f \in File : files[f] = held) /\ (up => loaded = held)

(* What is in the fragments came in a sync the gateway called licensed,    *)
(* as long as no sync has begun beside another command: Sync's early       *)
(* return, and the licence reads of syncSentinel, keep an unlicensed       *)
(* payload out.                                                            *)
LicensedPoliciesOnly ==
    ~crossed => \A f \in File : files[f] \notin Lapsed

(* Upstreams a person picked are replaced only by a set-up that had read   *)
(* the settings before they were picked: ensureShieldUpstreams leaves      *)
(* every other choice alone.                                               *)
ChosenUpstreamsKept ==
    [][adguard.dns.upstream = "chosen" /\ adguard'.dns.upstream # "chosen" => fresh]_vars
=============================================================================

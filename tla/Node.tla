-------------------------------- MODULE Node --------------------------------
(***************************************************************************)
(* One node from its environment to its readiness report: configuration,   *)
(* the order in which Run starts the parts, the DNS service it chooses,    *)
(* the agent that watches the firewall sidecar, and what the node says of  *)
(* itself (internal/nodeapp, internal/serviceagent and the modules this    *)
(* one extends).                                                           *)
(*                                                                         *)
(* The parts that have modules of their own are seen from outside here:    *)
(* the link to the gateway is the control channel that GatewayLink         *)
(* implements, the sidecar and the Drop store are the states the node sees *)
(* them in.                                                                *)
(***************************************************************************)
EXTENDS Readiness, Transport

CONSTANTS
    Env         \* the environments a node may be started with

(* Flags are flags, a port or a size that does not parse is 0, and a unit  *)
(* has some bytes.                                                         *)
ASSUME EnvAssumption ==
    \A e \in Env :
        /\ {e.key, e.gateway, e.stealth, e.drop} \subseteq BOOLEAN
        /\ e.port \in [{"wireguard", "hysteria2", "vless"} -> Int]
        /\ e.size.n \in Int /\ e.size.scale \in Nat \ {0}

VARIABLES
    env,        \* the environment
    cfg,        \* the configuration, as Run goes on to change it
    phase,      \* how far the start is
    best,       \* the transport the start prefers
    wg,         \* wgOK: WireGuard was brought up
    stealth,    \* stealthOK: the carriers were started
    dns,        \* the DNS service
    side,       \* the sidecar: "up", "sick" or "down"
    slic,       \* what Sentinel answers on its licence
    probe,      \* the agent's probe, before it is stored
    snapshot,   \* Agent.snapshot
    drop,       \* the state of the Drop store
    stored,     \* the settings hold a node id and a token, whosever they are
    known, registered, connected    \* the control channel

part == <<best, wg, stealth, dns>>
agent == <<probe, snapshot>>
sidecar == <<side, slic>>
channel == <<known, registered, connected, stored>>
vars == <<env, cfg, phase, part, agent, sidecar, channel, drop>>

Link == INSTANCE ControlChannel WITH up <- phase = "running"

NoConfig == [provider |-> "none"]
NoDNS == [kind |-> "none", listen |-> <<"", 0>>, upstream |-> ""]
Health == {"none", "active", "degraded", "unreachable", "unlicensed"}
DropState == {"disabled", "starting", "active", "full", "degraded"}

-----------------------------------------------------------------------------
(* Main and Run                                                            *)

(* The settings may be those of an earlier mnemonic.                       *)
Init ==
    /\ env \in Env
    /\ cfg = NoConfig /\ phase = "down"
    /\ best = NoTransport /\ wg = FALSE /\ stealth = FALSE /\ dns = NoDNS
    /\ probe = "none" /\ snapshot = "none"
    /\ side = "up" /\ slic \in BOOLEAN
    /\ known = FALSE /\ registered = FALSE /\ connected = FALSE
    /\ stored \in {FALSE, env.gateway}
    /\ drop = "disabled"

(* Main: Load and Validate, or an exit with an error.                      *)
Start ==
    /\ phase = "down"
    /\ LET c == Load(env)
       IN  IF Accepts(c, env) THEN cfg' = Validate(c, env) /\ phase' = "boot"
                              ELSE cfg' = NoConfig /\ phase' = "refused"
    /\ UNCHANGED <<env, part, agent, sidecar, channel, drop>>

(* The transport probe, the Drop service, WireGuard and the carriers: none *)
(* of them stops the start.                                                *)
Boot ==
    /\ phase = "boot"
    /\ best' = Select(cfg.stealth, cfg.port)
    /\ drop' \in IF cfg.drop THEN {"starting", "degraded"} ELSE {"disabled"}
    /\ wg' \in BOOLEAN
    /\ stealth' \in {FALSE, cfg.stealth}
    /\ phase' = "license"
    /\ UNCHANGED <<env, cfg, dns, agent, sidecar, channel>>

(* Without a state directory, an identity or a store there is no node.     *)
BootFails ==
    /\ phase = "boot"
    /\ phase' = "refused"
    /\ UNCHANGED <<env, cfg, part, agent, sidecar, channel, drop>>

(* CheckLicense; a Sentinel that does not answer counts as licensed.       *)
CheckLicense ==
    /\ phase = "license"
    /\ \E answer \in IF cfg.provider = "unbound_erebrus" /\ "sentinelURL" \in cfg.urls /\ side = "up"
                     THEN {slic, TRUE} ELSE {TRUE} :
          cfg' = [cfg EXCEPT !.licensed = answer]
    /\ phase' = "dns"
    /\ UNCHANGED <<env, part, agent, sidecar, channel, drop>>

(* The resolver of private names, the forwarder to the firewall, or none.  *)
DNSService(c) ==
    LET listen == DefaultListenAddr(c.subnet, c.privAddr)
    IN  IF c.privDNS
        THEN [kind |-> "resolver", listen |-> listen,
              upstream |-> IF HasFirewallService(c) THEN c.fwDNS ELSE "public"]
        ELSE IF HasFirewallService(c) /\ c.licensed
        THEN [kind |-> "forwarder", listen |-> listen, upstream |-> c.fwDNS]
        ELSE NoDNS

(* The rest of Run: the DNS service, which may fail to listen and is then  *)
(* gone for good, the agent and, of the link, the key of an earlier        *)
(* registration, of whatever identity, if a save got as far as the key and *)
(* it can be read.                                                         *)
Serve ==
    /\ phase = "dns"
    /\ dns' \in {DNSService(cfg), NoDNS}
    /\ snapshot' = "none" /\ probe' = "none"
    /\ cfg' \in {cfg, [cfg EXCEPT !.key = @ \/ (cfg.gateway /\ stored)]}
    /\ phase' = "running"
    /\ UNCHANGED <<env, best, wg, stealth, sidecar, channel, drop>>

(* The process ends, wherever it is, and the container is started again.   *)
Stop ==
    /\ phase # "down"
    /\ phase' = "down" /\ cfg' = NoConfig
    /\ best' = NoTransport /\ wg' = FALSE /\ stealth' = FALSE /\ dns' = NoDNS
    /\ probe' = "none" /\ snapshot' = "none" /\ drop' = "disabled"
    /\ connected' = FALSE
    /\ UNCHANGED <<env, sidecar, known, registered, stored>>

-----------------------------------------------------------------------------
(* The service agent                                                       *)

probeHTTP ==
    CASE side = "up" -> "active" [] side = "sick" -> "degraded" [] OTHER -> "unreachable"

probeAll ==
    LET url == IF cfg.provider = "adguard_home" THEN "shieldURL" ELSE "sentinelURL"
        state == IF url \in cfg.urls THEN probeHTTP ELSE "unreachable"
    IN  IF ~HasFirewallService(cfg) THEN "none"
        ELSE IF cfg.provider = "unbound_erebrus" /\ ~cfg.licensed THEN "unlicensed"
        ELSE state

(* Mutant: the sidecar is probed once, at the start.                       *)
AgentProbesOnce ==
    /\ phase = "running" /\ HasFirewallService(cfg) /\ probe = "none" /\ snapshot = "none"
    /\ probe' = probeAll
    /\ UNCHANGED <<env, cfg, phase, part, snapshot, sidecar, channel, drop>>

(* A check probes, which takes up to three seconds, and then stores.       *)
AgentProbes ==
    /\ phase = "running" /\ HasFirewallService(cfg) /\ probe = "none"
    /\ probe' = probeAll
    /\ UNCHANGED <<env, cfg, phase, part, snapshot, sidecar, channel, drop>>

AgentStores ==
    /\ phase = "running" /\ probe # "none"
    /\ snapshot' = probe
    /\ probe' = "none"
    /\ UNCHANGED <<env, cfg, phase, part, sidecar, channel, drop>>

Agent == AgentProbes \/ AgentStores

FirewallOK ==
    \/ ~HasFirewallService(cfg)
    \/ /\ cfg.provider = "unbound_erebrus" => cfg.licensed
       /\ snapshot = "active"

-----------------------------------------------------------------------------
(* The world                                                               *)

SidecarChanges ==
    /\ cfg # NoConfig /\ HasFirewallService(cfg)
    /\ side' \in {"up", "sick", "down"}
    /\ slic' \in BOOLEAN
    /\ UNCHANGED <<env, cfg, phase, part, agent, channel, drop>>

DropChanges ==
    /\ phase = "running" /\ cfg.drop
    /\ drop' \in DropState \ {"disabled"}
    /\ UNCHANGED <<env, cfg, phase, part, agent, sidecar, channel>>

(* A registration, new or repeated, gives the node its key.                *)
Registers ==
    /\ phase = "running" /\ cfg.gateway
    /\ UNCHANGED <<env, phase, part, agent, sidecar, drop>>
    /\ \/ Link!Enrol /\ UNCHANGED stored
       \/ known /\ UNCHANGED channel
    /\ cfg' = [cfg EXCEPT !.key = TRUE]

LinkStep ==
    /\ phase = "running" /\ cfg.gateway
    /\ UNCHANGED <<env, cfg, phase, part, agent, sidecar, drop>>
    /\ \/ Link!Record /\ stored' = TRUE
       \/ (Link!Connect \/ Link!Disconnect) /\ UNCHANGED stored

Next ==
    \/ Start \/ Boot \/ BootFails \/ CheckLicense \/ Serve \/ Stop
    \/ Agent
    \/ SidecarChanges \/ DropChanges
    \/ Registers \/ LinkStep

(* The agent's ticker goes off every thirty seconds as long as the node    *)
(* runs, and its probe has a timeout.                                      *)
Spec == Init /\ [][Next]_vars /\ WF_vars(Agent)

-----------------------------------------------------------------------------
(* Properties                                                              *)

(* The state of a start and of what it left running.                       *)
TypeOK ==
    /\ phase \in {"down", "refused", "boot", "license", "dns", "running"}
    /\ phase \in {"boot", "license", "dns", "running"} => cfg # NoConfig
    /\ wg \in BOOLEAN /\ stealth \in BOOLEAN
    /\ side \in {"up", "sick", "down"} /\ slic \in BOOLEAN
    /\ probe \in Health /\ snapshot \in Health
    /\ drop \in DropState
    /\ known \in BOOLEAN /\ registered \in BOOLEAN /\ connected \in BOOLEAN
    /\ stored \in BOOLEAN

Running == phase = "running"

(* The report of /status.  A node counts as registered with the settings   *)
(* of any identity, those that Run itself has dropped included; the DNS    *)
(* service has no check.                                                   *)
Report ==
    Evaluate(cfg, [wg |-> wg, stealth |-> stealth, firewall |-> FirewallOK, drop |-> drop,
                   registered |-> cfg.gateway /\ stored, connected |-> connected])

Ready == SummaryLine(Report) = "ready"

StaysReady ==
    Running /\ Running' /\ Ready => Ready' \/ (snapshot = "active" /\ snapshot' # "active")

(* A node that is ready stays ready until it stops or its agent finds the  *)
(* sidecar out of order: a session that breaks, a gateway that is gone, a  *)
(* registration under way and a Drop store that fails or fills up do not   *)
(* take it out of service (Evaluate, with the checks it skips and those it *)
(* calls optional).                                                        *)
ReadyKept == [][StaysReady]_vars

(* What `status` finds missing before the start is never the node's own    *)
(* verdict of a ready node afterwards, unless the settings, of this or an  *)
(* earlier identity, have given it a key (Preboot, Evaluate).              *)
PrebootForesees ==
    Running /\ Report.ok => Preboot(Validate(Load(env), env)).ok \/ stored

(* Whatever profile, override and subnet the node has, clients that get    *)
(* the profile's resolver find the node's DNS service at that very address *)
(* and port, and it asks the firewall, unless the service failed to        *)
(* listen, the licence is missing or the operator chose a port or resolver *)
(* (ApplyProfileDefaults and DefaultListenAddr derive the address apart).  *)
TunnelDNSServed ==
    Running /\ dns # NoDNS /\ cfg.profile # "standard" /\ HasFirewallService(cfg)
            /\ env.wgdns = "publicDNS" /\ PortOf(env.privAddr) = 53 =>
        dns.listen = <<cfg.wgdns, 53>> /\ dns.upstream = cfg.fwDNS

(* A node runs as a private one exactly when EREBRUS_ACCESS says so or,    *)
(* that being empty, EREBRUS_NETWORK_PROFILE; then its store is closed to  *)
(* the public, and a node with private there and an access mode beside it  *)
(* does not run (ParseModeSettings, called by Load and by Validate).       *)
(* EREBRUS_MODE, which the comment and the warning there speak of, is not  *)
(* read by anything.                                                       *)
PrivateStaysPrivate ==
    LET private == env.access = "private" \/ (env.access = "" /\ env.net = "private")
    IN  Running =>
            /\ GatewayAccessMode(cfg) = "private" <=> private
            /\ private => ~DropAcceptsPublicUploads(cfg)
            /\ env.net = "private" => env.access = ""

(* The Drop limit a node runs with is the number times the unit that the   *)
(* operator wrote, never a wrapped or capped one (parseByteSize).          *)
StorageExact ==
    Running /\ cfg.drop => cfg.bytes = env.size.n * env.size.scale /\ cfg.bytes > 0

(* The preferred transport is the first of the ladder that the node        *)
(* offers: scores tie for the local prober, and ties go to the ladder      *)
(* (SelectBest, ImplementedLadder, Probe).                                 *)
LadderPreferred ==
    Running =>
        LET offered(k) == cfg.port[k] > 0 /\ (k = "wireguard" \/ cfg.stealth)
        IN  best = IF offered("wireguard") THEN [kind |-> "wireguard", score |-> 100]
                   ELSE IF offered("hysteria2") THEN [kind |-> "hysteria2", score |-> 100]
                   ELSE IF offered("vless") THEN [kind |-> "vless", score |-> 100]
                   ELSE NoTransport

(* The node has an address for the sidecar and a licence where it needs it. *)
Reachable ==
    IF cfg.provider = "adguard_home" THEN "shieldURL" \in cfg.urls
    ELSE "sentinelURL" \in cfg.urls /\ cfg.licensed

(* A sidecar that stays down, or comes and stays up, is reported as that   *)
(* in the end, also where a probe was under way while it changed (the      *)
(* agent's loop, check and FirewallOK).                                    *)
HealthCatchesUp ==
    \A s \in {"up", "sick", "down"} :
        <>[](Running /\ HasFirewallService(cfg) /\ side = s) =>
            <>[](Running => (FirewallOK <=> s = "up" /\ Reachable))
=============================================================================

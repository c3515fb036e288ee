----------------------------- MODULE NodeProofs -----------------------------
(***************************************************************************)
(* What a started node makes of its environment, for every set of          *)
(* environments and every width of integers: its readiness report, the     *)
(* address of its DNS service, its access mode, its storage limit and its  *)
(* transport.                                                              *)
(***************************************************************************)
EXTENDS Node, WellFoundedInduction, TLAPS

(* The configuration a start from the environment e ends up with.          *)
Accepted(e) == Validate(Load(e), e)

Field ==
    {"runType", "key", "gateway", "mnemonic", "host", "subnet", "profile", "provider", "fwDNS",
     "urls", "wgdns", "privDNS", "privAddr", "stealth", "port", "drop", "webui", "swarm",
     "bytes", "mode", "licensed"}

IsConfig(d) == d = [f \in Field |-> d[f]]

(* d is c with the defaults of a profile: what is not the profile's is     *)
(* left alone.                                                             *)
Defaulted(c, d) ==
    /\ IsConfig(d)
    /\ d.runType = c.runType /\ d.key = c.key /\ d.gateway = c.gateway
    /\ d.mnemonic = c.mnemonic /\ d.host = c.host /\ d.subnet = c.subnet
    /\ d.privDNS = c.privDNS /\ d.stealth = c.stealth /\ d.port = c.port
    /\ d.drop = c.drop /\ d.licensed = c.licensed /\ d.bytes = c.bytes
    /\ d.profile \in {"shield", "sentinel"} =>
          /\ d.wgdns = IF c.wgdns \in {"", "publicDNS"}
                       THEN tunnelGatewayIP(c.subnet, c.privAddr) ELSE c.wgdns
          /\ d.privAddr = Default(c.privAddr, tunnelGatewayIP(c.subnet, c.privAddr))

(* A profile only fills in the settings of the firewall and the DNS.       *)
LEMMA ProfileDefaults ==
    ASSUME NEW c, IsConfig(c), NEW d, d = ApplyProfileDefaults(c)
    PROVE  Defaulted(c, d)
<1> USE DEF Defaulted
<1> DEFINE profile == Default(c.profile, "standard")
           tunnel == tunnelGatewayIP(c.subnet, c.privAddr)
<1>1. CASE profile \in {"shield", "sentinel"}
  <2> DEFINE service ==
                [provider |-> IF profile = "shield" THEN "adguard_home" ELSE "unbound_erebrus",
                 url |-> IF profile = "shield" THEN "shieldURL" ELSE "sentinelURL"]
             provider == Default(c.provider, service.provider)
             urls == c.urls \cup {service.url}
  <2>1. d = [c EXCEPT !.profile = profile, !.provider = provider,
                      !.fwDNS = Default(@, "sidecar"), !.urls = urls,
                      !.wgdns = IF @ \in {"", "publicDNS"} THEN tunnel ELSE @,
                      !.privAddr = Default(@, tunnel)]
    BY <1>1, Zenon DEF ApplyProfileDefaults
  <2> HIDE DEF provider, urls
  <2>2. QED
    BY <1>1, <2>1, ZenonT(120) DEF IsConfig, Field
<1>2. CASE profile = "standard"
  <2>1. d = [c EXCEPT !.profile = profile, !.provider = Default(@, "none")]
    BY <1>2, ZenonT(30) DEF ApplyProfileDefaults
  <2>2. QED
    BY <1>2, <2>1, ZenonT(60) DEF IsConfig, Field
<1>3. CASE profile \notin {"shield", "sentinel", "standard"}
  <2>1. d = [c EXCEPT !.profile = profile]
    BY <1>3, Zenon DEF ApplyProfileDefaults
  <2>2. QED
    BY <1>3, <2>1, ZenonT(60) DEF IsConfig, Field
<1>4. QED
  BY <1>1, <1>2, <1>3

(* d and c differ in nothing but their modes.                              *)
SameButMode(d, c) ==
    /\ IsConfig(d)
    /\ d.runType = c.runType /\ d.key = c.key /\ d.gateway = c.gateway
    /\ d.mnemonic = c.mnemonic /\ d.host = c.host /\ d.subnet = c.subnet
    /\ d.profile = c.profile /\ d.provider = c.provider /\ d.fwDNS = c.fwDNS
    /\ d.wgdns = c.wgdns /\ d.privDNS = c.privDNS /\ d.privAddr = c.privAddr
    /\ d.stealth = c.stealth /\ d.port = c.port /\ d.drop = c.drop
    /\ d.licensed = c.licensed /\ d.bytes = c.bytes

LEMMA ModeReplaced ==
    ASSUME NEW c, IsConfig(c), NEW m
    PROVE  SameButMode([c EXCEPT !.mode = m], c) /\ [c EXCEPT !.mode = m].mode = m
BY DEF IsConfig, SameButMode, Field

(* d is what a start from the environment e ends up with.                  *)
FromEnvironment(d, e) ==
    /\ SameButMode(d, Load(e))
    /\ d.runType = e.runType /\ d.key = e.key /\ d.gateway = e.gateway
    /\ d.mnemonic = e.mnemonic /\ d.host = e.host /\ d.subnet = e.subnet
    /\ d.privDNS = e.privDNS /\ d.stealth = e.stealth /\ d.port = e.port
    /\ d.drop = e.drop /\ d.licensed = FALSE
    /\ d.bytes = parseByteSize(e.size.n, e.size.scale)
    /\ d.mode.runtime = ParseModeSettings(e.access, e.net).runtime
    /\ d.profile \in {"shield", "sentinel"} =>
          /\ d.wgdns = IF e.wgdns \in {"", "publicDNS"}
                       THEN tunnelGatewayIP(e.subnet, e.privAddr) ELSE e.wgdns
          /\ d.privAddr = Default(e.privAddr, tunnelGatewayIP(e.subnet, e.privAddr))

(* What Load and Validate leave of the environment.                        *)
LEMMA AcceptedFields ==
    ASSUME NEW e, NEW d, d = Accepted(e)
    PROVE  FromEnvironment(d, e)
<1> DEFINE b == [runType |-> e.runType, key |-> e.key, gateway |-> e.gateway,
                 mnemonic |-> e.mnemonic, host |-> e.host, subnet |-> e.subnet,
                 profile |-> e.profile, provider |-> e.provider, fwDNS |-> e.fwDNS,
                 urls |-> e.urls, wgdns |-> e.wgdns, privDNS |-> e.privDNS,
                 privAddr |-> e.privAddr, stealth |-> e.stealth, port |-> e.port,
                 drop |-> e.drop, webui |-> e.webui, swarm |-> e.swarm,
                 bytes |-> parseByteSize(e.size.n, e.size.scale),
                 mode |-> ParseModeSettings(e.access, e.net), licensed |-> FALSE]
           c == ApplyProfileDefaults(b)
           l == Load(e)
           m == ParseModeSettings(e.access, e.net)
<1>1. IsConfig(b)
  BY ZenonT(30) DEF IsConfig, Field
<1>2. /\ b.runType = e.runType /\ b.key = e.key /\ b.gateway = e.gateway
      /\ b.mnemonic = e.mnemonic /\ b.host = e.host /\ b.subnet = e.subnet
      /\ b.privDNS = e.privDNS /\ b.stealth = e.stealth /\ b.port = e.port
      /\ b.drop = e.drop /\ b.licensed = FALSE /\ b.profile = e.profile
      /\ b.wgdns = e.wgdns /\ b.privAddr = e.privAddr /\ b.webui = e.webui
      /\ b.bytes = parseByteSize(e.size.n, e.size.scale) /\ b.mode = m
  BY ZenonT(30)
<1>3. PICK n : l = [c EXCEPT !.mode = n]
  BY ZenonT(30) DEF Load
<1>4. PICK w : d = [l EXCEPT !.mode = [m EXCEPT !.warnings = w]]
  BY ZenonT(30) DEF Accepted, Validate
<1>5. "runtime" \in DOMAIN m
  BY Zenon DEF ParseModeSettings, NoMode
<1> HIDE DEF b, c, l, m
<1>6. Defaulted(b, c)
  BY <1>1, ProfileDefaults, ZenonT(30) DEF c
<1>7. SameButMode(l, c)
  BY <1>3, <1>6, ModeReplaced DEF Defaulted
<1>8. SameButMode(d, l) /\ d.mode.runtime = m.runtime
  BY <1>4, <1>5, <1>7, ModeReplaced DEF SameButMode
<1>9. SameButMode(d, Load(e)) /\ d.mode.runtime = ParseModeSettings(e.access, e.net).runtime
  BY <1>8, ZenonT(30) DEF l, m
<1>10. d.runType = e.runType /\ d.key = e.key /\ d.gateway = e.gateway
  BY <1>2, <1>6, <1>7, <1>8, ZenonT(60) DEF Defaulted, SameButMode
<1>11. d.mnemonic = e.mnemonic /\ d.host = e.host /\ d.subnet = e.subnet
  BY <1>2, <1>6, <1>7, <1>8, ZenonT(60) DEF Defaulted, SameButMode
<1>12. d.privDNS = e.privDNS /\ d.stealth = e.stealth /\ d.port = e.port
  BY <1>2, <1>6, <1>7, <1>8, ZenonT(60) DEF Defaulted, SameButMode
<1>13. d.drop = e.drop /\ d.bytes = parseByteSize(e.size.n, e.size.scale)
  BY <1>2, <1>6, <1>7, <1>8, ZenonT(60) DEF Defaulted, SameButMode
<1>14. d.licensed = FALSE
  BY <1>2, <1>6, <1>7, <1>8, ZenonT(30) DEF Defaulted, SameButMode
<1>15. d.profile \in {"shield", "sentinel"} =>
          /\ d.wgdns = IF e.wgdns \in {"", "publicDNS"}
                       THEN tunnelGatewayIP(e.subnet, e.privAddr) ELSE e.wgdns
          /\ d.privAddr = Default(e.privAddr, tunnelGatewayIP(e.subnet, e.privAddr))
  BY <1>2, <1>6, <1>7, <1>8, ZenonT(60) DEF Defaulted, SameButMode
<1>16. QED
  BY <1>9, <1>10, <1>11, <1>12, <1>13, <1>14, <1>15, ZenonT(30) DEF FromEnvironment

-----------------------------------------------------------------------------
(* The invariant                                                           *)

(* Run changes nothing of the configuration but the key and the licence.   *)
RunsWith(d, c) ==
    /\ IsConfig(d)
    /\ d.runType = c.runType /\ d.gateway = c.gateway
    /\ d.mnemonic = c.mnemonic /\ d.host = c.host /\ d.subnet = c.subnet
    /\ d.profile = c.profile /\ d.provider = c.provider /\ d.fwDNS = c.fwDNS
    /\ d.wgdns = c.wgdns /\ d.privDNS = c.privDNS /\ d.privAddr = c.privAddr
    /\ d.stealth = c.stealth /\ d.port = c.port /\ d.drop = c.drop
    /\ d.mode = c.mode /\ d.bytes = c.bytes

Started == phase \in {"boot", "license", "dns", "running"}

(* A start that got past Validate runs with the environment's settings; a  *)
(* key that is not the environment's came from a registration.             *)
ConfigInv ==
    Started =>
        /\ Accepts(Load(env), env)
        /\ RunsWith(cfg, Accepted(env))
        /\ cfg.key \in BOOLEAN
        /\ cfg.key = env.key \/ (cfg.key /\ env.gateway)

(* What Run chose at the start still is what the configuration says.       *)
ChoiceInv ==
    /\ phase \in {"license", "dns", "running"} => best = Select(cfg.stealth, cfg.port)
    /\ Running => dns \in {DNSService(cfg), NoDNS}

NodeInv == env \in Env /\ TypeOK /\ ConfigInv /\ ChoiceInv

LEMMA KeyReplaced ==
    ASSUME NEW c, NEW d, RunsWith(d, c), NEW x, NEW n, n = [d EXCEPT !.key = x]
    PROVE  RunsWith(n, c) /\ n.key = x /\ n.licensed = d.licensed /\ DNSService(n) = DNSService(d)
<1>1. RunsWith(n, c) /\ n.key = x /\ n.licensed = d.licensed
  BY ZenonT(30) DEF IsConfig, RunsWith, Field
<1>2. DNSService(n) = DNSService(d)
  BY <1>1, ZenonT(60) DEF RunsWith, DNSService, HasFirewallService
<1>3. QED
  BY <1>1, <1>2, Zenon

LEMMA LicenseReplaced ==
    ASSUME NEW c, NEW d, RunsWith(d, c), NEW x, NEW n, n = [d EXCEPT !.licensed = x]
    PROVE  RunsWith(n, c) /\ n.key = d.key
BY ZenonT(30) DEF IsConfig, RunsWith, Field

LEMMA AcceptedRuns ==
    ASSUME NEW e
    PROVE  RunsWith(Accepted(e), Accepted(e)) /\ Accepted(e).key = e.key
BY AcceptedFields, ZenonT(60) DEF FromEnvironment, SameButMode, RunsWith

LEMMA RunsIsConfig ==
    ASSUME NEW c, NEW d, RunsWith(d, c)
    PROVE  d # NoConfig
<1>1. DOMAIN d = Field
  BY Zenon DEF RunsWith, IsConfig
<1>2. "key" \in DOMAIN d /\ "key" \notin DOMAIN NoConfig
  BY <1>1, ZenonT(30) DEF Field, NoConfig
<1>3. QED
  BY <1>2, Zenon

LEMMA ProbeType == probeAll \in Health
<1>1. probeHTTP \in Health
  BY ZenonT(30) DEF probeHTTP, Health
<1>2. probeAll \in {"none", "unlicensed", "unreachable", probeHTTP}
  BY ZenonT(30) DEF probeAll
<1>3. QED
  BY <1>1, <1>2, ZenonT(30) DEF Health

(* A node starts from one of its environments, with nothing running.       *)
LEMMA NodeStarts == Init => NodeInv
<1> SUFFICES ASSUME Init
             PROVE  NodeInv
  BY ZenonT(30)
<1>1. wg \in BOOLEAN /\ stealth \in BOOLEAN /\ slic \in BOOLEAN
  BY ZenonT(30) DEF Init
<1>2. /\ known \in BOOLEAN /\ registered \in BOOLEAN /\ connected \in BOOLEAN
      /\ stored \in BOOLEAN
  BY EnvAssumption, ZenonT(30) DEF Init
<1>3. TypeOK
  BY <1>1, <1>2, ZenonT(30) DEF Init, TypeOK, Health, DropState
<1>4. QED
  BY <1>3, ZenonT(30) DEF Init, NodeInv, ConfigInv, ChoiceInv, Started, Running

(* The settings of a started node that come straight from its environment. *)
LEMMA StartedFields ==
    ASSUME NodeInv, Started
    PROVE  /\ RunsWith(cfg, Accepted(env)) /\ FromEnvironment(Accepted(env), env)
           /\ {cfg.key, cfg.gateway, cfg.stealth, cfg.drop} \subseteq BOOLEAN
<1>1. FromEnvironment(Accepted(env), env)
  BY AcceptedFields, ZenonT(30)
<1>2. RunsWith(cfg, Accepted(env)) /\ cfg.key \in BOOLEAN /\ env \in Env
  BY ZenonT(30) DEF NodeInv, ConfigInv
<1>3. cfg.gateway = env.gateway /\ cfg.stealth = env.stealth /\ cfg.drop = env.drop
  BY <1>1, <1>2 DEF RunsWith, FromEnvironment
<1>4. QED
  BY <1>1, <1>2, <1>3, EnvAssumption

(* No step leaves the types.                                               *)
LEMMA NodeTypes ==
    ASSUME NodeInv, [Next]_vars, ConfigInv'
    PROVE  TypeOK'
<1>0. env \in Env /\ TypeOK /\ ConfigInv
  BY ZenonT(30) DEF NodeInv
<1>1. Started' => cfg' # NoConfig
  BY RunsIsConfig, ZenonT(30) DEF ConfigInv
<1>2. phase' \in {"down", "refused", "boot", "license", "dns", "running"}
  BY <1>0, ZenonT(30) DEF Next, vars, TypeOK, Start, Boot, BootFails, CheckLicense, Serve, Stop, Agent,
        AgentProbes, AgentStores, SidecarChanges, DropChanges, Registers, LinkStep
<1>3. wg' \in BOOLEAN
  BY <1>0, ZenonT(30) DEF Next, vars, part, TypeOK, Start, Boot, BootFails, CheckLicense, Serve, Stop,
        Agent, AgentProbes, AgentStores, SidecarChanges, DropChanges, Registers, LinkStep
<1>4. stealth' \in BOOLEAN
  <2>1. CASE Boot
    <3>1. Started
      BY <2>1, ZenonT(30) DEF Boot, Started
    <3>2. cfg.stealth \in BOOLEAN
      BY <3>1, StartedFields, ZenonT(30)
    <3>3. QED
      BY <2>1, <3>2, ZenonT(30) DEF Boot
  <2>2. CASE ~Boot
    BY <1>0, <2>2, ZenonT(30) DEF Next, vars, part, TypeOK, Start, BootFails, CheckLicense, Serve, Stop,
          Agent, AgentProbes, AgentStores, SidecarChanges, DropChanges, Registers, LinkStep
  <2>3. QED
    BY <2>1, <2>2, ZenonT(30)
<1>5. side' \in {"up", "sick", "down"} /\ slic' \in BOOLEAN
  BY <1>0, ZenonT(30) DEF Next, vars, sidecar, TypeOK, Start, Boot, BootFails, CheckLicense, Serve, Stop,
        Agent, AgentProbes, AgentStores, SidecarChanges, DropChanges, Registers, LinkStep
<1>6. probe' \in Health /\ snapshot' \in Health
  <2>1. "none" \in Health
    BY Zenon DEF Health
  <2>2. QED
    BY <1>0, <2>1, ProbeType, ZenonT(30) DEF Next, vars, agent, TypeOK, Start, Boot, BootFails,
          CheckLicense, Serve, Stop, Agent, AgentProbes, AgentStores, SidecarChanges, DropChanges,
          Registers, LinkStep
<1>7. drop' \in DropState
  BY <1>0, ZenonT(30) DEF Next, vars, TypeOK, DropState, Start, Boot, BootFails,
        CheckLicense, Serve, Stop, Agent, AgentProbes, AgentStores, SidecarChanges, DropChanges,
        Registers, LinkStep
<1>8. /\ known' \in BOOLEAN /\ registered' \in BOOLEAN /\ connected' \in BOOLEAN
      /\ stored' \in BOOLEAN
  BY <1>0, ZenonT(30) DEF Next, vars, channel, TypeOK, Start, Boot, BootFails, CheckLicense, Serve, Stop,
        Agent, AgentProbes, AgentStores, SidecarChanges, DropChanges, Registers, LinkStep,
        Link!Enrol, Link!Record, Link!Connect, Link!Disconnect
<1>9. QED
  BY <1>1, <1>2, <1>3, <1>4, <1>5, <1>6, <1>7, <1>8 DEF TypeOK, Started

(* No step changes a setting beside the key and the licence.               *)
LEMMA ConfigKept ==
    ASSUME NodeInv, [Next]_vars
    PROVE  env' \in Env /\ ConfigInv'
<1>0. env \in Env /\ TypeOK /\ ConfigInv
  BY ZenonT(30) DEF NodeInv
<1>1. env' = env
  BY ZenonT(30) DEF Next, vars, Start, Boot, BootFails, CheckLicense, Serve, Stop, Agent,
        AgentProbes, AgentStores, SidecarChanges, DropChanges, Registers, LinkStep
<1>2. CASE Start
  <2>1. CASE Accepts(Load(env), env)
    <3>1. cfg' = Accepted(env)
      BY <1>2, <2>1, ZenonT(30) DEF Start, Accepted
    <3>2. RunsWith(cfg', Accepted(env)) /\ cfg'.key = env.key
      BY <3>1, AcceptedRuns, ZenonT(30)
    <3>3. cfg'.key \in BOOLEAN
      BY <1>0, <3>2, EnvAssumption, ZenonT(30)
    <3>4. QED
      BY <1>0, <1>1, <2>1, <3>2, <3>3 DEF ConfigInv
  <2>2. CASE ~Accepts(Load(env), env)
    BY <1>0, <1>1, <1>2, <2>2, ZenonT(30) DEF Start, ConfigInv, Started
  <2>3. QED
    BY <2>1, <2>2, ZenonT(30)
<1>3. CASE CheckLicense
  <2>1. Started /\ \E x : cfg' = [cfg EXCEPT !.licensed = x]
    BY <1>3, ZenonT(30) DEF CheckLicense, Started
  <2>2. RunsWith(cfg', Accepted(env)) /\ cfg'.key = cfg.key
    BY <1>0, <2>1, LicenseReplaced DEF ConfigInv
  <2>3. QED
    BY <1>0, <1>1, <2>1, <2>2, ZenonT(30) DEF ConfigInv
<1>4. CASE Serve \/ Registers
  <2>1. Started
    BY <1>4, ZenonT(30) DEF Serve, Registers, Started
  <2>2. /\ cfg' \in {cfg, [cfg EXCEPT !.key = cfg.key \/ (cfg.gateway /\ stored)],
                     [cfg EXCEPT !.key = TRUE]}
        /\ Registers => cfg.gateway /\ cfg' = [cfg EXCEPT !.key = TRUE]
    BY <1>4, ZenonT(30) DEF Serve, Registers
  <2>3. cfg.gateway = env.gateway /\ {cfg.key, cfg.gateway} \subseteq BOOLEAN
    BY <2>1, StartedFields DEF RunsWith, FromEnvironment
  <2>4. CASE cfg' = cfg
    BY <1>0, <1>1, <2>1, <2>4 DEF ConfigInv
  <2>5. CASE Serve /\ cfg' = [cfg EXCEPT !.key = cfg.key \/ (cfg.gateway /\ stored)]
    <3>1. /\ RunsWith(cfg', Accepted(env))
          /\ cfg'.key = (cfg.key \/ (cfg.gateway /\ stored))
      BY <1>0, <2>1, <2>5, KeyReplaced DEF ConfigInv
    <3>2. cfg'.key \in BOOLEAN
      BY <3>1, ZenonT(30)
    <3>3. cfg'.key = cfg.key \/ (cfg'.key /\ cfg.gateway)
      BY <2>3, <3>1, ZenonT(30)
    <3>4. QED
      BY <1>0, <1>1, <2>1, <2>3, <3>1, <3>2, <3>3 DEF ConfigInv
  <2>6. CASE Registers
    <3>1. RunsWith(cfg', Accepted(env)) /\ cfg'.key = TRUE
      BY <1>0, <2>1, <2>2, <2>6, KeyReplaced DEF ConfigInv
    <3>2. QED
      BY <1>0, <1>1, <2>1, <2>2, <2>3, <2>6, <3>1, ZenonT(30) DEF ConfigInv
  <2>7. QED
    BY <1>4, <2>4, <2>5, <2>6, ZenonT(30) DEF Serve
<1>5. CASE ~(Start \/ CheckLicense \/ Serve \/ Registers)
  <2>1. (Started' => Started) /\ (Started' => cfg' = cfg)
    BY <1>5, ZenonT(30) DEF Next, vars, Started, Boot, BootFails, Stop, Agent,
          AgentProbes, AgentStores, SidecarChanges, DropChanges, LinkStep
  <2>2. QED
    BY <1>0, <1>1, <2>1, ZenonT(30) DEF ConfigInv
<1>6. QED
  BY <1>2, <1>3, <1>4, <1>5

(* The transport and the DNS service that the start chose stay the ones    *)
(* that the configuration calls for.                                       *)
LEMMA ChoiceKept ==
    ASSUME NodeInv, [Next]_vars
    PROVE  ChoiceInv'
<1>0. ChoiceInv /\ ConfigInv
  BY Zenon DEF NodeInv
<1>1. CASE CheckLicense
  <2>1. Started /\ \E x : cfg' = [cfg EXCEPT !.licensed = x]
    BY <1>1, Zenon DEF CheckLicense, Started
  <2>2. cfg'.stealth = cfg.stealth /\ cfg'.port = cfg.port
    BY <1>0, <2>1, LicenseReplaced DEF ConfigInv, RunsWith
  <2>3. QED
    BY <1>0, <1>1, <2>2 DEF CheckLicense, ChoiceInv, Running, part
<1>2. CASE Serve \/ Registers
  <2>1. Started
    BY <1>2, Zenon DEF Serve, Registers, Started
  <2>2. cfg' = cfg \/ \E x : cfg' = [cfg EXCEPT !.key = x]
    BY <1>2, ZenonT(30) DEF Serve, Registers
  <2>3. cfg'.stealth = cfg.stealth /\ cfg'.port = cfg.port /\ DNSService(cfg') = DNSService(cfg)
    BY <1>0, <2>1, <2>2, KeyReplaced DEF ConfigInv, RunsWith
  <2>4. QED
    BY <1>0, <1>2, <2>3, ZenonT(30) DEF Serve, Registers, ChoiceInv, Running, part
<1>3. CASE ~(CheckLicense \/ Serve \/ Registers)
  BY <1>0, <1>3, ZenonT(30) DEF Next, vars, part, ChoiceInv, Running, Start, Boot, BootFails, Stop, Agent,
        AgentProbes, AgentStores, SidecarChanges, DropChanges, LinkStep
<1>4. QED
  BY <1>1, <1>2, <1>3, ZenonT(30)

LEMMA NodeInvInductive == NodeInv /\ [Next]_vars => NodeInv'
BY ConfigKept, ChoiceKept, NodeTypes, ZenonT(30) DEF NodeInv

(* The invariant holds of every behaviour of the node.                     *)
LEMMA NodeInvariant == Spec => []NodeInv
BY NodeStarts, NodeInvInductive, PTL DEF Spec

-----------------------------------------------------------------------------
(* The readiness report                                                    *)

Passes(k) == k.optional \/ k.ok

(* A report is good when each of its checks passes.                        *)
LEMMA OkOfEight ==
    ASSUME NEW a, NEW b, NEW c, NEW d, NEW e, NEW f, NEW g, NEW h, NEW s,
           s = <<a, b, c, d, e, f, g, h>>
    PROVE  Ok(s) <=>
              /\ Passes(a) /\ Passes(b) /\ Passes(c) /\ Passes(d)
              /\ Passes(e) /\ Passes(f) /\ Passes(g) /\ Passes(h)
<1>1. DOMAIN s = 1 .. 8
  OBVIOUS
<1>2. /\ s[1] = a /\ s[2] = b /\ s[3] = c /\ s[4] = d
      /\ s[5] = e /\ s[6] = f /\ s[7] = g /\ s[8] = h
  BY Zenon
<1>3. Ok(s) <=> \A i \in 1 .. 8 : Passes(s[i])
  BY <1>1, ZenonT(30) DEF Ok, Passes
<1>4. ASSUME \A i \in 1 .. 8 : Passes(s[i])
      PROVE  /\ Passes(s[1]) /\ Passes(s[2]) /\ Passes(s[3]) /\ Passes(s[4])
             /\ Passes(s[5]) /\ Passes(s[6]) /\ Passes(s[7]) /\ Passes(s[8])
  BY <1>4
<1>5. ASSUME Passes(s[1]), Passes(s[2]), Passes(s[3]), Passes(s[4]),
             Passes(s[5]), Passes(s[6]), Passes(s[7]), Passes(s[8]), NEW i \in 1 .. 8
      PROVE  Passes(s[i])
  <2>1. i = 1 \/ i = 2 \/ i = 3 \/ i = 4 \/ i = 5 \/ i = 6 \/ i = 7 \/ i = 8
    OBVIOUS
  <2>2. QED
    BY <1>5, <2>1, ZenonT(30)
<1>6. Ok(s) <=> /\ Passes(s[1]) /\ Passes(s[2]) /\ Passes(s[3]) /\ Passes(s[4])
                /\ Passes(s[5]) /\ Passes(s[6]) /\ Passes(s[7]) /\ Passes(s[8])
  BY <1>3, <1>4, <1>5, ZenonT(30)
<1>7. QED
  BY <1>2, <1>6, ZenonT(30)

(* A non-empty set of natural numbers has a least element.                 *)
LEMMA LeastIndex ==
    ASSUME NEW S, S \subseteq Nat, S # {}
    PROVE  Min(S) \in S
<1>. DEFINE R == {ss \in Nat \X Nat : ss[1] < ss[2]}
<1>1. IsWellFoundedOn(R, Nat)
  BY NatLessThanWellFounded, ZenonT(30) DEF OpToRel
<1>. HIDE DEF R
<1>2. PICK x \in S : \A y \in S : ~ (<<y, x>> \in R)
  BY <1>1, WFMin, ZenonT(30)
<1>3. \A y \in S : ~ (y < x)
  BY <1>2, ZenonT(30) DEF R
<1>4. \A y \in S : x <= y
  BY <1>3
<1>. QED
  BY <1>4, ZenonT(30) DEF Min

(* The line is "ready" exactly for a report without a failing check.       *)
LEMMA ReadyLine ==
    ASSUME NEW r, DOMAIN r.checks = 1 .. Len(r.checks), Len(r.checks) \in Nat,
           r.ok <=> Ok(r.checks), \A i \in DOMAIN r.checks : r.checks[i].id # "ready"
    PROVE  SummaryLine(r) = "ready" <=> r.ok
<1> DEFINE failing == {i \in 1 .. Len(r.checks) : ~r.checks[i].optional /\ ~r.checks[i].ok}
<1>1. CASE r.ok
  BY <1>1, ZenonT(30) DEF SummaryLine
<1>2. CASE ~r.ok
  <2>1. failing # {} /\ failing \subseteq Nat
    BY <1>2 DEF Ok
  <2>2. Min(failing) \in failing
    BY <2>1, LeastIndex, ZenonT(30)
  <2>3. SummaryLine(r) = r.checks[Min(failing)].id
    BY <1>2, <2>1, ZenonT(30) DEF SummaryLine, SelectInSeq
  <2>4. QED
    BY <1>2, <2>2, <2>3, ZenonT(30)
<1>3. QED
  BY <1>1, <1>2, ZenonT(30)

(* What has to hold for the report on a running node to be good.           *)
LEMMA EvaluateOk ==
    ASSUME NEW c, NEW in
    PROVE  /\ Evaluate(c, in).ok <=>
                 /\ c.mnemonic /\ c.host
                 /\ c.key \/ c.runType = "debug"
                 /\ in.wg
                 /\ c.stealth => in.stealth
                 /\ HasFirewallService(c) => in.firewall
                 /\ c.gateway => in.registered
           /\ SummaryLine(Evaluate(c, in)) = "ready" <=> Evaluate(c, in).ok
<1> DEFINE r == Evaluate(c, in)
           a == apiKeyCheck(c)
           s == stealthCheck(c, in.stealth)
           f == firewallCheck(c, in.firewall)
           d == dropCheck(c, in.drop)
           g == controlPlaneCheck(c, in.registered, in.connected)
           checks == <<Check("identity", c.mnemonic), Check("public_address", c.host), a,
                       Check("wireguard", in.wg), s, f, d, g>>
<1>1. r.checks = checks /\ (r.ok <=> Ok(checks))
  BY Zenon DEF Evaluate
<1>2. /\ Passes(Check("identity", c.mnemonic)) <=> c.mnemonic
      /\ Passes(Check("public_address", c.host)) <=> c.host
      /\ Passes(Check("wireguard", in.wg)) <=> in.wg
  BY Zenon DEF Passes, Check
<1>3. /\ Passes(a) <=> (c.key \/ c.runType = "debug")
      /\ Passes(s) <=> (c.stealth => in.stealth)
      /\ Passes(f) <=> (HasFirewallService(c) => in.firewall)
      /\ Passes(d)
      /\ Passes(g) <=> (c.gateway => in.registered)
  BY Zenon DEF Passes, Check, Optional, apiKeyCheck, stealthCheck, firewallCheck, dropCheck,
         controlPlaneCheck
<1>4. /\ a.id = "node_api_key" /\ s.id = "stealth" /\ f.id = "firewall" /\ d.id = "drop"
      /\ g.id = "control_plane" /\ Check("identity", c.mnemonic).id = "identity"
      /\ Check("public_address", c.host).id = "public_address"
      /\ Check("wireguard", in.wg).id = "wireguard"
  BY Zenon DEF Check, Optional, apiKeyCheck, stealthCheck, firewallCheck, dropCheck, controlPlaneCheck
<1> HIDE DEF r, a, s, f, d, g
<1>5. Len(checks) = 8 /\ DOMAIN checks = 1 .. 8
  OBVIOUS
<1>6. ASSUME NEW i \in 1 .. 8
      PROVE  checks[i].id # "ready"
  <2>1. i = 1 \/ i = 2 \/ i = 3 \/ i = 4 \/ i = 5 \/ i = 6 \/ i = 7 \/ i = 8
    OBVIOUS
  <2>2. QED
    BY <1>4, <2>1
<1>7. SummaryLine(r) = "ready" <=> r.ok
  <2> HIDE DEF checks
  <2>1. Len(r.checks) \in Nat /\ DOMAIN r.checks = 1 .. Len(r.checks)
    BY <1>1, <1>5
  <2>2. (r.ok <=> Ok(r.checks)) /\ \A i \in DOMAIN r.checks : r.checks[i].id # "ready"
    BY <1>1, <1>5, <1>6, ZenonT(30)
  <2>3. QED
    BY <2>1, <2>2, ReadyLine, ZenonT(30)
<1>8. r.ok <=> /\ c.mnemonic /\ c.host
               /\ c.key \/ c.runType = "debug"
               /\ in.wg
               /\ c.stealth => in.stealth
               /\ HasFirewallService(c) => in.firewall
               /\ c.gateway => in.registered
  BY <1>1, <1>2, <1>3, OkOfEight
<1>9. QED
  BY <1>7, <1>8 DEF r

(* What Validate has established of the configuration of a started node.   *)
LEMMA StartedAccepted ==
    ASSUME NodeInv, Started
    PROVE  /\ cfg.mnemonic /\ cfg.host
           /\ cfg.provider \in Provider /\ cfg.profile \in {"standard", "shield", "sentinel"}
           /\ cfg.drop => cfg.bytes > 0
           /\ ParseModeSettings(env.access, env.net) # NoMode
<1>1. RunsWith(cfg, Accepted(env)) /\ SameButMode(Accepted(env), Load(env))
  BY StartedFields, ZenonT(30) DEF FromEnvironment
<1>2. Accepts(Load(env), env)
  BY Zenon DEF NodeInv, ConfigInv
<1>3. cfg.mnemonic /\ cfg.host
  <2>1. Load(env).mnemonic /\ Load(env).host
    BY <1>2, ZenonT(30) DEF Accepts
  <2>2. QED
    BY <1>1, <2>1, ZenonT(30) DEF RunsWith, SameButMode
<1>4. cfg.provider \in Provider /\ cfg.profile \in {"standard", "shield", "sentinel"}
  <2>1. ValidateProfile(Load(env))
    BY <1>2, ZenonT(30) DEF Accepts
  <2>2. QED
    BY <1>1, <2>1 DEF RunsWith, SameButMode, ValidateProfile
<1>5. cfg.drop => cfg.bytes > 0
  <2>1. Load(env).drop => Load(env).bytes > 0
    BY <1>2, ZenonT(30) DEF Accepts
  <2>2. QED
    BY <1>1, <2>1, ZenonT(30) DEF RunsWith, SameButMode
<1>6. ParseModeSettings(env.access, env.net) # NoMode
  BY <1>2, ZenonT(30) DEF Accepts
<1>7. QED
  BY <1>3, <1>4, <1>5, <1>6, ZenonT(30)

Signals ==
    [wg |-> wg, stealth |-> stealth, firewall |-> FirewallOK, drop |-> drop,
     registered |-> cfg.gateway /\ stored, connected |-> connected]

(* What the report on a running node depends on.                           *)
LEMMA ReportOk ==
    ASSUME NodeInv, Running
    PROVE  /\ SummaryLine(Report) = "ready" <=> Report.ok
           /\ Report.ok <=>
                 /\ cfg.key \/ cfg.runType = "debug"
                 /\ wg
                 /\ cfg.stealth => stealth
                 /\ HasFirewallService(cfg) => FirewallOK
                 /\ cfg.gateway => stored
<1>1. cfg.mnemonic /\ cfg.host
  BY StartedAccepted, ZenonT(30) DEF Running, Started
<1>2. Report = Evaluate(cfg, Signals)
  BY Zenon DEF Report, Signals
<1>3. /\ Signals.wg <=> wg
      /\ Signals.stealth <=> stealth
      /\ Signals.firewall <=> FirewallOK
      /\ Signals.registered <=> (cfg.gateway /\ stored)
  BY Zenon DEF Signals
<1>4. QED
  BY <1>1, <1>2, <1>3, EvaluateOk

(* No step of the node, the gateway or the Drop store takes away what the  *)
(* report depends on; the sidecar's health is the only thing that goes.    *)
LEMMA StepStaysReady ==
    ASSUME NodeInv, NodeInv', [Next]_vars
    PROVE  StaysReady
<1> SUFFICES ASSUME Running, Running', Ready, ~(snapshot = "active" /\ snapshot' # "active")
             PROVE  Ready'
  BY Zenon DEF StaysReady
<1>1. /\ cfg.key \/ cfg.runType = "debug"
      /\ wg
      /\ cfg.stealth => stealth
      /\ HasFirewallService(cfg) => FirewallOK
      /\ cfg.gateway => stored
  BY ReportOk, Zenon DEF Ready
<1>2. Started
  BY Zenon DEF Running, Started
<1>3. RunsWith(cfg, Accepted(env)) /\ cfg.key \in BOOLEAN
  BY <1>2, ZenonT(30) DEF NodeInv, ConfigInv
<1>4. wg' = wg /\ stealth' = stealth /\ (stored => stored')
  <2>1. wg' = wg
    BY ZenonT(30) DEF Running, Next, vars, part, Start, Boot, BootFails, CheckLicense, Serve,
          Stop, Agent, AgentProbes, AgentStores, SidecarChanges, DropChanges, Registers, LinkStep
  <2>2. stealth' = stealth
    BY ZenonT(30) DEF Running, Next, vars, part, Start, Boot, BootFails, CheckLicense, Serve,
          Stop, Agent, AgentProbes, AgentStores, SidecarChanges, DropChanges, Registers, LinkStep
  <2>3. stored' = stored \/ stored' = TRUE
    BY ZenonT(30) DEF Running, Next, vars, channel, Start, Boot, BootFails, CheckLicense, Serve,
          Stop, Agent, AgentProbes, AgentStores, SidecarChanges, DropChanges, Registers, LinkStep
  <2>4. ASSUME stored' = TRUE
        PROVE  stored'
    BY <2>4
  <2>5. ASSUME stored' = stored, stored
        PROVE  stored'
    BY <2>5
  <2>6. QED
    BY <2>1, <2>2, <2>3, <2>4, <2>5, Zenon
<1>5. cfg' = cfg \/ cfg' = [cfg EXCEPT !.key = TRUE]
  BY ZenonT(30) DEF Running, Next, vars, Start, Boot, BootFails, CheckLicense, Serve, Stop, Agent,
        AgentProbes, AgentStores, SidecarChanges, DropChanges, Registers, LinkStep
<1>6. /\ cfg.key => cfg'.key
      /\ cfg'.runType = cfg.runType /\ cfg'.stealth = cfg.stealth
      /\ cfg'.gateway = cfg.gateway /\ cfg'.provider = cfg.provider
      /\ cfg'.licensed = cfg.licensed
  <2>1. CASE cfg' = cfg
    BY <2>1, ZenonT(30)
  <2>2. CASE cfg' = [cfg EXCEPT !.key = TRUE]
    BY <1>3, <2>2, ZenonT(30) DEF RunsWith, IsConfig, Field
  <2>3. QED
    BY <1>5, <2>1, <2>2, Zenon
<1>7. HasFirewallService(cfg') => FirewallOK'
  BY <1>1, <1>6, ZenonT(30) DEF HasFirewallService, FirewallOK
<1>8. /\ (cfg.key \/ cfg.runType = "debug")'
      /\ wg'
      /\ (cfg.stealth => stealth)'
      /\ (cfg.gateway => stored)'
  BY <1>1, <1>4, <1>6, ZenonT(30)
<1>9. (SummaryLine(Report) = "ready" <=> Report.ok)'
      /\ (Report.ok <=> /\ cfg.key \/ cfg.runType = "debug"
                        /\ wg
                        /\ cfg.stealth => stealth
                        /\ HasFirewallService(cfg) => FirewallOK
                        /\ cfg.gateway => stored)'
  BY ReportOk, PTL
<1>10. QED
  BY <1>7, <1>8, <1>9, ZenonT(30) DEF Ready

(* A report of checks that pass is good.                                   *)
LEMMA OkOfPassing ==
    ASSUME NEW S, \A k \in S : Passes(k), NEW s \in Seq(S)
    PROVE  Ok(s)
<1> SUFFICES ASSUME NEW i \in DOMAIN s
             PROVE  Passes(s[i])
  BY Zenon DEF Ok, Passes
<1>1. s[i] \in S
  OBVIOUS
<1>2. QED
  BY <1>1, ZenonT(30)

LEMMA ShortSeqs ==
    ASSUME NEW S, NEW a \in S, NEW b \in S, NEW c \in S, NEW d \in S
    PROVE  <<>> \in Seq(S) /\ <<a>> \in Seq(S) /\ <<a, b>> \in Seq(S) /\ <<a, b, c, d>> \in Seq(S)
OBVIOUS

(* The first checks of Preboot are the only ones that can fail.            *)
LEMMA PrebootOk ==
    ASSUME NEW c, c.mnemonic, c.host, c.key \/ c.runType = "debug"
    PROVE  Preboot(c).ok
<1> DEFINE identity == Check("identity", c.mnemonic)
           address == Check("public_address", c.host)
           api == apiKeyCheck(c)
           first == <<identity, address, api, Optional("wireguard", TRUE)>>
           middle == IF c.stealth THEN <<Optional("stealth", TRUE)>> ELSE <<>>
           last == <<Optional("drop", TRUE), Optional("control_plane", TRUE)>>
           S == {k \in {identity, address, api, Optional("wireguard", TRUE),
                        Optional("stealth", TRUE), Optional("drop", TRUE),
                        Optional("control_plane", TRUE)} : Passes(k)}
<1>1. Passes(identity) /\ Passes(address) /\ Passes(api)
  BY Zenon DEF Passes, Check, Optional, apiKeyCheck
<1>2. \A id : Passes(Optional(id, TRUE))
  BY Zenon DEF Passes, Optional
<1>3. Preboot(c).ok = Ok(first \o middle \o last)
  BY Zenon DEF Preboot
<1> HIDE DEF identity, address, api
<1>4. {identity, address, api, Optional("wireguard", TRUE), Optional("stealth", TRUE),
       Optional("drop", TRUE), Optional("control_plane", TRUE)} \subseteq S
  BY <1>1, <1>2, ZenonT(30)
<1>5. \A k \in S : Passes(k)
  BY Zenon
<1> HIDE DEF S
<1>6. first \in Seq(S) /\ last \in Seq(S)
  BY <1>4, ShortSeqs, ZenonT(30)
<1>7. middle \in Seq(S)
  BY <1>4, ShortSeqs, ZenonT(30)
<1> HIDE DEF first, middle, last
<1>8. first \o middle \o last \in Seq(S)
  BY <1>6, <1>7
<1>9. QED
  BY <1>3, <1>5, <1>8, OkOfPassing, ZenonT(30)

LEMMA InvPrebootForesees == NodeInv => PrebootForesees
<1> SUFFICES ASSUME NodeInv, Running, Report.ok, ~stored
             PROVE  Preboot(Accepted(env)).ok
  BY Zenon DEF PrebootForesees, Accepted
<1> DEFINE c == Accepted(env)
<1>1. Started
  BY Zenon DEF Running, Started
<1>2. RunsWith(cfg, c) /\ FromEnvironment(c, env)
  BY <1>1, StartedFields, ZenonT(30)
<1>3. cfg.mnemonic /\ cfg.host
  BY <1>1, StartedAccepted, ZenonT(30)
<1>4. (cfg.key \/ cfg.runType = "debug") /\ ~cfg.gateway
  BY ReportOk, ZenonT(30)
<1>5. cfg.key = env.key \/ env.gateway
  BY <1>1, ZenonT(30) DEF NodeInv, ConfigInv
<1> HIDE DEF c
<1>6. /\ c.mnemonic = cfg.mnemonic /\ c.host = cfg.host /\ c.runType = cfg.runType
      /\ c.key = env.key /\ c.gateway = cfg.gateway /\ c.gateway = env.gateway
  BY <1>2, ZenonT(30) DEF RunsWith, FromEnvironment
<1>7. c.mnemonic /\ c.host /\ (c.key \/ c.runType = "debug")
  BY <1>3, <1>4, <1>5, <1>6
<1>8. QED
  BY <1>7, PrebootOk DEF c

-----------------------------------------------------------------------------
(* Access mode, DNS, storage and transport                                 *)

LEMMA InvPrivateStaysPrivate == NodeInv => PrivateStaysPrivate
<1> DEFINE private == env.access = "private" \/ (env.access = "" /\ env.net = "private")
           m == ParseModeSettings(env.access, env.net)
<1> SUFFICES ASSUME NodeInv, Running
             PROVE  /\ GatewayAccessMode(cfg) = "private" <=> private
                    /\ private => ~DropAcceptsPublicUploads(cfg)
                    /\ env.net = "private" => env.access = ""
  BY Zenon DEF PrivateStaysPrivate
<1>1. Started
  BY Zenon DEF Running, Started
<1>2. m # NoMode
  BY <1>1, StartedAccepted, ZenonT(30)
<1>3. m.runtime \in {"private", "public"} /\ (m.runtime = "private" <=> private)
  BY <1>2, ZenonT(30) DEF ParseModeSettings, AccessOf, LegacyAccess, Access, NoMode
<1>4. env.net = "private" => env.access = ""
  BY <1>2, ZenonT(30) DEF ParseModeSettings, AccessOf, LegacyAccess, Access, NoMode
<1>5. cfg.mode.runtime = m.runtime
  BY <1>1, StartedFields DEF RunsWith, FromEnvironment
<1> HIDE DEF m, private
<1>6. QED
  BY <1>3, <1>4, <1>5, ZenonT(30) DEF GatewayAccessMode, DropAcceptsPublicUploads, IsPublic

LEMMA InvTunnelDNSServed == NodeInv => TunnelDNSServed
<1> SUFFICES ASSUME NodeInv, Running, dns # NoDNS, cfg.profile # "standard",
                    HasFirewallService(cfg), env.wgdns = "publicDNS", PortOf(env.privAddr) = 53
             PROVE  dns.listen = <<cfg.wgdns, 53>> /\ dns.upstream = cfg.fwDNS
  BY Zenon DEF TunnelDNSServed
<1> DEFINE tunnel == tunnelGatewayIP(env.subnet, env.privAddr)
<1>1. Started
  BY Zenon DEF Running, Started
<1>2. cfg.profile \in {"shield", "sentinel"}
  BY <1>1, StartedAccepted, ZenonT(30)
<1>3. /\ cfg.wgdns = tunnel
      /\ cfg.privAddr = Default(env.privAddr, tunnel)
  <2>1. RunsWith(cfg, Accepted(env)) /\ FromEnvironment(Accepted(env), env)
    BY <1>1, StartedFields, ZenonT(30)
  <2>2. Accepted(env).profile \in {"shield", "sentinel"}
    BY <1>2, <2>1, ZenonT(30) DEF RunsWith
  <2>3. QED
    BY <2>1, <2>2, ZenonT(30) DEF RunsWith, FromEnvironment
<1>4. env.privAddr # "ipPort"
  BY DEF PortOf
<1>5. tunnel # "" /\ tunnel # "ipPort" /\ cfg.privAddr = tunnel
  BY <1>3, <1>4, ZenonT(30) DEF tunnelGatewayIP, HostOf, Default
<1>6. DefaultListenAddr(cfg.subnet, cfg.privAddr) = <<tunnel, 53>>
  <2> HIDE DEF tunnel
  <2>1. HostOf(tunnel) = tunnel
    BY <1>5, ZenonT(30) DEF HostOf
  <2>2. PortOf(tunnel) = 53
    BY <1>5, ZenonT(30) DEF PortOf
  <2>3. QED
    BY <1>5, <2>1, <2>2, ZenonT(30) DEF DefaultListenAddr
<1>7. dns = DNSService(cfg)
  BY Zenon DEF NodeInv, ChoiceInv
<1>8. QED
  BY <1>3, <1>6, <1>7 DEF DNSService, NoDNS

LEMMA SmallRemainder ==
  ASSUME NEW a \in Nat, NEW b \in Nat, a < b
  PROVE  a % b = a
OBVIOUS

LEMMA QuotientBound ==
  ASSUME NEW a \in Nat, NEW b \in Nat \ {0}
  PROVE  (a \div b) \in Int /\ b * (a \div b) <= a
OBVIOUS

LEMMA ProductBound ==
  ASSUME NEW n \in Nat, NEW q \in Nat, NEW s \in Nat, n <= q
  PROVE  s * n <= s * q
OBVIOUS

(* A size that parses is the product: the check before the multiplication  *)
(* keeps it within 64 bits.                                                *)
LEMMA SizeExact ==
  ASSUME NEW n \in Int, NEW scale \in Nat \ {0}, parseByteSize(n, scale) > 0
  PROVE  parseByteSize(n, scale) = n * scale
<1> DEFINE q == MaxInt \div scale
           x == n * scale
<1>1. n > 0 /\ ~(n > q) /\ parseByteSize(n, scale) = Int64(x)
  BY DEF parseByteSize
<1>2. q \in Int /\ scale * q <= MaxInt
  BY QuotientBound, WidthAssumption, ZenonT(30)
<1> HIDE DEF q
<1>3. n \in Nat /\ q \in Nat /\ n <= q
  BY <1>1, <1>2
<1>4. scale * n <= scale * q
  BY <1>3, ProductBound, ZenonT(30)
<1>5. x \in Nat /\ x <= MaxInt
  <2>1. x = scale * n /\ x \in Nat /\ scale * n \in Int /\ scale * q \in Int
    BY <1>3
  <2> HIDE DEF x
  <2>2. QED
    BY <1>2, <1>4, <2>1, WidthAssumption
<1> HIDE DEF x
<1>6. /\ x + MaxInt + 1 \in Nat /\ 2 * (MaxInt + 1) \in Nat
      /\ x + MaxInt + 1 < 2 * (MaxInt + 1)
  BY <1>5, WidthAssumption
<1>7. (x + MaxInt + 1) % (2 * (MaxInt + 1)) = x + MaxInt + 1
  BY <1>6, SmallRemainder, ZenonT(30)
<1>8. Int64(x) = x
  BY <1>5, <1>7, WidthAssumption DEF Int64
<1>9. QED
  BY <1>1, <1>8, ZenonT(30) DEF x

LEMMA InvStorageExact == NodeInv => StorageExact
<1> SUFFICES ASSUME NodeInv, Running, cfg.drop
             PROVE  cfg.bytes = env.size.n * env.size.scale /\ cfg.bytes > 0
  BY Zenon DEF StorageExact
<1>1. Started
  BY Zenon DEF Running, Started
<1>2. cfg.bytes > 0
  BY <1>1, StartedAccepted, ZenonT(30)
<1>3. cfg.bytes = parseByteSize(env.size.n, env.size.scale)
  BY <1>1, StartedFields DEF RunsWith, FromEnvironment
<1>4. env.size.n \in Int /\ env.size.scale \in Nat \ {0}
  BY EnvAssumption, ZenonT(30) DEF NodeInv
<1>5. QED
  BY <1>2, <1>3, <1>4, SizeExact

(* Of successful probes with one score, the first is selected.             *)
LEMMA FirstWins ==
    ASSUME NEW r, NEW k \in Successful(r), Successful(r) \subseteq Nat,
           Score(r[k]) \in Int,
           \A j \in Successful(r) : k <= j /\ Score(r[j]) = Score(r[k])
    PROVE  SelectBest(r) = [kind |-> r[k].kind, score |-> Score(r[k])]
<1> DEFINE ok == Successful(r)
           wins(i) == \A j \in ok : \/ Score(r[j]) < Score(r[i])
                                    \/ Score(r[j]) = Score(r[i]) /\ i <= j
           b == CHOOSE i \in ok : wins(i)
<1>1. wins(k)
  BY Zenon
<1>2. b \in ok /\ wins(b)
  <2> HIDE DEF wins
  <2>1. \E i \in ok : wins(i)
    BY <1>1, ZenonT(30)
  <2>2. QED
    BY <2>1, ZenonT(30)
<1>3. SelectBest(r) = [kind |-> r[b].kind, score |-> Score(r[b])]
  BY ZenonT(30) DEF SelectBest
<1> HIDE DEF b
<1>4. b <= k
  BY <1>2
<1>5. b = k
  BY <1>2, <1>4
<1>6. QED
  BY <1>3, <1>5, ZenonT(30)

Ladder == <<"wireguard", "hysteria2", "vless">>

Offered(c, k) == c.port[k] > 0 /\ (k = "wireguard" \/ c.stealth)

(* The probes of the local prober: all that succeed score 100.             *)
LEMMA ProbeResults ==
    ASSUME NEW c, c.stealth \in BOOLEAN, NEW r,
           r = Probe(c.stealth, c.port, ImplementedLadder(c.stealth))
    PROVE  /\ Successful(r) = {i \in 1 .. 3 : Offered(c, Ladder[i])}
           /\ \A i \in Successful(r) : r[i].kind = Ladder[i] /\ Score(r[i]) = 100
<1> DEFINE kinds == ImplementedLadder(c.stealth)
<1>1. CASE c.stealth
  <2>1. kinds = Ladder
    BY <1>1, ZenonT(30) DEF ImplementedLadder, Ladder
  <2> HIDE DEF kinds
  <2>2. /\ DOMAIN kinds = 1 .. 3
        /\ kinds[1] = Ladder[1] /\ kinds[2] = Ladder[2] /\ kinds[3] = Ladder[3]
    BY <2>1 DEF Ladder
  <2>3. r = [i \in 1 .. 3 |-> [kind |-> kinds[i], latency |-> 1, loss |-> 0,
                              success |-> Offered(c, kinds[i])]]
    BY <2>2, ZenonT(30) DEF Probe, Offered, kinds
  <2>4. \A i \in 1 .. 3 : kinds[i] = Ladder[i]
    BY <2>2
  <2>5. QED
    BY <2>3, <2>4 DEF Successful, Score
<1>2. CASE ~c.stealth
  <2>1. kinds = <<"wireguard">>
    BY <1>2, ZenonT(30) DEF ImplementedLadder
  <2> HIDE DEF kinds
  <2>2. DOMAIN kinds = {1} /\ kinds[1] = "wireguard"
    BY <2>1
  <2>3. r = [i \in {1} |-> [kind |-> kinds[i], latency |-> 1, loss |-> 0,
                            success |-> Offered(c, kinds[i])]]
    BY <2>2, ZenonT(30) DEF Probe, Offered, kinds
  <2>4. Ladder[1] = "wireguard" /\ Ladder[2] = "hysteria2" /\ Ladder[3] = "vless"
    BY ZenonT(30) DEF Ladder
  <2>5. ~Offered(c, Ladder[2]) /\ ~Offered(c, Ladder[3])
    BY <1>2, <2>4, ZenonT(30) DEF Offered
  <2>6. QED
    BY <2>2, <2>3, <2>4, <2>5 DEF Successful, Score
<1>3. QED
  BY <1>1, <1>2, ZenonT(30)

LEMMA InvLadderPreferred == NodeInv => LadderPreferred
<1> SUFFICES ASSUME NodeInv, Running
             PROVE  best = IF Offered(cfg, "wireguard") THEN [kind |-> "wireguard", score |-> 100]
                           ELSE IF Offered(cfg, "hysteria2") THEN [kind |-> "hysteria2", score |-> 100]
                           ELSE IF Offered(cfg, "vless") THEN [kind |-> "vless", score |-> 100]
                           ELSE NoTransport
  BY ZenonT(30) DEF LadderPreferred, Offered
<1> DEFINE r == Probe(cfg.stealth, cfg.port, ImplementedLadder(cfg.stealth))
           ok == Successful(r)
<1>1. best = SelectBest(r)
  BY Zenon DEF NodeInv, ChoiceInv, Select, Running
<1>2. cfg.stealth \in BOOLEAN
  BY StartedFields, EnvAssumption, ZenonT(30) DEF Running, Started, RunsWith, FromEnvironment, NodeInv
<1>3. /\ ok = {i \in 1 .. 3 : Offered(cfg, Ladder[i])}
      /\ \A i \in ok : r[i].kind = Ladder[i] /\ Score(r[i]) = 100
  BY <1>2, ProbeResults
<1> HIDE DEF r
<1>4. Ladder[1] = "wireguard" /\ Ladder[2] = "hysteria2" /\ Ladder[3] = "vless"
  BY ZenonT(30) DEF Ladder
<1>5. ASSUME NEW k \in ok, \A j \in ok : k <= j
      PROVE  best = [kind |-> Ladder[k], score |-> 100]
  <2>1. ok \subseteq Nat /\ Score(r[k]) \in Int
    BY <1>3
  <2>2. best = [kind |-> r[k].kind, score |-> Score(r[k])]
    BY <1>1, <1>3, <1>5, <2>1, FirstWins
  <2>3. QED
    BY <1>3, <2>2, ZenonT(30)
<1>6. CASE Offered(cfg, "wireguard")
  <2>1. 1 \in ok /\ \A j \in ok : 1 <= j
    BY <1>3, <1>4, <1>6
  <2>2. QED
    BY <1>4, <1>5, <1>6, <2>1, ZenonT(30)
<1>7. CASE ~Offered(cfg, "wireguard") /\ Offered(cfg, "hysteria2")
  <2>1. 2 \in ok /\ \A j \in ok : 2 <= j
    BY <1>3, <1>4, <1>7
  <2>2. QED
    BY <1>4, <1>5, <1>7, <2>1, ZenonT(30)
<1>8. CASE ~Offered(cfg, "wireguard") /\ ~Offered(cfg, "hysteria2") /\ Offered(cfg, "vless")
  <2>1. 3 \in ok /\ \A j \in ok : 3 <= j
    BY <1>3, <1>4, <1>8
  <2>2. QED
    BY <1>4, <1>5, <1>8, <2>1, ZenonT(30)
<1>9. CASE ~Offered(cfg, "wireguard") /\ ~Offered(cfg, "hysteria2") /\ ~Offered(cfg, "vless")
  <2>1. ok = {}
    BY <1>3, <1>4, <1>9
  <2>2. QED
    BY <1>1, <1>9, <2>1, ZenonT(30) DEF SelectBest
<1>10. QED
  BY <1>6, <1>7, <1>8, <1>9

-----------------------------------------------------------------------------
(* The theorems                                                            *)

(* The variables of the node keep their types through loading, start,      *)
(* probes, registration and the connection, for every environment          *)
(* (erebrus.Run and the loops it starts).                                  *)
THEOREM NodeTypesKept == Spec => []TypeOK
<1>1. NodeInv => TypeOK
  BY ZenonT(30) DEF NodeInv
<1>2. QED
  BY <1>1, NodeInvariant, PTL

(* A node that is ready stays ready until it stops or its agent stores     *)
(* that the sidecar is out of order, for every environment: neither the    *)
(* gateway nor the Drop store can take it out of service (Evaluate, called *)
(* with the signals of the moment, and SummaryLine).                       *)
THEOREM ReadyIsKept == Spec => ReadyKept
<1>1. NodeInv /\ NodeInv' /\ [Next]_vars => [StaysReady]_vars
  BY StepStaysReady, Zenon
<1>2. QED
  BY <1>1, NodeInvariant, PTL DEF Spec, ReadyKept

(* A node that is ready was one the check before the start let through,    *)
(* unless the settings have given it a key: Preboot, which sees the        *)
(* configuration only, demands nothing else that a ready node can be       *)
(* without (readiness.Preboot against readiness.Evaluate).                 *)
THEOREM PrebootIsSound == Spec => []PrebootForesees
<1>1. NodeInv => PrebootForesees
  BY InvPrebootForesees
<1>2. QED
  BY <1>1, NodeInvariant, PTL

(* The address the clients of a shield or sentinel node are told to        *)
(* resolve at is one the node listens on, and what it forwards to is the   *)
(* sidecar (ApplyProfileDefaults and DefaultListenAddr derive it apart).   *)
THEOREM TunnelDNSStaysServed == Spec => []TunnelDNSServed
<1>1. NodeInv => TunnelDNSServed
  BY InvTunnelDNSServed, ZenonT(30)
<1>2. QED
  BY <1>1, NodeInvariant, PTL

(* A node is private exactly when the access mode is, or the network       *)
(* profile with no access mode beside it; it then takes no public uploads, *)
(* and with both set it does not run (ParseModeSettings).                  *)
THEOREM PrivateIsKept == Spec => []PrivateStaysPrivate
<1>1. NodeInv => PrivateStaysPrivate
  BY InvPrivateStaysPrivate, ZenonT(30)
<1>2. QED
  BY <1>1, NodeInvariant, PTL

(* The store of a running node has the size the operator wrote: no 64-bit  *)
(* overflow is left, for any width of the integers (parseByteSize).        *)
THEOREM StorageIsExact == Spec => []StorageExact
<1>1. NodeInv => StorageExact
  BY InvStorageExact, Zenon
<1>2. QED
  BY <1>1, NodeInvariant, PTL

(* The transport a running node prefers is the first of the ladder that it *)
(* offers (SelectBest over the probes of the ladder).                      *)
THEOREM LadderIsPreferred == Spec => []LadderPreferred
<1>1. NodeInv => LadderPreferred
  BY InvLadderPreferred, Zenon
<1>2. QED
  BY <1>1, NodeInvariant, PTL
=============================================================================

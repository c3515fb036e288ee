------------------------------- MODULE Config -------------------------------
(***************************************************************************)
(* The node's configuration: what config.Load makes of the environment,    *)
(* what a deployment profile fills in and what Validate rejects            *)
(* (internal/config).                                                      *)
(*                                                                         *)
(* An environment is a record.  Free text is a token: a file or a host is  *)
(* there or not, a number parses or not; tokens are trimmed and lower case,*)
(* as the parsers make them.  Settings that are only copied (names, paths, *)
(* interface, wallet chain) are left out.                                  *)
(***************************************************************************)
EXTENDS Integers

CONSTANTS
    MaxInt      \* the largest int64

ASSUME WidthAssumption == MaxInt \in Nat \ {0}

Provider == {"none", "adguard_home", "unbound_erebrus"}

-----------------------------------------------------------------------------
(* Access mode and network profile                                         *)

Access == {"private", "public", "gateway"}

NoMode == [runtime |-> "", net |-> "", warnings |-> {}]

(* The access mode given, as it once was, in the other variable.           *)
LegacyAccess(access, net) == access = "" /\ net \in Access

(* Mutant: the legacy token is taken out of the profile and forgotten.     *)
AccessNotMoved(access, net) == access

AccessOf(access, net) == IF LegacyAccess(access, net) THEN net ELSE access

ParseModeSettings(access, net) ==
    LET legacy == LegacyAccess(access, net)
        a == AccessOf(access, net)
        n == IF legacy THEN "" ELSE net
    IN  IF a \notin Access \cup {""} \/ n \notin {"", "bridge", "host-network", "native"}
        THEN NoMode
        ELSE [runtime  |-> IF a = "private" THEN "private" ELSE "public",
              net      |-> IF n = "" THEN "bridge" ELSE n,
              warnings |-> {w \in {"legacy", "deprecated", "native"} :
                              \/ w = "legacy" /\ legacy
                              \/ w = "deprecated" /\ a = "gateway"
                              \/ w = "native" /\ n = "native"}]

IsPublic(c) == c.mode.runtime = "public"

GatewayAccessMode(c) == IF IsPublic(c) THEN "public" ELSE "private"

-----------------------------------------------------------------------------
(* Sizes and addresses                                                     *)

(* What int64 arithmetic makes of x.                                       *)
Int64(x) == ((x + MaxInt + 1) % (2 * (MaxInt + 1))) - (MaxInt + 1)

(* Mutant: the product is not checked.                                     *)
ByteSizeUnchecked(n, scale) == IF n <= 0 THEN 0 ELSE Int64(n * scale)

(* The number n with a unit of scale bytes; 0 stands for an error.         *)
parseByteSize(n, scale) ==
    IF n <= 0 \/ n > MaxInt \div scale THEN 0 ELSE Int64(n * scale)

(* PRIVATE_DNS_ADDR: nothing, an address, or an address with a port, 54.   *)
HostOf(addr) == IF addr = "ipPort" THEN "ip" ELSE addr

PortOf(addr) == IF addr = "ipPort" THEN 54 ELSE 53

(* Mutant: an override is not looked at.                                   *)
TunnelIPFixed(parses, override) == IF parses THEN "gw" ELSE "guess"

(* The tunnel address of a profile: the override, the server's address in  *)
(* a subnet that parses, or a guess (10.0.0.1).                            *)
tunnelGatewayIP(parses, override) ==
    IF override # "" THEN HostOf(override)
    ELSE IF parses THEN "gw" ELSE "guess"

(* Where a DNS server of the node listens (dns.DefaultListenAddr).         *)
DefaultListenAddr(parses, override) ==
    IF override # "" THEN <<HostOf(override), PortOf(override)>>
    ELSE IF parses THEN <<"gw", 53>> ELSE <<"loopback", 53>>

-----------------------------------------------------------------------------
(* Load and Validate                                                       *)

HasFirewallService(c) == c.provider \notin {"", "none"}

Default(v, d) == IF v = "" THEN d ELSE v

(* The resolver for clients is replaced where it is the default, 1.1.1.1   *)
(* (publicDNS).                                                            *)
ApplyProfileDefaults(c) ==
    LET profile == Default(c.profile, "standard")
        tunnel == tunnelGatewayIP(c.subnet, c.privAddr)
        sidecar == [provider |-> IF profile = "shield" THEN "adguard_home" ELSE "unbound_erebrus",
                    url |-> IF profile = "shield" THEN "shieldURL" ELSE "sentinelURL"]
    IN  CASE profile \in {"shield", "sentinel"} ->
               [c EXCEPT !.profile = profile,
                         !.provider = Default(@, sidecar.provider),
                         !.fwDNS = Default(@, "sidecar"),
                         !.urls = @ \cup {sidecar.url},
                         !.wgdns = IF @ \in {"", "publicDNS"} THEN tunnel ELSE @,
                         !.privAddr = Default(@, tunnel)]
          [] profile = "standard" ->
               [c EXCEPT !.profile = profile, !.provider = Default(@, "none")]
          [] OTHER -> [c EXCEPT !.profile = profile]

(* Load: the environment with the profile's defaults, the mode if it       *)
(* parses, the size of the Drop store, and a warning where the API is      *)
(* bound to more than the loopback address.                                *)
Load(e) ==
    LET c == ApplyProfileDefaults(
               [runType |-> e.runType, key |-> e.key, gateway |-> e.gateway,
                mnemonic |-> e.mnemonic, host |-> e.host, subnet |-> e.subnet,
                profile |-> e.profile, provider |-> e.provider, fwDNS |-> e.fwDNS,
                urls |-> e.urls, wgdns |-> e.wgdns, privDNS |-> e.privDNS,
                privAddr |-> e.privAddr, stealth |-> e.stealth, port |-> e.port,
                drop |-> e.drop, webui |-> e.webui, swarm |-> e.swarm,
                bytes |-> parseByteSize(e.size.n, e.size.scale),
                mode |-> ParseModeSettings(e.access, e.net), licensed |-> FALSE])
    IN  [c EXCEPT !.mode.warnings = IF e.bind = "loopback" THEN @ ELSE @ \cup {"offhost"}]

ValidateProfile(c) ==
    /\ c.profile \in {"standard", "shield", "sentinel"}
    /\ c.provider \in Provider
    /\ HasFirewallService(c) => c.fwDNS # ""

MaxPort == 65535

(* Validate returns no error.                                              *)
Accepts(c, e) ==
    /\ ParseModeSettings(e.access, e.net) # NoMode
    /\ c.mnemonic /\ c.host
    /\ c.drop => /\ c.bytes > 0
                 /\ c.swarm \in 1 .. MaxPort
                 /\ ~(c.webui /\ ParseModeSettings(e.access, e.net).runtime = "public")
    /\ ValidateProfile(c)

(* The configuration after Validate, which parses the mode again and so    *)
(* drops the warnings of Load.                                             *)
Validate(c, e) ==
    LET m == ParseModeSettings(e.access, e.net)
    IN  [c EXCEPT !.mode = [m EXCEPT !.warnings =
                               @ \cup IF c.port.vless = 443 /\ c.port.hysteria2 = 443
                                      THEN {} ELSE {"ports"}]]

DropAcceptsPublicUploads(c) == c.drop /\ IsPublic(c)

DropWebUIAvailable(c) == c.drop /\ c.webui /\ ~IsPublic(c)
=============================================================================

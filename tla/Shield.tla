------------------------------- MODULE Shield -------------------------------
(***************************************************************************)
(* The Shield profile's AdGuard Home (external, as the node's calls show   *)
(* it) and what the node does to it: the set-up of the admin login and of  *)
(* the upstream resolvers when the gateway client has started, and the     *)
(* password command (internal/firewall).                                   *)
(***************************************************************************)
EXTENDS Naturals

CONSTANTS
    Password    \* admin passwords; one is the node's environment's

VARIABLES
    adguard,    \* AdGuard: set up or not, its password, its dns settings
    envPw,      \* SHIELD_ADMIN_PASSWORD
    adminPw,    \* cfg.ShieldAdminPassword
    setup,      \* where the set-up goroutine is
    got,        \* the dns settings it has read
    fresh,      \* history: a person chose the upstreams after that read
    told        \* the login the gateway has on record

shieldVars == <<adguard, envPw, adminPw, setup, got, fresh, told>>

NoPw == "no password"
Upstream == {"stock", "node", "chosen"}
Dns == [upstream : Upstream, other : {"default", "tuned"}]

ShieldTypeOK ==
    /\ adguard \in [configured : BOOLEAN, pw : Password \cup {NoPw}, dns : Dns]
    /\ envPw \in Password \cup {NoPw} /\ adminPw \in Password \cup {NoPw}
    /\ setup \in {"off", "install", "read", "write", "report"}
    /\ got \in Dns
    /\ fresh \in BOOLEAN
    /\ told \in Password \cup {NoPw}

FactoryDns == [upstream |-> "stock", other |-> "default"]

ShieldInit ==
    /\ adguard = [configured |-> FALSE, pw |-> NoPw, dns |-> FactoryDns]
    /\ envPw \in Password \cup {NoPw} /\ adminPw = envPw
    /\ setup = "off" /\ got = FactoryDns /\ fresh = FALSE /\ told = NoPw

(* AdGuard's first-run call: refused once it is configured.                *)
Install(pw) ==
    adguard' = IF adguard.configured THEN adguard
               ELSE [adguard EXCEPT !.configured = TRUE, !.pw = pw]

LogsIn == adguard.configured /\ adguard.pw = adminPw

(* The node starts: its environment's password, and the set-up goroutine   *)
(* where there is one.                                                     *)
ShieldBoots ==
    /\ adminPw' = envPw
    /\ setup' = IF envPw = NoPw THEN "off" ELSE "install"
    /\ UNCHANGED <<adguard, envPw, got, fresh, told>>

(* ConfigureAdmin: the call may not get through, and is not looked at.     *)
ConfigureAdmin ==
    /\ setup = "install"
    /\ Install(adminPw) \/ UNCHANGED adguard
    /\ setup' = "read"
    /\ UNCHANGED <<envPw, adminPw, got, fresh, told>>

(* Mutant: the upstreams are set whatever they are.                        *)
ReadsAnything ==
    /\ setup = "read"
    /\ got' = adguard.dns /\ fresh' = FALSE
    /\ setup' = IF LogsIn THEN "write" ELSE "report"
    /\ UNCHANGED <<adguard, envPw, adminPw, told>>

(* ensureShieldUpstreams: read the settings; go on if they are the stock   *)
(* ones.                                                                   *)
ReadDnsInfo ==
    /\ setup = "read"
    /\ \/ /\ LogsIn
          /\ got' = adguard.dns /\ fresh' = FALSE
          /\ setup' = IF adguard.dns.upstream = "stock" THEN "write" ELSE "report"
       \/ setup' = "report" /\ UNCHANGED <<got, fresh>>
    /\ UNCHANGED <<adguard, envPw, adminPw, told>>

(* ... and write all of them back, with the node's upstreams.              *)
WriteDnsConfig ==
    /\ setup = "write"
    /\ \/ /\ LogsIn
          /\ adguard' = [adguard EXCEPT !.dns = [got EXCEPT !.upstream = "node"]]
       \/ UNCHANGED adguard
    /\ setup' = "report"
    /\ UNCHANGED <<envPw, adminPw, got, fresh, told>>

(* The login as the configuration has it now is reported to the gateway.   *)
ReportCredentials ==
    /\ setup = "report"
    /\ told' = adminPw \/ UNCHANGED told
    /\ setup' = "off"
    /\ UNCHANGED <<adguard, envPw, adminPw, got, fresh>>

(* A person sets AdGuard up, picks upstreams or changes another setting.   *)
PersonSetsUp(pw) ==
    /\ ~adguard.configured
    /\ Install(pw)
    /\ UNCHANGED <<envPw, adminPw, setup, got, fresh, told>>

PersonChoosesUpstreams ==
    /\ adguard.configured
    /\ adguard' = [adguard EXCEPT !.dns.upstream = "chosen"]
    /\ fresh' = TRUE
    /\ UNCHANGED <<envPw, adminPw, setup, got, told>>

PersonTunes ==
    /\ adguard.configured
    /\ adguard' = [adguard EXCEPT !.dns.other = "tuned"]
    /\ UNCHANGED <<envPw, adminPw, setup, got, fresh, told>>

ShieldStep ==
    \/ ConfigureAdmin
    \/ ReadDnsInfo
    \/ WriteDnsConfig
    \/ ReportCredentials
    \/ \E pw \in Password : PersonSetsUp(pw)
    \/ PersonChoosesUpstreams
    \/ PersonTunes
=============================================================================

------------------------------- MODULE MCNode -------------------------------
(***************************************************************************)
(* A node for TLC.  The environments come in families: each varies the     *)
(* settings that meet in one decision of the code and leaves the rest at a *)
(* plain working value.                                                    *)
(***************************************************************************)
EXTENDS Node

Plain ==
    [runType |-> "release", bind |-> "loopback", key |-> TRUE, gateway |-> FALSE,
     mnemonic |-> TRUE, host |-> TRUE, subnet |-> TRUE, access |-> "", net |-> "",
     profile |-> "", provider |-> "", fwDNS |-> "", urls |-> {}, wgdns |-> "publicDNS",
     privDNS |-> FALSE, privAddr |-> "", stealth |-> FALSE,
     port |-> [wireguard |-> 51820, hysteria2 |-> 443, vless |-> 443],
     drop |-> FALSE, webui |-> FALSE, swarm |-> 4001, size |-> [n |-> 1, scale |-> 100]]

Modes ==
    {[Plain EXCEPT !.access = a, !.net = n, !.drop = TRUE, !.webui = w] :
        a \in {"", "private", "public", "gateway", "typo"},
        n \in {"", "bridge", "native", "private", "public", "gateway", "typo"},
        w \in BOOLEAN}

Profiles ==
    {[Plain EXCEPT !.profile = p, !.provider = f, !.fwDNS = d, !.urls = u, !.wgdns = w,
                   !.privDNS = v, !.privAddr = a, !.subnet = s] :
        p \in {"", "shield", "sentinel", "typo"},
        f \in {"", "none", "adguard_home", "unbound_erebrus", "typo"},
        d \in {"", "sidecar"}, u \in {{}, {"shieldURL"}},
        w \in {"publicDNS", "gw"}, v \in BOOLEAN,
        a \in {"", "ip", "ipPort"}, s \in BOOLEAN}

Stores ==
    {[Plain EXCEPT !.drop = d, !.size = [n |-> n, scale |-> k], !.swarm = s] :
        d \in BOOLEAN, n \in 0 .. 3, k \in {1, 100}, s \in {0, 1, 65535, 65536}}

Transports ==
    {[Plain EXCEPT !.stealth = s, !.port = q, !.bind = b] :
        s \in BOOLEAN, b \in {"loopback", "any"},
        q \in [{"wireguard", "hysteria2", "vless"} -> {0, 443}]}

Reports ==
    {[Plain EXCEPT !.runType = r, !.key = k, !.gateway = g, !.mnemonic = m, !.host = h,
                   !.stealth = s, !.profile = p, !.drop = d] :
        r \in {"debug", "release"}, k \in BOOLEAN, g \in BOOLEAN, m \in BOOLEAN,
        h \in BOOLEAN, s \in BOOLEAN, p \in {"", "sentinel"}, d \in BOOLEAN}

MCEnv == Modes \cup Profiles \cup Stores \cup Transports \cup Reports
=============================================================================

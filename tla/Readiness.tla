----------------------------- MODULE Readiness -----------------------------
(***************************************************************************)
(* Whether a node calls itself ready: the checks behind /status and        *)
(* `erebrus-node status` (internal/readiness).  A check has a verdict and  *)
(* may be optional; the wording of its detail is left out.                 *)
(***************************************************************************)
EXTENDS Config, SequencesExt

Check(id, ok) == [id |-> id, ok |-> ok, optional |-> FALSE]

Optional(id, ok) == [id |-> id, ok |-> ok, optional |-> TRUE]

apiKeyCheck(c) ==
    IF c.runType = "debug" /\ ~c.key THEN Optional("node_api_key", TRUE)
    ELSE Check("node_api_key", c.key)

stealthCheck(c, listening) ==
    IF c.stealth THEN Check("stealth", listening) ELSE Optional("stealth", TRUE)

firewallCheck(c, ok) ==
    IF HasFirewallService(c) THEN Check("firewall", ok) ELSE Optional("firewall", TRUE)

(* Mutant: an enabled Drop that does not work holds the node back.         *)
DropMandatory(c, state) ==
    [id |-> "drop", ok |-> ~c.drop \/ state \in {"active", "full"}, optional |-> ~c.drop]

dropCheck(c, state) == Optional("drop", ~c.drop \/ state \in {"active", "full"})

controlPlaneCheck(c, registered, connected) ==
    IF c.gateway THEN Check("control_plane", registered) ELSE Optional("control_plane", TRUE)

Ok(checks) == \A i \in DOMAIN checks : checks[i].optional \/ checks[i].ok

(* The report on a running node; in holds the signals taken at run time.   *)
Evaluate(c, in) ==
    LET checks == <<Check("identity", c.mnemonic),
                    Check("public_address", c.host),
                    apiKeyCheck(c),
                    Check("wireguard", in.wg),
                    stealthCheck(c, in.stealth),
                    firewallCheck(c, in.firewall),
                    dropCheck(c, in.drop),
                    controlPlaneCheck(c, in.registered, in.connected)>>
    IN  [ok |-> Ok(checks), checks |-> checks, warnings |-> c.mode.warnings]

(* Mutant: what is only known after the start is reported as missing.      *)
PrebootWaits(c) ==
    LET checks == <<Check("identity", c.mnemonic), Check("public_address", c.host),
                    apiKeyCheck(c), Check("wireguard", FALSE)>>
    IN  [ok |-> Ok(checks), checks |-> checks, warnings |-> c.mode.warnings]

(* The report before the node runs, from its configuration alone.          *)
Preboot(c) ==
    LET checks == <<Check("identity", c.mnemonic),
                    Check("public_address", c.host),
                    apiKeyCheck(c),
                    Optional("wireguard", TRUE)>>
                  \o (IF c.stealth THEN <<Optional("stealth", TRUE)>> ELSE <<>>)
                  \o <<Optional("drop", TRUE), Optional("control_plane", TRUE)>>
    IN  [ok |-> Ok(checks), checks |-> checks, warnings |-> c.mode.warnings]

(* What the command line prints: ready, or the first check that stands in  *)
(* the way.                                                                *)
SummaryLine(r) ==
    LET failing == SelectInSeq(r.checks, LAMBDA k : ~k.optional /\ ~k.ok)
    IN  IF r.ok THEN "ready" ELSE r.checks[failing].id
=============================================================================

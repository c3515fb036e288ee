----------------------------- MODULE Transport -----------------------------
(***************************************************************************)
(* The ladder of transports a client may reach the node by: probing,       *)
(* scoring and selection (internal/transport and its probe package).       *)
(***************************************************************************)
EXTENDS Integers, Sequences

NoTransport == [kind |-> "none", score |-> 0]

ImplementedLadder(stealth) ==
    IF stealth THEN <<"wireguard", "hysteria2", "vless">> ELSE <<"wireguard">>

(* The local prober takes a transport for reachable when it is configured: *)
(* ports gives each transport its port, 0 where the setting has none.      *)
Probe(stealth, ports, kinds) ==
    [i \in DOMAIN kinds |->
        [kind |-> kinds[i], latency |-> 1, loss |-> 0,
         success |-> ports[kinds[i]] > 0 /\ (kinds[i] = "wireguard" \/ stealth)]]

Score(r) ==
    LET s == 100 - r.latency \div 10 - 2 * r.loss
    IN  IF r.success /\ s > 0 THEN s ELSE 0

Successful(results) == {i \in DOMAIN results : results[i].success}

(* Mutant: a later probe of the same score wins.                           *)
SelectLast(results) ==
    LET ok == Successful(results)
        best == CHOOSE i \in ok : \A j \in ok :
                   \/ Score(results[j]) < Score(results[i])
                   \/ Score(results[j]) = Score(results[i]) /\ j <= i
    IN  IF ok = {} THEN NoTransport
        ELSE [kind |-> results[best].kind, score |-> Score(results[best])]

(* The first of the successful probes with the highest score.              *)
SelectBest(results) ==
    LET ok == Successful(results)
        best == CHOOSE i \in ok : \A j \in ok :
                   \/ Score(results[j]) < Score(results[i])
                   \/ Score(results[j]) = Score(results[i]) /\ i <= j
    IN  IF ok = {} THEN NoTransport
        ELSE [kind |-> results[best].kind, score |-> Score(results[best])]

Select(stealth, ports) == SelectBest(Probe(stealth, ports, ImplementedLadder(stealth)))
=============================================================================

----------------------------- MODULE MCFirewall -----------------------------
(* The firewall client and its sidecars for TLC.                           *)
EXTENDS Firewall, TLC

(* Licensed policies, fragments, requests and readers are interchangeable. *)
Symmetry ==
    Permutations(Policy \ Lapsed) \cup Permutations(File) \cup Permutations(Handler)
        \cup Permutations(Reader)
=============================================================================

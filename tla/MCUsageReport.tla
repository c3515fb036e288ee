--------------------------- MODULE MCUsageReport ---------------------------
(* The keys of two clients, one of which may change its key; the run takes *)
(* the one that may.                                                       *)
EXTENDS UsageReport, TLC

CONSTANTS i1, i2, k1, k2, k3

OwnKeys == (i1 :> {k1, k2}) @@ (i2 :> {k3})
=============================================================================

--------------------------- MODULE MCNodeSecrets ---------------------------
(***************************************************************************)
(* NodeSecrets for TLC.  The sessions do the same and are told apart by    *)
(* nothing, so that states which differ by a permutation of them are one.  *)
(***************************************************************************)
EXTENDS NodeSecrets, TLC

Symmetry == Permutations(Session)
=============================================================================

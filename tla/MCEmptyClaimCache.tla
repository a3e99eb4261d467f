------------------------- MODULE MCEmptyClaimCache -------------------------
(* Instances of EmptyClaimCache for TLC. *)
EXTENDS EmptyClaimCache, TLC

Symmetry == Permutations(Enqueuers) \cup Permutations(Claimers)
=============================================================================

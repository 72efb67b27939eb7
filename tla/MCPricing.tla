----------------------------- MODULE MCPricing ------------------------------
(* Pricing with two batches against an admin call, or one against two. *)
EXTENDS Pricing, TLC

Symmetry == Permutations(Workers) \cup Permutations(Prices) \cup Permutations(Admins)
=============================================================================

--------------------------- MODULE MCBanControl ---------------------------
(* Instances of BanControl with two addresses. *)
EXTENDS BanControl, TLC
CONSTANTS a, b
Symmetry == Permutations(IPs)
=============================================================================

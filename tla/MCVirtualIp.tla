----------------------------- MODULE MCVirtualIp -----------------------------
(***************************************************************************)
(* Two addresses to draw from are enough for two draws to differ.          *)
(***************************************************************************)
EXTENDS VirtualIp, TLC

CONSTANTS a, b

TwoIps == {a, b}

Symmetry == Permutations(TwoIps)

=============================================================================

------------------------------- MODULE MCBoot -------------------------------
(* Two sao-server processes; processes and pairs are interchangeable. *)
EXTENDS SaoBoot, TLC

CONSTANTS p1, p2, k1, k2, k3

MCProcs  == {p1, p2}
MCPairs  == {k1, k2, k3}
Symmetry == Permutations(MCProcs) \cup Permutations(MCPairs)
=============================================================================

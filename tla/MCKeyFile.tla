----------------------------- MODULE MCKeyFile -----------------------------
(* Three client processes of one user; processes and keys are interchangeable. *)
EXTENDS SaoKeyFile, TLC

CONSTANTS p1, p2, p3, k1, k2, k3

MCProcs  == {p1, p2, p3}
MCKeys   == {k1, k2, k3}
Symmetry == Permutations(MCProcs) \cup Permutations(MCKeys)
=============================================================================

----------------------------- MODULE MCSession -----------------------------
(* Two sessions, two key pairs, two nonces the sessions may or may not share. *)
EXTENDS SaoSession

CONSTANTS s1, s2, k1, k2, n1, n2

MCSessions == {s1, s2}
MCKeys     == {k1, k2}
MCNonces   == {n1, n2}
=============================================================================

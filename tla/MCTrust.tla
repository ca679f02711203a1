------------------------------ MODULE MCTrust ------------------------------
(* Two hosts, the name of one the end of the other's, which may be typed in *)
(* capitals.                                                                *)
EXTENDS SaoTrust, TLC

CONSTANTS f1, f2, p1, p2

ex     == <<"ex", "443">>
www_ex == <<"www", "ex", "443">>

MCTokens    == {"www", "ex", "443"}
MCHostOrder == <<<<ex, "lower">>, <<www_ex, "lower">>>>
MCNames     == {<<ex, "lower">>, <<www_ex, "lower">>, <<www_ex, "mixed">>}
TwoNames    == {<<ex, "lower">>, <<www_ex, "mixed">>}
MCFps       == {f1, f2}
MCProcs     == {p1, p2}
AllModes    == {"accept_new", "tty", "batch"}
Symmetry    == Permutations(MCFps) \cup Permutations(MCProcs)

\* What the actions and the properties of the run look at: the ledger and the mark
\* of a cut save are histories for FileIsLedger alone.
Seen == <<file, cert, proc, accepted, past \ {"cut"}>>
=============================================================================

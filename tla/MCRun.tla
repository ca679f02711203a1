------------------------------- MODULE MCRun -------------------------------
(* SaoRun with one shell line the policy admits and one it refuses although *)
(* the denied pattern is only a part of it.                                 *)
EXTENDS SaoRun

MCShells == {<<"echo", "hi">>, <<"sudo", "rm", "all">>}
MCDeny   == {<<"rm", "all">>}
=============================================================================

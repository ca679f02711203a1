------------------------------ MODULE MCFrame ------------------------------
(* The limits of codec.rs and of its tests, lengths around them and around  *)
(* each byte of the length, the malformed headers of the tests.             *)
EXTENDS SaoFrame

MCLimits    == {10, 1048576}
MCSizes     == {0, 10, 255, 256, 65535, 65536, 1048576, 1048577}
MCTypes     == {1, 255}
MCCutPoints == 1..10 \cup {265}
MCForeign   == {<<88, 88, 88, 1, 1, 0, 0, 0, 0>>,       \* bad_magic_fails
                <<83, 65, 79, 255, 255, 0, 0, 0, 0>>,   \* wrong_version_fails
                <<83, 65, 79, 1, 255, 0, 0, 0, 11>>,    \* payload_too_large
                <<83, 65, 79, 1, 255, 127, 255, 255, 255>>}
=============================================================================

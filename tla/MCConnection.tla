---------------------------- MODULE MCConnection ----------------------------
(* Connection for TLC: the constants are given in the configurations.      *)
EXTENDS Connection
=============================================================================

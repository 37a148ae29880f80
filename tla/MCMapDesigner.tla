----------------------------- MODULE MCMapDesigner -----------------------------
(* MapDesigner for TLC: the constants are given in the configuration.      *)
EXTENDS MapDesigner
=============================================================================

----------------------------- MODULE MCTsQueue -----------------------------
(* TsQueue for TLC: the constants are given in the configurations.         *)
EXTENDS TsQueue
=============================================================================

------------------------------ MODULE MCServer ------------------------------
(* Server for TLC: the constants are given in the configurations.  The     *)
(* clients are interchangeable.                                            *)
EXTENDS Server, TLC

Interchangeable == Permutations(Clients)
=============================================================================

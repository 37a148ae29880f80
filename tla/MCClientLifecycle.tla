--------------------------- MODULE MCClientLifecycle ---------------------------
(* ClientLifecycle for TLC: the constants are given in the configurations. *)
EXTENDS ClientLifecycle
=============================================================================

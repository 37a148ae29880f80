----------------------------- MODULE MCGameWorld -----------------------------
(* GameWorld for TLC: every map of one or two walls that leaves free the   *)
(* corner in which the character starts.                                   *)
EXTENDS GameWorld

MCWalls == ((0 .. Width - 1) \X (0 .. Height - 1)) \ {<<0, 0>>}

MCMaps == {{a, b} : a, b \in MCWalls}
=============================================================================

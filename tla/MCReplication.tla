--------------------------- MODULE MCReplication ---------------------------
(* Replication for TLC: databases of two keys; an update of one key, and   *)
(* one that undoes it, changes the other key and names a key nobody has.   *)
EXTENDS Replication, TLC

CONSTANTS k1, k2, x, v0, v1

FreshDatabase == [k \in Keys |-> v0]

SomeUpdates == {k1 :> v1, (k1 :> v0) @@ (k2 :> v1) @@ (x :> v1)}
=============================================================================

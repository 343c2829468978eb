--------------------------- MODULE MCReplicaLock ---------------------------
(* Two replicas, two configurations; three passes of one replica overlap.  *)
EXTENDS ReplicaLock, TLC

CONSTANTS a, b, i1, i2, a1, a2, a3, b1

MCHome == a1 :> a @@ a2 :> a @@ a3 :> a @@ b1 :> b

\* The overlapping passes are alike, and so are the configurations.
Alike == Permutations({a1, a2, a3}) \cup Permutations({i1, i2})
=============================================================================

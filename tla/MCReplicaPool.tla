--------------------------- MODULE MCReplicaPool ---------------------------
(* Small instances of the replica pool for TLC. *)
EXTENDS ReplicaPool, TLC

CONSTANTS r1, r2, w1, w2, c1, c2

MCRequests == {r1, r2}
MCOneRequest == {r1}
MCWorkers  == {w1, w2}
MCCalls    == {c1, c2}
MCInitial1 == <<w1>>
MCInitial2 == <<w1, w2>>

Interchangeable == Permutations(Requests) \cup Permutations(Calls)
=============================================================================

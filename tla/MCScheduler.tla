---------------------------- MODULE MCScheduler ----------------------------
(* Small instances of the scheduler for TLC. *)
EXTENDS Scheduler, TLC

CONSTANTS r1, r2, r3, w1, w2, w3, none

MCRequests2 == {r1, r2}
MCRequests3 == {r1, r2, r3}
MCWorkers2  == {w1, w2}
MCWorkers3  == {w1, w2, w3}
MCInitial2  == <<w1, w2>>
MCInitial1  == <<w1>>

\* Requests are interchangeable: they differ only by the key submit() gives.
Interchangeable == Permutations(Requests)
=============================================================================

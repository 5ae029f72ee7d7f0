---------------------------- MODULE MCTaskStrand ----------------------------
(* Two producers with three tasks each, a pool of two workers and a queue  *)
(* that is full with two tasks.                                            *)
EXTENDS TaskStrand

CONSTANTS p1, p2, w1, w2

MCProducers == {p1, p2}
MCWorkers == {w1, w2}
=============================================================================

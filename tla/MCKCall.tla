------------------------------ MODULE MCKCall ------------------------------
(* Small instances of the kernel call queue for TLC. *)
EXTENDS KCall

CONSTANTS c1, c2, w1, w2

MCCalls == {c1, c2}
MCWorkers == {w1, w2}
MCOneWorker == {w1}
=============================================================================

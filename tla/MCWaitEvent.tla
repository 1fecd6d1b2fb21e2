----------------------------- MODULE MCWaitEvent -----------------------------
(* The three drivers of the laboratory; with three processes, a write meets *)
(* one reader asleep and another that arrives.                              *)
EXTENDS WaitEvent

CONSTANTS p1, p2, p3

MCProcs == {p1, p2, p3}
=============================================================================

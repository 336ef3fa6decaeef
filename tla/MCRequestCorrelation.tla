------------------------ MODULE MCRequestCorrelation ------------------------
(* RequestCorrelation on a small instance; POSTs and ids are               *)
(* interchangeable, so the runs that check no liveness use the symmetry.   *)
EXTENDS RequestCorrelation, TLC

Symmetry == Permutations(Calls) \cup Permutations(Ids)
=============================================================================

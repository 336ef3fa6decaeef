---------------------------- MODULE MCStudioJob ----------------------------
(* StudioJob on a small instance: neither jobs nor cancel calls are told    *)
(* apart.                                                                  *)
EXTENDS StudioJob, TLC

Symmetry == Permutations(Jobs) \cup Permutations(Cancels)
=============================================================================

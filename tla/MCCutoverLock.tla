--------------------------- MODULE MCCutoverLock ---------------------------
(* CutoverLock on a small instance: processes of one kind are not told      *)
(* apart.                                                                  *)
EXTENDS CutoverLock, TLC

Symmetry == Permutations(Private) \cup Permutations(Public) \cup Permutations(Recoverers)
=============================================================================

------------------------ MODULE MCLegacyIntentBridge ------------------------
(* LegacyIntentBridge on a small instance: keys, intents and amounts are    *)
(* interchangeable.                                                        *)
EXTENDS LegacyIntentBridge, TLC

Symmetry == Permutations(Keys) \cup Permutations(Intents) \cup Permutations(Amounts)
=============================================================================

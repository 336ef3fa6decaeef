-------------------------- MODULE MCToolInvocation --------------------------
(* ToolInvocation on a small instance; names are interchangeable.          *)
EXTENDS ToolInvocation, TLC

Symmetry ==
  Permutations(Tools) \cup Permutations(RequestIds) \cup Permutations(WidgetSessions)
=============================================================================

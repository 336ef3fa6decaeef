---------------------------- MODULE CutoverClaim ----------------------------
(***************************************************************************)
(* What the release tooling promises of a host: one process at a time has   *)
(* the claim to change what runs there, only its holder is at work, and     *)
(* nobody takes the claim from a process that is.  How a claim is stored,   *)
(* who may free one whose holder died, and that a failed attempt to do so   *)
(* may put it back, is left to the implementation.                         *)
(***************************************************************************)
CONSTANTS Procs, None

VARIABLES
  holder,  \* whose claim it is
  inside   \* processes at work

cvars == <<holder, inside>>

Init == holder = None /\ inside = {}

Take(p) == holder = None /\ holder' = p /\ UNCHANGED inside

Drop == holder \notin inside /\ holder' = None /\ UNCHANGED inside

Enter(p) == holder = p /\ inside' = inside \cup {p} /\ UNCHANGED holder

Leave(p) == inside' = inside \ {p} /\ UNCHANGED holder

Next ==
  \/ \E p \in Procs : Take(p) \/ Enter(p) \/ Leave(p)
  \/ Drop

Spec == Init /\ [][Next]_cvars

=============================================================================

-------------------------- MODULE SessionAuthority --------------------------
(***************************************************************************)
(* What either MCP server promises of a session id: it names nothing,       *)
(* then one session of one owner, then nothing again, for ever.  How the    *)
(* owner is verified, what requests do meanwhile, and which of DELETE, the  *)
(* reaper, a failed initialization or a crash ends the session is left to   *)
(* the implementation.                                                     *)
(***************************************************************************)
CONSTANTS Sids, Owners, None

VARIABLES
  stage,  \* absent, live or gone
  owner   \* the credential a live session belongs to

avars == <<stage, owner>>

Init ==
  /\ stage = [s \in Sids |-> "absent"]
  /\ owner = [s \in Sids |-> None]

Open(s, o) ==
  /\ stage[s] = "absent"
  /\ stage' = [stage EXCEPT ![s] = "live"]
  /\ owner' = [owner EXCEPT ![s] = o]

(* A crash closes every live session at once.                              *)
Close(S) ==
  /\ \A s \in S : stage[s] = "live"
  /\ stage' = [s \in Sids |-> IF s \in S THEN "gone" ELSE stage[s]]
  /\ owner' = [s \in Sids |-> IF s \in S THEN None ELSE owner[s]]

Next ==
  \/ \E s \in Sids, o \in Owners : Open(s, o)
  \/ \E S \in SUBSET Sids : Close(S)

Spec == Init /\ [][Next]_avars

=============================================================================

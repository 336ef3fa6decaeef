-------------------------- MODULE RequestOwnership --------------------------
(***************************************************************************)
(* What the request correlation of a session promises, with no handlers,   *)
(* sends or flags: an id is a lock.  A POST takes all its ids together,    *)
(* opens an exchange only under ids it owns, and an id is given back only  *)
(* when no exchange is open under it, or when the session ends.            *)
(***************************************************************************)
CONSTANTS Calls, Ids, None

VARIABLES owner,  \* id -> the POST that owns it, or None
          open,   \* exchanges under way, <<POST, id>>
          ended   \* the session is over

avars == <<owner, open, ended>>

Init ==
  /\ owner = [i \in Ids |-> None]
  /\ open = {}
  /\ ended = FALSE

(* All or nothing: no id of a batch is taken unless all are free. *)
Acquire(c, S) ==
  /\ ~ended
  /\ \A i \in S : owner[i] = None
  /\ owner' = [i \in Ids |-> IF i \in S THEN c ELSE owner[i]]
  /\ UNCHANGED <<open, ended>>

Begin(c, S) ==
  /\ ~ended
  /\ \A i \in S : owner[i] = c /\ \A d \in Calls : <<d, i>> \notin open
  /\ open' = open \cup ({c} \X S)
  /\ UNCHANGED <<owner, ended>>

(* The exchange is over; its id may be given back in the same step. *)
End(c, i) ==
  /\ <<c, i>> \in open
  /\ open' = open \ {<<c, i>>}
  /\ owner' \in {owner, [owner EXCEPT ![i] = None]}
  /\ UNCHANGED ended

GiveBack(S) ==
  /\ \A i \in S : \A c \in Calls : <<c, i>> \notin open
  /\ owner' = [i \in Ids |-> IF i \in S THEN None ELSE owner[i]]
  /\ UNCHANGED <<open, ended>>

EndSession ==
  /\ ~ended
  /\ ended' = TRUE
  /\ owner' = [i \in Ids |-> None]
  /\ UNCHANGED open

Next ==
  \/ \E c \in Calls, S \in SUBSET Ids : Acquire(c, S) \/ Begin(c, S)
  \/ \E c \in Calls, i \in Ids : End(c, i)
  \/ \E S \in SUBSET Ids : GiveBack(S)
  \/ EndSession

Spec == Init /\ [][Next]_avars
=============================================================================

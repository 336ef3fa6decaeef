----------------------------- MODULE SavedState -----------------------------
(***************************************************************************)
(* What PM2 has saved on a host: dump.pm2 and dump.pm2.bak, each absent or  *)
(* a list of rows, of which one may start dexter-mcp and the rest belong to *)
(* other services.                                                         *)
(***************************************************************************)
CONSTANTS Releases, Rests, NoRest, None

ASSUME SavedStateAssumption ==
  /\ NoRest \in Rests
  /\ None \notin Releases

Dumps == [rest : Rests, mcp : Releases \cup {None}]

ASSUME AbsentAssumption == None \notin Dumps

Files == Dumps \cup {None}

RestOf(file) == IF file = None THEN NoRest ELSE file.rest

(* persistScopedPm2Dump: the saved rows, with the one of dexter-mcp          *)
(* replaced by the running one, or added.                                  *)
Recomposed(file, release) == [rest |-> RestOf(file), mcp |-> release]

=============================================================================

--------------------------- MODULE PrivateCutover ---------------------------
(***************************************************************************)
(* scripts/release/open-release-core.mjs: activatePrivateRelease replaces   *)
(* the running private service by a sealed release, and                     *)
(* recoverPrivateRelease brings back what an interrupted activation was to  *)
(* replace, from the journal that it left.  Between them they change three  *)
(* things: the service PM2 runs and the two dumps it has saved.             *)
(*                                                                         *)
(* Any call may fail and the process may die at any point; CutoverLock is   *)
(* about the lock that keeps two such processes apart, here one word.      *)
(***************************************************************************)
EXTENDS SavedState, Naturals

CONSTANTS
  Torn,      \* the journal while it is written
  MaxFaults  \* how many failures, crashes and disturbances a run meets

VARIABLES
  live,     \* the release of the row dexter-mcp of PM2
  up,       \* whether it runs and answers its health check
  primary,  \* dump.pm2
  backup,   \* dump.pm2.bak
  journal,  \* None, Torn, or what a recovery needs to know
  lock,     \* free, held by the running command, or left by a dead one:
            \* stale if the journal lets a recovery replace it, else orphaned
  way,      \* what the running command is doing
  step,     \* the call it makes next
  mine,     \* what it read before it began, or the journal it goes by
  kept,     \* the public service and all other rows are as it saw them
  faults

saved == <<primary, backup>>
vars == <<live, up, primary, backup, journal, lock, way, step, mine, kept, faults>>

Journals == [release : Releases, candidate : Releases, primary : Files, backup : Files]

ASSUME JournalAssumption ==
  /\ None \notin Journals /\ Torn \notin Journals /\ Torn # None
  /\ MaxFaults \in Nat

Ways == {"none", "forward", "refused", "undo", "rollback", "salvage", "recover"}

Steps == {"idle", "open", "write", "seal", "saveBackup", "savePrimary",
  "inspect", "fence", "delete", "start", "verify", "commitBackup", "commitPrimary",
  "confirm", "restorePrimary", "restoreBackup", "clear", "release"}

TypeOK ==
  /\ live \in Releases \cup {None}
  /\ up \in BOOLEAN
  /\ live = None => ~up
  /\ primary \in Files
  /\ backup \in Files
  /\ journal \in Journals \cup {None, Torn}
  /\ lock \in {"free", "held", "stale", "orphaned"}
  /\ way \in Ways
  /\ step \in Steps
  /\ mine \in Journals \cup {None}
  /\ kept \in BOOLEAN
  /\ faults \in 0..MaxFaults
  /\ lock = "held" <=> way # "none"
  /\ step = "idle" <=> way = "none"
  /\ mine = None <=> way = "none"

Init ==
  /\ live \in Releases
  /\ up = TRUE
  /\ primary \in Files
  /\ backup \in Files
  /\ journal = None
  /\ lock = "free"
  /\ way = "none"
  /\ step = "idle"
  /\ mine = None
  /\ kept = TRUE
  /\ faults = 0

-----------------------------------------------------------------------------
(* The command's next call is made, and what it goes on with.              *)
At(s, next) == step = s /\ step' = next /\ UNCHANGED <<lock, way, mine, kept, faults>>

Target == IF way = "forward" THEN mine.candidate ELSE mine.release

(* An activation asks for the lock, and reads the rows and both dumps.      *)
Begin(c) ==
  /\ way = "none" /\ lock = "free"
  /\ live # None /\ up
  /\ lock' = "held" /\ way' = "forward" /\ step' = "open"
  /\ mine' = [release |-> live, candidate |-> c, primary |-> primary, backup |-> backup]
  /\ kept' = (kept \/ journal = None)
  /\ UNCHANGED <<live, up, saved, journal, faults>>

OpenJournal ==
  /\ At("open", "write")
  /\ journal = None /\ kept
  /\ journal' = Torn
  /\ UNCHANGED <<live, up, saved>>

WriteJournal ==
  /\ At("write", "seal")
  /\ journal' = mine
  /\ UNCHANGED <<live, up, saved>>

SealJournal ==
  /\ At("seal", "saveBackup")
  /\ UNCHANGED <<live, up, saved, journal>>

(* persistScopedPm2Dump, before the service is touched and once the         *)
(* candidate has been verified: the primary becomes the backup, then the    *)
(* running row becomes part of the primary.                                *)
SaveBackup ==
  /\ At("saveBackup", "savePrimary") \/ At("commitBackup", "commitPrimary")
  /\ backup' = IF primary = None THEN backup ELSE primary
  /\ UNCHANGED <<live, up, primary, journal>>

MutantSaveTargetOnly ==
  /\ At("savePrimary", "fence") \/ At("commitPrimary", "confirm")
  /\ primary' = [rest |-> NoRest, mcp |-> live]
  /\ UNCHANGED <<live, up, backup, journal>>

SavePrimary ==
  /\ At("savePrimary", "fence") \/ At("commitPrimary", "confirm")
  /\ primary' = Recomposed(mine.primary, live)
  /\ UNCHANGED <<live, up, backup, journal>>

-----------------------------------------------------------------------------
(* The service that deletePrivateServiceForCutover may remove.              *)
Expected ==
  CASE way = "forward" -> {mine.release}
    [] way = "rollback" -> {mine.candidate, None}
    [] OTHER -> {mine.release, mine.candidate, None}

Fence ==
  /\ At("fence", IF live = None THEN "start" ELSE "delete")
  /\ kept /\ live \in Expected
  /\ UNCHANGED <<live, up, saved, journal>>

Delete ==
  /\ At("delete", "start")
  /\ live' = None /\ up' = FALSE
  /\ UNCHANGED <<saved, journal>>

(* pm2 start makes the row; the process behind it may not answer yet.       *)
Start ==
  /\ At("start", "verify")
  /\ live' = Target /\ up' \in BOOLEAN
  /\ UNCHANGED <<saved, journal>>

Verify ==
  /\ \/ At("verify", IF way = "forward" THEN "commitBackup" ELSE "restorePrimary")
     \/ At("confirm", "clear")
  /\ kept /\ up /\ live = Target
  /\ UNCHANGED <<live, up, saved, journal>>

MutantClearFirst ==
  /\ At("restorePrimary", "restoreBackup")
  /\ primary' = mine.primary
  /\ journal' = IF way = "salvage" THEN journal ELSE None
  /\ UNCHANGED <<live, up, backup>>

RestorePrimary ==
  /\ At("restorePrimary", "restoreBackup")
  /\ primary' = mine.primary
  /\ UNCHANGED <<live, up, backup, journal>>

MutantClearsAnyway ==
  /\ At("restoreBackup", "clear")
  /\ backup' = mine.backup
  /\ UNCHANGED <<live, up, primary, journal>>

RestoreBackup ==
  /\ At("restoreBackup", IF way = "salvage" THEN "release" ELSE "clear")
  /\ backup' = mine.backup
  /\ UNCHANGED <<live, up, primary, journal>>

ClearJournal ==
  /\ At("clear", "release")
  /\ journal' = None
  /\ UNCHANGED <<live, up, saved>>

(* The finally of both commands.                                           *)
ReleaseLock ==
  /\ step = "release"
  /\ lock' = "free" /\ way' = "none" /\ step' = "idle" /\ mine' = None
  /\ UNCHANGED <<live, up, saved, journal, kept, faults>>

-----------------------------------------------------------------------------
MutantNeverReplaces ==
  /\ way = "none" /\ lock = "free"
  /\ journal \in Journals
  /\ lock' = "held" /\ way' = "recover" /\ step' = "inspect" /\ mine' = journal
  /\ UNCHANGED <<live, up, saved, journal, kept, faults>>

(* A recovery needs a whole journal, and a lock that is free or was left by *)
(* the activation the journal names or an earlier recovery.                *)
Recover ==
  /\ way = "none" /\ lock \in {"free", "stale"}
  /\ journal \in Journals
  /\ lock' = "held" /\ way' = "recover" /\ step' = "inspect" /\ mine' = journal
  /\ UNCHANGED <<live, up, saved, journal, kept, faults>>

(* A prior release that is up and healthy is left alone.                    *)
Inspect ==
  /\ At("inspect", IF live = mine.release /\ up THEN "restorePrimary" ELSE "fence")
  /\ kept
  /\ UNCHANGED <<live, up, saved, journal>>

-----------------------------------------------------------------------------
(* The catch blocks.  Until onMutation only the dumps are put back; then    *)
(* the service is rolled back; when that fails too, the dumps are put back  *)
(* once more and the journal stays for a recovery.                         *)
Fallback ==
  \/ /\ way = "forward" /\ step \in {"open", "write"}
     /\ way' = "refused" /\ step' = "release"
  \/ /\ way = "forward" /\ step \in {"saveBackup", "savePrimary", "fence"}
     /\ way' = "undo" /\ step' = "restorePrimary"
  \/ /\ way = "forward"
     /\ step \in {"delete", "start", "verify", "commitBackup", "commitPrimary", "confirm", "clear"}
     /\ way' = "rollback" /\ step' = "fence"
  \/ /\ way = "rollback" /\ step # "release"
     /\ way' = "salvage" /\ step' = "restorePrimary"
  \/ /\ (way = "forward" /\ step = "seal") \/ way \in {"undo", "salvage", "recover"}
     /\ step' = "release" /\ UNCHANGED way

(* What a call goes by is not so, and never will be in this run.            *)
Refused ==
  \/ step = "open" /\ journal # None
  \/ step = "fence" /\ live \notin Expected
  \/ step \in {"open", "fence", "inspect", "verify", "confirm"} /\ ~kept

Refuse ==
  /\ Refused
  /\ Fallback
  /\ UNCHANGED <<live, up, saved, journal, lock, mine, kept, faults>>

Fault == faults < MaxFaults /\ faults' = faults + 1

(* A call fails, or times out; when it does after its effect, that is the    *)
(* failure of the next one.                                                *)
Fail ==
  /\ Fault
  /\ Fallback
  /\ UNCHANGED <<live, up, saved, journal, lock, mine, kept>>

(* The journal bears the token of this command's lock, or the command goes  *)
(* by this journal.                                                        *)
Recorded == way # "refused" /\ step \notin {"open", "write"} /\ journal \in Journals

Crash ==
  /\ Fault
  /\ way # "none"
  /\ lock' = IF Recorded THEN "stale" ELSE "orphaned"
  /\ way' = "none" /\ step' = "idle" /\ mine' = None
  /\ UNCHANGED <<live, up, saved, journal, kept>>

(* The service's process dies, and PM2 brings it back.                      *)
GoDown ==
  /\ Fault
  /\ up /\ up' = FALSE
  /\ UNCHANGED <<live, saved, journal, lock, way, step, mine, kept>>

ComeUp ==
  /\ ~up /\ live # None /\ up' = TRUE
  /\ UNCHANGED <<live, saved, journal, lock, way, step, mine, kept, faults>>

(* The public service is restarted, or another row changes.                 *)
Disturb ==
  /\ Fault
  /\ kept /\ kept' = FALSE
  /\ UNCHANGED <<live, up, saved, journal, lock, way, step, mine>>

-----------------------------------------------------------------------------
Proceed ==
  \/ OpenJournal \/ WriteJournal \/ SealJournal \/ SaveBackup \/ SavePrimary
  \/ Inspect \/ Fence \/ Delete \/ Start \/ Verify
  \/ RestorePrimary \/ RestoreBackup \/ ClearJournal \/ ReleaseLock \/ Refuse

Next ==
  \/ \E c \in Releases : Begin(c)
  \/ Recover \/ Proceed \/ Fail \/ Crash
  \/ GoDown \/ ComeUp \/ Disturb

Spec == Init /\ [][Next]_vars

(* A command runs on, PM2 restarts what it keeps, and an operator who sees   *)
(* a journal runs the recovery again and again.                            *)
Fairness == WF_vars(Proceed) /\ WF_vars(ComeUp) /\ SF_vars(Recover)

FairSpec == Spec /\ Fairness

-----------------------------------------------------------------------------
(* What a cutover changes, as a recovery would leave it.                    *)
Host ==
  IF journal \in Journals
  THEN [release |-> journal.release, primary |-> journal.primary, backup |-> journal.backup]
  ELSE [release |-> live, primary |-> primary, backup |-> backup]

Atomic == INSTANCE AtomicCutover WITH host <- Host

(* Release and dumps change together: until its journal is gone a cutover    *)
(* has not happened, whatever it has done and wherever it failed or died,    *)
(* for the journal tells a recovery what to bring back; without a journal,   *)
(* or with a torn one, the host is as it was or wholly cut over.            *)
ImplementsAtomicCutover == Atomic!Spec

(* The saved rows of the other services stay in dump.pm2 through cutovers,   *)
(* rollbacks and recoveries, and through the failures in between: at every   *)
(* moment a reboot starts them.                                            *)
NeighboursStay == [][RestOf(primary') = RestOf(primary)]_vars

(* The service is missing only while a journal says what to bring back, and  *)
(* what runs then is one of the two releases the journal names: otherwise a  *)
(* recovery would not dare to replace it, however often it is tried.         *)
ServiceIsRecoverable ==
  live \in IF journal \in Journals
           THEN {journal.release, journal.candidate, None}
           ELSE Releases

(* So a recovery is turned away only if another service has changed since    *)
(* its journal was written, never by the service it is to replace.          *)
RecoveryIsUnhindered == way = "recover" /\ kept => ~Refused

(* An interrupted cutover is resolved, unless another command died holding   *)
(* the lock, or the public service is no longer the one the journal saw.    *)
JournalIsResolved ==
  journal \in Journals ~> (journal = None \/ lock = "orphaned" \/ ~kept)

-----------------------------------------------------------------------------
(* The inductive strengthening.                                            *)

Restoring == {"restorePrimary", "restoreBackup", "clear", "release"}
Replacing == {"fence", "delete", "start", "verify"}

StepsOfWays ==
  /\ way = "forward" => step \notin {"idle", "inspect", "restorePrimary", "restoreBackup"}
  /\ way = "refused" => step = "release"
  /\ way = "undo" => step \in Restoring
  /\ way = "rollback" => step \in Replacing \cup Restoring
  /\ way = "salvage" => step \in Restoring \ {"clear"}
  /\ way = "recover" => step \in {"inspect"} \cup Replacing \cup Restoring

(* A command that changes something has its journal.                        *)
JournalIsMine ==
  /\ step \notin {"idle", "open", "write", "release"} => journal = mine
  /\ step = "write" => journal = Torn

(* What a command has done so far, by its next step.                        *)
LiveIsKnown ==
  /\ step \in {"open", "write", "seal", "saveBackup", "savePrimary"} => live = mine.release
  /\ way = "forward" /\ step \in {"fence", "delete"} => live = mine.release
  /\ way = "forward" /\ step \in {"commitBackup", "commitPrimary", "confirm", "clear"} =>
       live = mine.candidate
  /\ way \in {"undo", "rollback", "recover"}
       /\ step \in {"restorePrimary", "restoreBackup", "clear"} => live = mine.release

Prepared == Recomposed(mine.primary, mine.release)

SavedIsKnown ==
  /\ step \in {"open", "write", "seal", "saveBackup", "savePrimary"} => primary = mine.primary
  /\ step \in {"open", "write", "seal", "saveBackup"} => backup = mine.backup
  /\ way = "forward" /\ step \in Replacing \cup {"commitBackup", "commitPrimary"} =>
       primary = Prepared
  /\ way = "forward" /\ step \in {"commitPrimary", "confirm", "clear"} => backup = Prepared
  /\ way = "forward" /\ step \in {"confirm", "clear"} =>
       primary = Recomposed(mine.primary, mine.candidate)
  /\ step = "restoreBackup" => primary = mine.primary
  /\ way # "forward" /\ step = "clear" => primary = mine.primary /\ backup = mine.backup

(* Whatever has become of dump.pm2, its other rows are the journal's.       *)
SameRest == journal \in Journals => RestOf(primary) = RestOf(journal.primary)

IInv == TypeOK /\ StepsOfWays /\ JournalIsMine /\ LiveIsKnown /\ SavedIsKnown /\ SameRest

=============================================================================

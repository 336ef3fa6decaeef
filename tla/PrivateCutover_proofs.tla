----------------------- MODULE PrivateCutover_proofs -----------------------
(***************************************************************************)
(* Proofs about PrivateCutover, for any releases, saved rows and number of  *)
(* faults.                                                                 *)
(***************************************************************************)
EXTENDS PrivateCutover, TLAPS

(* Recomposing a dump keeps its other rows, and is a dump.                  *)
LEMMA RecomposedRest ==
  ASSUME NEW f \in Files, NEW v \in Releases
  PROVE  /\ Recomposed(f, v) \in Dumps
         /\ Recomposed(f, v) # None
         /\ RestOf(Recomposed(f, v)) = RestOf(f)
BY SavedStateAssumption, AbsentAssumption DEF Recomposed, RestOf, Files, Dumps

(* A command takes down what the host is before it changes any of it.     *)
LEMMA BeginStep ==
  ASSUME IInv, NEW c \in Releases, Begin(c)
  PROVE  IInv'
<1>1. TypeOK'
  BY JournalAssumption DEF IInv, TypeOK, Begin, Ways, Steps, Journals, saved
<1>2. StepsOfWays'
  BY SavedStateAssumption, JournalAssumption, RecomposedRest DEF StepsOfWays, Begin
<1>3. JournalIsMine'
  BY DEF StepsOfWays, JournalIsMine, Begin
<1>4. LiveIsKnown'
  BY DEF JournalIsMine, LiveIsKnown, Begin
<1>5. SavedIsKnown'
  BY DEF SavedIsKnown, SameRest, Begin, Replacing, saved
<1>6. SameRest'
  BY DEF IInv, SameRest, Begin, saved
<1> QED
  BY <1>1, <1>2, <1>3, <1>4, <1>5, <1>6 DEF IInv

(* An opened journal is a torn one.                                       *)
LEMMA OpenJournalStep ==
  ASSUME IInv, OpenJournal
  PROVE  IInv'
<1>1. TypeOK'
  BY DEF IInv, TypeOK, OpenJournal, At, Steps, saved
<1>2. StepsOfWays'
  BY DEF IInv, StepsOfWays, JournalIsMine, OpenJournal, At, Restoring, Replacing
<1>3. JournalIsMine'
  BY JournalAssumption DEF IInv, JournalIsMine, OpenJournal, At
<1>4. LiveIsKnown'
  BY DEF IInv, JournalIsMine, LiveIsKnown, OpenJournal, At
<1>5. SavedIsKnown'
  BY DEF IInv, LiveIsKnown, SavedIsKnown, OpenJournal, At, Replacing, saved
<1>6. SameRest'
  BY JournalAssumption DEF IInv, SameRest, OpenJournal
<1> QED
  BY <1>1, <1>2, <1>3, <1>4, <1>5, <1>6 DEF IInv

(* What the journal says of the host is what the host still is.           *)
LEMMA WriteJournalStep ==
  ASSUME IInv, WriteJournal
  PROVE  IInv'
<1>1. TypeOK'
  BY DEF IInv, TypeOK, WriteJournal, At, Steps, saved
<1>2. StepsOfWays'
  BY DEF IInv, StepsOfWays, JournalIsMine, WriteJournal, At, Restoring, Replacing
<1>3. JournalIsMine'
  BY JournalAssumption DEF IInv, JournalIsMine, WriteJournal, At
<1>4. LiveIsKnown'
  BY DEF IInv, JournalIsMine, LiveIsKnown, WriteJournal, At
<1>5. SavedIsKnown'
  BY DEF IInv, LiveIsKnown, SavedIsKnown, WriteJournal, At, Replacing, saved
<1>6. SameRest'
  BY DEF IInv, SavedIsKnown, SameRest, WriteJournal, At, saved
<1> QED
  BY <1>1, <1>2, <1>3, <1>4, <1>5, <1>6 DEF IInv

(* Sealing changes neither the journal nor the host.                      *)
LEMMA SealJournalStep ==
  ASSUME IInv, SealJournal
  PROVE  IInv'
<1>1. TypeOK'
  BY DEF IInv, TypeOK, SealJournal, At, Steps, saved
<1>2. StepsOfWays'
  BY DEF IInv, StepsOfWays, JournalIsMine, SealJournal, At, Restoring, Replacing
<1>3. JournalIsMine'
  BY JournalAssumption DEF IInv, JournalIsMine, SealJournal, At
<1>4. LiveIsKnown'
  BY DEF IInv, JournalIsMine, LiveIsKnown, SealJournal, At
<1>5. SavedIsKnown'
  BY DEF IInv, LiveIsKnown, SavedIsKnown, SealJournal, At, Replacing, saved
<1>6. SameRest'
  BY DEF IInv, SameRest, SealJournal, saved
<1> QED
  BY <1>1, <1>2, <1>3, <1>4, <1>5, <1>6 DEF IInv

(* The backup becomes the primary, which is known at both of its steps.   *)
LEMMA SaveBackupStep ==
  ASSUME IInv, SaveBackup
  PROVE  IInv'
<1>1. TypeOK'
  BY DEF IInv, TypeOK, SaveBackup, At, Steps
<1>2. StepsOfWays'
  BY DEF IInv, StepsOfWays, JournalIsMine, SaveBackup, At, Restoring, Replacing
<1>3. JournalIsMine'
  BY JournalAssumption DEF IInv, JournalIsMine, SaveBackup, At
<1>4. LiveIsKnown'
  BY DEF IInv, JournalIsMine, LiveIsKnown, SaveBackup, At
<1>5. SavedIsKnown'
  BY RecomposedRest DEF IInv, TypeOK, LiveIsKnown, SavedIsKnown, SaveBackup, At,
     Replacing, Prepared, Journals
<1>6. SameRest'
  BY RecomposedRest DEF IInv, TypeOK, SameRest, SaveBackup
<1> QED
  BY <1>1, <1>2, <1>3, <1>4, <1>5, <1>6 DEF IInv

(* Only the row of the release is recomposed in the dump.                 *)
LEMMA SavePrimaryStep ==
  ASSUME IInv, SavePrimary
  PROVE  IInv'
<1>1. TypeOK'
  BY AbsentAssumption, RecomposedRest DEF IInv, TypeOK, StepsOfWays, LiveIsKnown,
     SavePrimary, At, Ways, Steps, Restoring, Replacing, Journals, Files
<1>2. StepsOfWays'
  BY DEF IInv, StepsOfWays, SavePrimary, At, Restoring, Replacing
<1>3. JournalIsMine'
  BY JournalAssumption DEF IInv, JournalIsMine, SavePrimary, At
<1>4. LiveIsKnown'
  BY DEF IInv, JournalIsMine, LiveIsKnown, SavePrimary, At
<1>5. SavedIsKnown'
  BY DEF IInv, LiveIsKnown, SavedIsKnown, SavePrimary, At, Replacing, Prepared
<1>6. SameRest'
  BY RecomposedRest DEF IInv, TypeOK, StepsOfWays, JournalIsMine, LiveIsKnown,
     SameRest, SavePrimary, At, Restoring, Replacing, Ways, Journals
<1> QED
  BY <1>1, <1>2, <1>3, <1>4, <1>5, <1>6 DEF IInv

(* A prior release found up is the one the dumps are restored for.        *)
LEMMA InspectStep ==
  ASSUME IInv, Inspect
  PROVE  IInv'
<1>1. TypeOK'
  BY DEF IInv, TypeOK, Inspect, At, Steps, saved
<1>2. StepsOfWays'
  BY DEF IInv, StepsOfWays, JournalIsMine, Inspect, At, Restoring, Replacing
<1>3. JournalIsMine'
  BY JournalAssumption DEF IInv, JournalIsMine, Inspect, At
<1>4. LiveIsKnown'
  BY DEF IInv, StepsOfWays, JournalIsMine, LiveIsKnown, Inspect, At
<1>5. SavedIsKnown'
  BY DEF IInv, StepsOfWays, LiveIsKnown, SavedIsKnown, Inspect, At
<1>6. SameRest'
  BY DEF IInv, StepsOfWays, SavedIsKnown, SameRest, Inspect, saved
<1> QED
  BY <1>1, <1>2, <1>3, <1>4, <1>5, <1>6 DEF IInv

(* The fence only looks.                                                  *)
LEMMA FenceStep ==
  ASSUME IInv, Fence
  PROVE  IInv'
<1>1. TypeOK'
  BY DEF IInv, TypeOK, Fence, At, Steps, saved
<1>2. StepsOfWays'
  BY DEF IInv, StepsOfWays, JournalIsMine, Fence, At, Restoring, Replacing
<1>3. JournalIsMine'
  BY JournalAssumption DEF IInv, JournalIsMine, Fence, At
<1>4. LiveIsKnown'
  BY RecomposedRest DEF IInv, StepsOfWays, LiveIsKnown, Fence, At
<1>5. SavedIsKnown'
  BY DEF IInv, TypeOK, SavedIsKnown, Fence, At, Replacing, Prepared, saved
<1>6. SameRest'
  BY DEF IInv, SameRest, Fence, saved
<1> QED
  BY <1>1, <1>2, <1>3, <1>4, <1>5, <1>6 DEF IInv

(* Nothing is claimed of the service until the target is verified.        *)
LEMMA DeleteStep ==
  ASSUME IInv, Delete
  PROVE  IInv'
<1>1. TypeOK'
  BY SavedStateAssumption, AbsentAssumption, JournalAssumption, RecomposedRest DEF
     IInv, TypeOK, StepsOfWays, JournalIsMine, LiveIsKnown, SavedIsKnown, SameRest,
     Delete, At, Steps, saved
<1>2. StepsOfWays'
  BY DEF IInv, StepsOfWays, Delete, At, Restoring, Replacing
<1>3. JournalIsMine'
  BY JournalAssumption DEF IInv, JournalIsMine, Delete, At
<1>4. LiveIsKnown'
  BY DEF IInv, JournalIsMine, LiveIsKnown, Delete, At
<1>5. SavedIsKnown'
  BY DEF IInv, LiveIsKnown, SavedIsKnown, Delete, At, Replacing, Prepared, saved
<1>6. SameRest'
  BY DEF IInv, SameRest, Delete, saved
<1> QED
  BY <1>1, <1>2, <1>3, <1>4, <1>5, <1>6 DEF IInv

(* What is started is the target of the way.                              *)
LEMMA StartStep ==
  ASSUME IInv, Start
  PROVE  IInv'
<1>1. TypeOK'
  BY SavedStateAssumption DEF IInv, TypeOK, Start, At, Target, Steps, Journals,
     saved
<1>2. StepsOfWays'
  BY JournalAssumption DEF IInv, StepsOfWays, JournalIsMine, Start, At, Restoring,
     Replacing
<1>3. JournalIsMine'
  BY JournalAssumption DEF IInv, JournalIsMine, Start, At
<1>4. LiveIsKnown'
  BY RecomposedRest DEF StepsOfWays, LiveIsKnown, Start, At
<1>5. SavedIsKnown'
  BY DEF IInv, SavedIsKnown, Start, At, Replacing, Prepared, saved
<1>6. SameRest'
  BY DEF IInv, SameRest, Start, saved
<1> QED
  BY <1>1, <1>2, <1>3, <1>4, <1>5, <1>6 DEF IInv

(* From here on the service that runs is known to be the target.          *)
LEMMA VerifyStep ==
  ASSUME IInv, Verify
  PROVE  IInv'
<1>1. TypeOK'
  BY SavedStateAssumption, AbsentAssumption, JournalAssumption, RecomposedRest DEF
     IInv, TypeOK, StepsOfWays, JournalIsMine, LiveIsKnown, SavedIsKnown, SameRest,
     Verify, At, Target, Steps, saved
<1>2. StepsOfWays'
  BY SavedStateAssumption, AbsentAssumption, JournalAssumption, RecomposedRest DEF
     IInv, TypeOK, StepsOfWays, JournalIsMine, LiveIsKnown, SavedIsKnown, SameRest,
     Verify, At, Target, Restoring
<1>3. JournalIsMine'
  BY SavedStateAssumption, AbsentAssumption, JournalAssumption, RecomposedRest DEF
     IInv, TypeOK, StepsOfWays, JournalIsMine, LiveIsKnown, SavedIsKnown, SameRest,
     Verify, At, Target
<1>4. LiveIsKnown'
  BY SavedStateAssumption, AbsentAssumption, JournalAssumption, RecomposedRest DEF
     IInv, TypeOK, StepsOfWays, JournalIsMine, LiveIsKnown, SavedIsKnown, SameRest,
     Verify, At, Target
<1>5. SavedIsKnown'
  BY SavedStateAssumption, AbsentAssumption, JournalAssumption, RecomposedRest DEF
     IInv, TypeOK, StepsOfWays, JournalIsMine, LiveIsKnown, SavedIsKnown, SameRest,
     Verify, At, Target, Restoring, Replacing, Prepared, Ways, saved
<1>6. SameRest'
  BY DEF IInv, SameRest, Verify, saved
<1> QED
  BY <1>1, <1>2, <1>3, <1>4, <1>5, <1>6 DEF IInv

(* The dump gets back what the journal recorded of it.                    *)
LEMMA RestorePrimaryStep ==
  ASSUME IInv, RestorePrimary
  PROVE  IInv'
<1>1. TypeOK'
  BY DEF IInv, TypeOK, RestorePrimary, At, Steps, Journals
<1>2. StepsOfWays'
  BY DEF IInv, TypeOK, StepsOfWays, RestorePrimary, At, Restoring
<1>3. JournalIsMine'
  BY RecomposedRest DEF IInv, TypeOK, JournalIsMine, RestorePrimary, At
<1>4. LiveIsKnown'
  BY DEF IInv, JournalIsMine, LiveIsKnown, RestorePrimary, At
<1>5. SavedIsKnown'
  BY DEF IInv, StepsOfWays, LiveIsKnown, SavedIsKnown, RestorePrimary, At
<1>6. SameRest'
  BY DEF IInv, StepsOfWays, JournalIsMine, SavedIsKnown, SameRest, RestorePrimary,
     At
<1> QED
  BY <1>1, <1>2, <1>3, <1>4, <1>5, <1>6 DEF IInv

(* And the backup.                                                        *)
LEMMA RestoreBackupStep ==
  ASSUME IInv, RestoreBackup
  PROVE  IInv'
<1>1. TypeOK'
  BY DEF IInv, TypeOK, RestoreBackup, At, Steps, Journals
<1>2. StepsOfWays'
  BY DEF IInv, TypeOK, StepsOfWays, RestoreBackup, At, Restoring
<1>3. JournalIsMine'
  BY RecomposedRest DEF IInv, TypeOK, JournalIsMine, RestoreBackup, At
<1>4. LiveIsKnown'
  BY DEF IInv, StepsOfWays, JournalIsMine, LiveIsKnown, RestoreBackup, At
<1>5. SavedIsKnown'
  BY DEF IInv, StepsOfWays, LiveIsKnown, SavedIsKnown, RestoreBackup, At
<1>6. SameRest'
  BY DEF IInv, StepsOfWays, SavedIsKnown, SameRest, RestoreBackup
<1> QED
  BY <1>1, <1>2, <1>3, <1>4, <1>5, <1>6 DEF IInv

(* Without a journal nothing is claimed of the saved files.               *)
LEMMA ClearJournalStep ==
  ASSUME IInv, ClearJournal
  PROVE  IInv'
<1>1. TypeOK'
  BY DEF IInv, TypeOK, ClearJournal, At, Steps, saved
<1>2. StepsOfWays'
  BY DEF TypeOK, StepsOfWays, ClearJournal, At, Restoring
<1>3. JournalIsMine'
  BY DEF TypeOK, JournalIsMine, ClearJournal, At
<1>4. LiveIsKnown'
  BY DEF JournalIsMine, LiveIsKnown, ClearJournal, At
<1>5. SavedIsKnown'
  BY DEF LiveIsKnown, SavedIsKnown, ClearJournal, At, Replacing
<1>6. SameRest'
  BY JournalAssumption DEF SameRest, ClearJournal
<1> QED
  BY <1>1, <1>2, <1>3, <1>4, <1>5, <1>6 DEF IInv

(* The command is over and forgets its journal.                           *)
LEMMA ReleaseLockStep ==
  ASSUME IInv, ReleaseLock
  PROVE  IInv'
<1>1. TypeOK'
  BY DEF IInv, TypeOK, ReleaseLock, Ways, Steps, saved
<1>2. StepsOfWays'
  BY JournalAssumption, RecomposedRest DEF StepsOfWays, ReleaseLock
<1>3. JournalIsMine'
  BY DEF StepsOfWays, JournalIsMine, ReleaseLock
<1>4. LiveIsKnown'
  BY DEF JournalIsMine, LiveIsKnown, ReleaseLock
<1>5. SavedIsKnown'
  BY DEF SavedIsKnown, ReleaseLock, Restoring
<1>6. SameRest'
  BY DEF IInv, LiveIsKnown, SameRest, ReleaseLock, saved
<1> QED
  BY <1>1, <1>2, <1>3, <1>4, <1>5, <1>6 DEF IInv

(* A recovery takes the journal of the disk as its own.                   *)
LEMMA RecoverStep ==
  ASSUME IInv, Recover
  PROVE  IInv'
<1>1. TypeOK'
  BY JournalAssumption DEF IInv, TypeOK, Recover, Ways, Steps, saved
<1>2. StepsOfWays'
  BY SavedStateAssumption, JournalAssumption, RecomposedRest DEF StepsOfWays,
     Recover
<1>3. JournalIsMine'
  BY DEF StepsOfWays, JournalIsMine, Recover
<1>4. LiveIsKnown'
  BY DEF JournalIsMine, LiveIsKnown, Recover
<1>5. SavedIsKnown'
  BY DEF SavedIsKnown, Recover, Restoring
<1>6. SameRest'
  BY DEF IInv, LiveIsKnown, SameRest, Recover, saved
<1> QED
  BY <1>1, <1>2, <1>3, <1>4, <1>5, <1>6 DEF IInv

(* A refusal ends the command or sends it back, with the journal it has.  *)
LEMMA RefuseStep ==
  ASSUME IInv, Refuse
  PROVE  IInv'
<1>1. TypeOK'
  BY DEF IInv, TypeOK, Refuse, Fallback, Ways, Steps, saved
<1>2. StepsOfWays'
  BY DEF IInv, TypeOK, StepsOfWays, Refuse, Fallback, Restoring, Replacing
<1>3. JournalIsMine'
  BY DEF IInv, StepsOfWays, JournalIsMine, Refuse, Fallback, Restoring, Replacing
<1>4. LiveIsKnown'
  BY JournalAssumption DEF IInv, TypeOK, LiveIsKnown, Refuse, Fallback
<1>5. SavedIsKnown'
  BY DEF IInv, LiveIsKnown, SavedIsKnown, Refuse, Refused, Fallback
<1>6. SameRest'
  BY DEF IInv, SameRest, Refuse, saved
<1> QED
  BY <1>1, <1>2, <1>3, <1>4, <1>5, <1>6 DEF IInv

(* A step that fails sends the command back the same way.                 *)
LEMMA FailStep ==
  ASSUME IInv, Fail
  PROVE  IInv'
<1>1. TypeOK'
  BY JournalAssumption DEF IInv, TypeOK, Fail, Fault, Fallback, Ways, Steps, saved
<1>2. StepsOfWays'
  BY JournalAssumption DEF IInv, TypeOK, StepsOfWays, Fail, Fallback, Restoring,
     Replacing
<1>3. JournalIsMine'
  BY DEF IInv, StepsOfWays, JournalIsMine, Fail, Fallback, Restoring, Replacing
<1>4. LiveIsKnown'
  BY JournalAssumption DEF IInv, TypeOK, LiveIsKnown, Fail, Fallback
<1>5. SavedIsKnown'
  BY DEF IInv, LiveIsKnown, SavedIsKnown, Fail, Fallback, Replacing
<1>6. SameRest'
  BY DEF IInv, SameRest, Fail, saved
<1> QED
  BY <1>1, <1>2, <1>3, <1>4, <1>5, <1>6 DEF IInv

(* What a crashed command had in hand is lost, the disk stays.            *)
LEMMA CrashStep ==
  ASSUME IInv, Crash
  PROVE  IInv'
<1>1. TypeOK'
  BY JournalAssumption DEF IInv, TypeOK, Crash, Fault, Ways, Steps, saved
<1>2. StepsOfWays'
  BY SavedStateAssumption, JournalAssumption, RecomposedRest DEF StepsOfWays, Crash
<1>3. JournalIsMine'
  BY DEF StepsOfWays, JournalIsMine, Crash
<1>4. LiveIsKnown'
  BY DEF StepsOfWays, LiveIsKnown, SameRest, Crash
<1>5. SavedIsKnown'
  BY DEF SavedIsKnown, Crash, Fault
<1>6. SameRest'
  BY DEF IInv, SavedIsKnown, SameRest, Crash, saved
<1> QED
  BY <1>1, <1>2, <1>3, <1>4, <1>5, <1>6 DEF IInv

(* A service that is down is still the same release.                      *)
LEMMA GoDownStep ==
  ASSUME IInv, GoDown
  PROVE  IInv'
<1>1. TypeOK'
  <2>1. faults' \in 0..MaxFaults
    BY JournalAssumption DEF IInv, TypeOK, GoDown, Fault
  <2>2. up' \in BOOLEAN
    BY DEF GoDown
  <2> QED
    BY <2>1, <2>2 DEF IInv, TypeOK, GoDown, saved
<1>2. StepsOfWays'
  BY DEF IInv, StepsOfWays, GoDown, Steps, Journals, Files, saved
<1>3. JournalIsMine'
  BY DEF IInv, StepsOfWays, JournalIsMine, GoDown
<1>4. LiveIsKnown'
  BY RecomposedRest DEF IInv, StepsOfWays, LiveIsKnown, SameRest, GoDown
<1>5. SavedIsKnown'
  BY DEF IInv, TypeOK, SavedIsKnown, GoDown, Fault, Prepared, saved
<1>6. SameRest'
  BY DEF IInv, SameRest, GoDown, saved
<1> QED
  BY <1>1, <1>2, <1>3, <1>4, <1>5, <1>6 DEF IInv

(* And one that is up again.                                              *)
LEMMA ComeUpStep ==
  ASSUME IInv, ComeUp
  PROVE  IInv'
<1>1. TypeOK'
  BY DEF IInv, TypeOK, ComeUp, saved
<1>2. StepsOfWays'
  BY DEF IInv, TypeOK, StepsOfWays, ComeUp
<1>3. JournalIsMine'
  BY DEF IInv, StepsOfWays, JournalIsMine, ComeUp
<1>4. LiveIsKnown'
  BY DEF IInv, JournalIsMine, LiveIsKnown, ComeUp
<1>5. SavedIsKnown'
  BY DEF IInv, TypeOK, SavedIsKnown, ComeUp, Restoring, Prepared, saved
<1>6. SameRest'
  BY RecomposedRest DEF IInv, SameRest, ComeUp, saved
<1> QED
  BY <1>1, <1>2, <1>3, <1>4, <1>5, <1>6 DEF IInv

(* A change outside is only remembered.                                   *)
LEMMA DisturbStep ==
  ASSUME IInv, Disturb
  PROVE  IInv'
<1>1. TypeOK'
  <2>1. faults' \in 0..MaxFaults
    BY JournalAssumption DEF IInv, TypeOK, Disturb, Fault
  <2>2. kept' \in BOOLEAN
    BY DEF Disturb
  <2> QED
    BY <2>1, <2>2 DEF IInv, TypeOK, Disturb, saved
<1>2. StepsOfWays'
  BY DEF IInv, StepsOfWays, Disturb, Steps, Journals, Files, saved
<1>3. JournalIsMine'
  BY DEF IInv, StepsOfWays, JournalIsMine, Disturb
<1>4. LiveIsKnown'
  BY RecomposedRest DEF IInv, StepsOfWays, LiveIsKnown, SameRest, Disturb
<1>5. SavedIsKnown'
  BY DEF IInv, TypeOK, SavedIsKnown, Disturb, Fault, Prepared, saved
<1>6. SameRest'
  BY DEF IInv, SameRest, Disturb, saved
<1> QED
  BY <1>1, <1>2, <1>3, <1>4, <1>5, <1>6 DEF IInv

(* Every step keeps the strengthening.                                     *)
LEMMA NextStep ==
  ASSUME IInv, [Next]_vars
  PROVE  IInv'
<1>1. CASE \E c \in Releases : Begin(c)
  BY <1>1, BeginStep
<1>2. CASE Proceed
  BY <1>2, OpenJournalStep, WriteJournalStep, SealJournalStep, SaveBackupStep,
     SavePrimaryStep, InspectStep, FenceStep, DeleteStep, StartStep, VerifyStep,
     RestorePrimaryStep, RestoreBackupStep, ClearJournalStep, ReleaseLockStep,
     RefuseStep DEF Proceed
<1>3. CASE Recover \/ Fail \/ Crash
  BY <1>3, RecoverStep, FailStep, CrashStep
<1>4. CASE GoDown \/ ComeUp \/ Disturb
  BY <1>4, GoDownStep, ComeUpStep, DisturbStep
<1>5. CASE UNCHANGED vars
  BY <1>5 DEF vars, IInv, TypeOK, StepsOfWays, JournalIsMine, LiveIsKnown,
     SavedIsKnown, Prepared, SameRest
<1> QED
  BY <1>1, <1>2, <1>3, <1>4, <1>5 DEF Next

(* The strengthening holds in every state: a command that changes something *)
(* has its journal, and what it has done so far follows from its next step. *)
THEOREM Invariance == Spec => []IInv
<1>1. Init => IInv
  BY JournalAssumption, SavedStateAssumption DEF Init, IInv, TypeOK, StepsOfWays,
     JournalIsMine, LiveIsKnown, SavedIsKnown, SameRest, Ways, Steps
<1> QED
  BY <1>1, NextStep, PTL DEF Spec

(* Every variable of the cutover keeps its type.                            *)
THEOREM TypeCorrect == Spec => []TypeOK
BY Invariance DEF IInv

(* The rows of other services in dump.pm2 outlive every step, failed or not. *)
THEOREM Neighbours == Spec => NeighboursStay
<1>1. ASSUME IInv, [Next]_vars
      PROVE  [RestOf(primary') = RestOf(primary)]_vars
  <2>1. CASE SavePrimary
    BY <1>1, <2>1, RecomposedRest DEF SavePrimary, At, IInv, TypeOK, JournalIsMine,
       SameRest, StepsOfWays, LiveIsKnown, Journals, Ways, Restoring, Replacing
  <2>2. CASE RestorePrimary
    BY <1>1, <2>2, JournalAssumption DEF RestorePrimary, At, IInv, TypeOK,
       JournalIsMine, SameRest
  <2>3. CASE Next /\ ~SavePrimary /\ ~RestorePrimary
    BY <2>3 DEF Next, Proceed, Begin, OpenJournal, WriteJournal, SealJournal,
       SaveBackup, Inspect, Fence, Delete, Start, Verify, RestoreBackup,
       ClearJournal, ReleaseLock, Refuse, Recover, Fail, Crash, GoDown, ComeUp,
       Disturb, saved
  <2> QED
    BY <1>1, <2>1, <2>2, <2>3
<1> QED
  BY <1>1, Invariance, PTL DEF Spec, NeighboursStay

(* A step that leaves the journal alone, and all it protects or all that is   *)
(* there without it, leaves the host alone.                                *)
LEMMA Quiet ==
  ASSUME journal' = journal,
         journal \in Journals \/ UNCHANGED <<live, primary, backup>>
  PROVE  Host' = Host
BY DEF Host

(* Clearing the journal commits an activation, and ends everything else.    *)
LEMMA ClearJournalCommits ==
  ASSUME IInv, ClearJournal
  PROVE  Host' = Host \/ \E c \in Releases : Atomic!Cutover(c)
<1>1. journal = mine /\ mine \in Journals /\ journal' = None /\ None \notin Journals
  BY JournalAssumption DEF ClearJournal, At, IInv, JournalIsMine, TypeOK
<1>2. Host' = [release |-> live, primary |-> primary, backup |-> backup]
  BY <1>1 DEF Host, ClearJournal, saved
<1>3. Host = [release |-> mine.release, primary |-> mine.primary, backup |-> mine.backup]
  BY <1>1 DEF Host
<1>4. CASE way = "forward"
  <2>1. live = mine.candidate /\ mine.candidate \in Releases
    BY <1>1, <1>4 DEF ClearJournal, At, IInv, LiveIsKnown, Journals
  <2>2. primary = Recomposed(mine.primary, mine.candidate) /\ backup = Prepared
    BY <1>4 DEF ClearJournal, At, IInv, SavedIsKnown
  <2> QED
    BY <1>2, <1>3, <2>1, <2>2 DEF Atomic!Cutover, Atomic!Recomposed, Atomic!RestOf,
       Prepared, Recomposed, RestOf
<1>5. CASE way # "forward"
  <2>1. live = mine.release
    BY <1>5 DEF ClearJournal, At, IInv, LiveIsKnown, StepsOfWays, TypeOK, Ways
  <2>2. primary = mine.primary /\ backup = mine.backup
    BY <1>5 DEF ClearJournal, At, IInv, SavedIsKnown
  <2> QED
    BY <1>2, <1>3, <2>1, <2>2
<1> QED
  BY <1>4, <1>5

(* Every step but the clearing of the journal leaves the host where it was. *)
LEMMA StepIsAtomic ==
  ASSUME IInv, [Next]_vars
  PROVE  [Atomic!Next]_Host
<1>1. CASE ClearJournal
  BY <1>1, ClearJournalCommits DEF Atomic!Next
<1>2. CASE OpenJournal
  BY <1>2, JournalAssumption DEF OpenJournal, Host, saved
<1>3. CASE WriteJournal
  <2>1. mine \in Journals /\ journal = Torn /\ Torn \notin Journals
    BY <1>3, JournalAssumption DEF WriteJournal, At, IInv, TypeOK, JournalIsMine,
       StepsOfWays
  <2>2. live = mine.release /\ primary = mine.primary /\ backup = mine.backup
    BY <1>3 DEF WriteJournal, At, IInv, LiveIsKnown, SavedIsKnown
  <2> QED
    BY <1>3, <2>1, <2>2 DEF WriteJournal, Host
<1>4. CASE SaveBackup \/ SavePrimary \/ Delete \/ Start \/ RestorePrimary \/ RestoreBackup
  <2>1. journal \in Journals /\ journal' = journal
    BY <1>4 DEF SaveBackup, SavePrimary, Delete, Start, RestorePrimary,
       RestoreBackup, At, IInv, TypeOK, JournalIsMine, StepsOfWays, saved
  <2> QED
    BY <2>1, Quiet
<1>5. CASE Next /\ ~ClearJournal /\ ~OpenJournal /\ ~WriteJournal
           /\ ~(SaveBackup \/ SavePrimary \/ Delete)
           /\ ~(Start \/ RestorePrimary \/ RestoreBackup)
  BY <1>5, Quiet DEF Next, Proceed, Begin, SealJournal, Inspect, Fence, Verify,
     ReleaseLock, Refuse, Recover, Fail, Crash, GoDown, ComeUp, Disturb, saved
<1>6. CASE UNCHANGED vars
  BY <1>6, Quiet DEF vars, saved
<1> QED
  BY <1>1, <1>2, <1>3, <1>4, <1>5, <1>6

(* A cutover is atomic: whatever fails or dies in it, the release and both   *)
(* dumps change together when its journal is cleared, or not at all.        *)
THEOREM Refinement == Spec => ImplementsAtomicCutover
<1>1. Init => Atomic!Init
  BY JournalAssumption DEF Init, Host, Atomic!Init, Atomic!Hosts, Atomic!Files,
     Atomic!Dumps, Files, Dumps
<1> QED
  BY <1>1, StepIsAtomic, Invariance, PTL DEF Spec, ImplementsAtomicCutover,
     Atomic!Spec

(* The service is what the journal allows it to be: the two steps that write *)
(* the journal find the prior release, the two that replace the service have *)
(* one, and what the journal is cleared on is a release.                    *)
LEMMA StepKeepsRecoverable ==
  ASSUME IInv, ServiceIsRecoverable, [Next]_vars
  PROVE  ServiceIsRecoverable'
<1>1. CASE OpenJournal
  <2>1. live \in Releases
    BY <1>1, JournalAssumption DEF OpenJournal, ServiceIsRecoverable
  <2> QED
    BY <1>1, <2>1, JournalAssumption DEF OpenJournal, ServiceIsRecoverable
<1>2. CASE WriteJournal
  <2>1. mine \in Journals /\ live = mine.release
    BY <1>2 DEF WriteJournal, At, IInv, TypeOK, StepsOfWays, LiveIsKnown
  <2> QED
    BY <1>2, <2>1 DEF WriteJournal, ServiceIsRecoverable
<1>3. CASE Delete \/ Start
  <2>1. journal = mine /\ mine \in Journals
    BY <1>3 DEF Delete, Start, At, IInv, TypeOK, StepsOfWays, JournalIsMine
  <2>2. journal' = journal /\ live' \in {mine.release, mine.candidate, None}
    BY <1>3 DEF Delete, Start, Target
  <2> QED
    BY <2>1, <2>2 DEF ServiceIsRecoverable
<1>4. CASE ClearJournal
  <2>1. mine \in Journals
    BY <1>4 DEF ClearJournal, At, IInv, TypeOK, StepsOfWays
  <2>2. live = mine.release \/ live = mine.candidate
    BY <1>4 DEF ClearJournal, At, IInv, TypeOK, Ways, StepsOfWays, LiveIsKnown
  <2>3. live \in Releases
    BY <2>1, <2>2 DEF Journals
  <2> QED
    BY <1>4, <2>3, JournalAssumption DEF ClearJournal, ServiceIsRecoverable
<1>5. CASE Next /\ ~ClearJournal /\ ~OpenJournal /\ ~WriteJournal /\ ~(Delete \/ Start)
  BY <1>5 DEF Next, Proceed, Begin, SealJournal, SaveBackup, SavePrimary, Inspect,
     Fence, Verify, RestorePrimary, RestoreBackup, ReleaseLock, Refuse, Recover,
     Fail, Crash, GoDown, ComeUp, Disturb, ServiceIsRecoverable
<1>6. CASE UNCHANGED vars
  BY <1>6 DEF vars, ServiceIsRecoverable
<1> QED
  BY <1>1, <1>2, <1>3, <1>4, <1>5, <1>6

(* Wherever a cutover, a rollback or a recovery fails or dies, the service    *)
(* that is left is one a recovery knows, and is there if there is none.     *)
THEOREM RecoverableService == Spec => []ServiceIsRecoverable
<1>1. Init => ServiceIsRecoverable
  BY JournalAssumption DEF Init, ServiceIsRecoverable
<1> QED
  BY <1>1, StepKeepsRecoverable, Invariance, PTL DEF Spec

(* A recovery whose neighbours are as they were goes from call to call, and   *)
(* only a failure stops it: the safety half of its coming to an end.        *)
THEOREM UnhinderedRecovery == Spec => []RecoveryIsUnhindered
<1>1. ASSUME IInv, ServiceIsRecoverable
      PROVE  RecoveryIsUnhindered
  <2>1. ASSUME way = "recover", kept
        PROVE  ~Refused
    <3>1. step # "open"
      BY <2>1, <1>1 DEF IInv, StepsOfWays, Replacing, Restoring
    <3>2. CASE step = "fence"
      <4>1. journal = mine /\ mine \in Journals
        BY <1>1, <2>1, <3>2 DEF IInv, TypeOK, JournalIsMine
      <4>2. live \in Expected
        BY <1>1, <2>1, <4>1 DEF ServiceIsRecoverable, Expected
      <4> QED
        BY <2>1, <3>1, <4>2 DEF Refused
    <3>3. CASE step # "fence"
      BY <2>1, <3>1, <3>3 DEF Refused
    <3> QED
      BY <3>2, <3>3
  <2> QED
    BY <2>1 DEF RecoveryIsUnhindered
<1> QED
  BY <1>1, Invariance, RecoverableService, PTL

=============================================================================

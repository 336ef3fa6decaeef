-------------------------- MODULE StudioJob_proofs --------------------------
(***************************************************************************)
(* StudioJob for any number of jobs and of cancel calls.                   *)
(***************************************************************************)
EXTENDS StudioJob, TLAPS

(* A row write touches one row, leaves one that is absent alone, and says   *)
(* in lost when it was dropped.                                            *)
LEMMA RowWriteEffect ==
  ASSUME TypeOK, NEW j \in Jobs, NEW status \in Statuses \ {"absent"},
         RowWrite(j, status)
  PROVE  /\ row' \in [Jobs -> Statuses]
         /\ lost' \subseteq Jobs
         /\ \A i \in Jobs \ {j} : row'[i] = row[i] /\ (i \in lost' <=> i \in lost)
         /\ row[j] = "absent" <=> row'[j] = "absent"
         /\ row'[j] \in {row[j], status}
         /\ j \notin lost' => j \notin lost
         /\ j \notin lost' /\ row[j] # "absent" => row'[j] = status
  BY DEF TypeOK, RowWrite

(* A step of one runner that writes nothing keeps the invariant when it     *)
(* keeps the job cached, does not go back, and either knew the outcome      *)
(* already or does not claim to.                                           *)
LEMMA RunnerMoves ==
  ASSUME IInv, NEW j \in Jobs, NEW status \in Statuses, NEW where \in RunnerPcs,
         status = "absent" <=> where = "gone",
         cache' = [cache EXCEPT ![j] = status],
         runner' = [runner EXCEPT ![j] = where],
         UNCHANGED <<row, cancel, target, lost, orphans>>, overdue' \subseteq Jobs,
         runner[j] \notin {"none", "inserting", "gone"},
         where \notin {"none", "inserting", "scheduled"},
         where \in OutcomeKnown => runner[j] \in OutcomeKnown
  PROVE  IInv'
<1>1. TypeOK'
  BY DEF IInv, TypeOK
<1>2. CacheFollowsRunner'
  BY DEF IInv, TypeOK, CacheFollowsRunner
<1>3. RowsFollowRunners'
  BY DEF IInv, TypeOK, RowsFollowRunners
<1>4. CancelsKnowTheirJob'
  BY DEF IInv, TypeOK, CancelsKnowTheirJob
<1>5. QED
  BY <1>1, <1>2, <1>3, <1>4 DEF IInv

LEMMA InitInv == Init => IInv
<1> SUFFICES ASSUME Init PROVE IInv
  OBVIOUS
<1> USE DEF Init
<1>1. TypeOK
  BY DEF TypeOK, Statuses, RunnerPcs, CancelPcs
<1>2. CacheFollowsRunner
  BY DEF CacheFollowsRunner
<1>3. RowsFollowRunners
  BY DEF RowsFollowRunners, OutcomeKnown
<1>4. CancelsKnowTheirJob
  BY DEF CancelsKnowTheirJob
<1>5. QED
  BY <1>1, <1>2, <1>3, <1>4 DEF IInv

-----------------------------------------------------------------------------
(* createJob: the job is new, so no cancel call names it.                  *)
LEMMA CreateStep ==
  ASSUME IInv, NEW j \in Jobs, CreateJob(j)
  PROVE  IInv'
<1> USE DEF CreateJob, SetCache, RunnerTo
<1>1. TypeOK'
  BY DEF IInv, TypeOK, Statuses, RunnerPcs
<1>2. CacheFollowsRunner'
  BY DEF IInv, TypeOK, CacheFollowsRunner
<1>3. RowsFollowRunners'
  BY DEF IInv, TypeOK, RowsFollowRunners, OutcomeKnown
<1>4. CancelsKnowTheirJob'
  BY DEF IInv, TypeOK, CancelsKnowTheirJob
<1>5. QED
  BY <1>1, <1>2, <1>3, <1>4 DEF IInv

(* The insert ends: the row is there, or its loss is remembered.           *)
LEMMA InsertStep ==
  ASSUME IInv, NEW j \in Jobs, Inserted(j)
  PROVE  IInv'
<1> USE DEF Inserted, RunnerTo
<1>1. TypeOK'
  BY DEF IInv, TypeOK, Statuses, RunnerPcs
<1>2. CacheFollowsRunner'
  BY DEF IInv, TypeOK, CacheFollowsRunner
<1>3. RowsFollowRunners'
  BY DEF IInv, TypeOK, RowsFollowRunners, OutcomeKnown
<1>4. CancelsKnowTheirJob'
  BY DEF IInv, TypeOK, CancelsKnowTheirJob
<1>5. QED
  BY <1>1, <1>2, <1>3, <1>4 DEF IInv

(* A runner's row write: what it leaves for later is an outcome.           *)
LEMMA RunnerWriteStep ==
  ASSUME IInv, NEW j \in Jobs, RunnerWrites(j)
  PROVE  IInv'
<1> DEFINE where == AfterWrite[runner[j]]
<1>1. /\ runner[j] \in {"announcing", "completing", "syncing", "failing", "failSync"}
      /\ where \in {"checking", "summarizing", "evicting", "failSync"}
      /\ where \in OutcomeKnown => runner[j] # "announcing"
  BY DEF RunnerWrites, AfterWrite, OutcomeKnown
<1>2. /\ Written(j) \in Statuses \ {"absent"}
      /\ runner[j] # "announcing" => Written(j) \in Final
  BY <1>1 DEF Written, Statuses, Final
<1>3. /\ row' \in [Jobs -> Statuses]
      /\ lost' \subseteq Jobs
      /\ \A i \in Jobs \ {j} : row'[i] = row[i] /\ (i \in lost' <=> i \in lost)
      /\ row[j] = "absent" <=> row'[j] = "absent"
      /\ j \notin lost' => j \notin lost
      /\ j \notin lost' /\ row[j] # "absent" => row'[j] = Written(j)
  BY <1>2, RowWriteEffect DEF IInv, RunnerWrites
<1>4. /\ runner' = [runner EXCEPT ![j] = where]
      /\ UNCHANGED <<cache, overdue, cancel, target, orphans>>
  BY DEF RunnerWrites, RunnerTo
<1>5. TypeOK'
  BY <1>1, <1>3, <1>4 DEF IInv, TypeOK, RunnerPcs
<1>6. CacheFollowsRunner'
  BY <1>1, <1>4 DEF IInv, TypeOK, CacheFollowsRunner
<1>7. RowsFollowRunners'
  <2>1. row[j] # "absent" \/ j \in lost \cup orphans
    BY <1>1 DEF IInv, RowsFollowRunners
  <2>2. runner'[j] \in OutcomeKnown /\ j \notin lost' \cup orphans => row'[j] \in Final
    BY <1>1, <1>2, <1>3, <1>4, <2>1 DEF IInv, TypeOK
  <2>3. QED
    BY <1>1, <1>3, <1>4, <2>1, <2>2 DEF IInv, TypeOK, RowsFollowRunners
<1>8. CancelsKnowTheirJob'
  BY <1>1, <1>3, <1>4 DEF IInv, TypeOK, CancelsKnowTheirJob
<1>9. QED
  BY <1>5, <1>6, <1>7, <1>8 DEF IInv

(* The other steps of a runner, its agent and its clock write no row.      *)
LEMMA QuietRunnerStep ==
  ASSUME IInv, NEW j \in Jobs,
         \/ RunJob(j) \/ AgentStarts(j) \/ Summarized(j) \/ Evict(j)
         \/ AgentStep(j) \/ TimePasses(j)
  PROVE  IInv'
<1>1. CASE RunJob(j)
  BY <1>1, RunnerMoves
  DEF RunJob, SetCache, RunnerTo, Statuses, RunnerPcs, OutcomeKnown, IInv, TypeOK
<1>2. CASE AgentStarts(j)
  <2>1. cache' = [cache EXCEPT ![j] = cache[j]] /\ cache[j] # "absent"
    BY <1>2 DEF AgentStarts, IInv, TypeOK, CacheFollowsRunner
  <2>2. QED
    BY <1>2, <2>1, RunnerMoves
    DEF AgentStarts, RunnerTo, RunnerPcs, OutcomeKnown, IInv, TypeOK
<1>3. CASE Summarized(j)
  <2>1. cache' = [cache EXCEPT ![j] = cache[j]] /\ cache[j] # "absent"
    BY <1>3 DEF Summarized, IInv, TypeOK, CacheFollowsRunner
  <2>2. QED
    BY <1>3, <2>1, RunnerMoves
    DEF Summarized, RunnerTo, RunnerPcs, OutcomeKnown, IInv, TypeOK
<1>4. CASE Evict(j)
  BY <1>4, RunnerMoves
  DEF Evict, SetCache, RunnerTo, Statuses, RunnerPcs, OutcomeKnown, IInv, TypeOK
<1>5. CASE AgentThrows(j) \/ AgentMessage(j)
  BY <1>5, RunnerMoves
  DEF AgentThrows, AgentMessage, Fails, SetCache, RunnerTo, Statuses, Final, RunnerPcs,
      OutcomeKnown, IInv, TypeOK
<1>6. CASE AgentDone(j)
  BY <1>6, RunnerMoves
  DEF AgentDone, SetCache, RunnerTo, Statuses, Final, RunnerPcs, OutcomeKnown, IInv, TypeOK
<1>7. CASE TimePasses(j)
  BY <1>7 DEF TimePasses, IInv, TypeOK, CacheFollowsRunner, RowsFollowRunners,
              CancelsKnowTheirJob
<1>8. QED
  BY <1>1, <1>2, <1>3, <1>4, <1>5, <1>6, <1>7 DEF AgentStep

-----------------------------------------------------------------------------
(* A call begins: it names a job whose runner it knows.                    *)
LEMMA CancelBegins ==
  ASSUME IInv, NEW x \in Cancels, NEW j \in Jobs, CancelCached(x, j) \/ CancelUncached(x, j)
  PROVE  IInv'
<1>1. CASE CancelCached(x, j)
  <2> USE <1>1 DEF CancelCached, SetCache, CancelTo
  <2>1. TypeOK'
    BY DEF IInv, TypeOK, Statuses, Final, CancelPcs
  <2>2. CacheFollowsRunner'
    BY DEF IInv, TypeOK, CacheFollowsRunner
  <2>3. RowsFollowRunners'
    BY DEF IInv, RowsFollowRunners
  <2>4. CancelsKnowTheirJob'
    BY DEF IInv, TypeOK, CancelsKnowTheirJob, CacheFollowsRunner
  <2>5. QED
    BY <2>1, <2>2, <2>3, <2>4 DEF IInv
<1>2. CASE CancelUncached(x, j)
  <2> USE <1>2 DEF CancelUncached, CancelTo
  <2>1. TypeOK'
    BY DEF IInv, TypeOK, CancelPcs
  <2>2. CacheFollowsRunner' /\ RowsFollowRunners'
    BY DEF IInv, CacheFollowsRunner, RowsFollowRunners
  <2>3. CancelsKnowTheirJob'
    BY DEF IInv, TypeOK, CancelsKnowTheirJob
  <2>4. QED
    BY <2>1, <2>2, <2>3 DEF IInv
<1>3. QED
  BY <1>1, <1>2

(* The row has been read: the call goes on only when it said running.      *)
LEMMA CancelReadStep ==
  ASSUME IInv, NEW x \in Cancels, CancelReads(x)
  PROVE  IInv'
<1> USE DEF CancelReads, CancelTo, Cancellable
<1>1. target[x] \in Jobs /\ runner[target[x]] = "gone"
  BY DEF IInv, CancelsKnowTheirJob
<1>2. TypeOK'
  BY <1>1 DEF IInv, TypeOK, CancelPcs
<1>3. CacheFollowsRunner' /\ RowsFollowRunners'
  BY DEF IInv, CacheFollowsRunner, RowsFollowRunners
<1>4. CancelsKnowTheirJob'
  BY <1>1 DEF IInv, TypeOK, CancelsKnowTheirJob
<1>5. QED
  BY <1>2, <1>3, <1>4 DEF IInv

(* The write of a cancel: final where an outcome is expected.              *)
LEMMA CancelWriteStep ==
  ASSUME IInv, NEW x \in Cancels, CancelWrites(x)
  PROVE  IInv'
<1> DEFINE j == target[x]
<1>1. /\ j \in Jobs
      /\ runner[j] \notin {"none", "inserting", "scheduled"}
  BY DEF IInv, CancelsKnowTheirJob, CancelWrites
<1>2. "cancelled" \in Statuses \ {"absent"} /\ "cancelled" \in Final
  BY DEF Statuses, Final
<1>3. /\ row' \in [Jobs -> Statuses]
      /\ lost' \subseteq Jobs
      /\ \A i \in Jobs \ {j} : row'[i] = row[i] /\ (i \in lost' <=> i \in lost)
      /\ row[j] = "absent" <=> row'[j] = "absent"
      /\ row'[j] \in {row[j], "cancelled"}
      /\ j \notin lost' => j \notin lost
      /\ j \notin lost' /\ row[j] # "absent" => row'[j] = "cancelled"
  BY <1>1, <1>2, RowWriteEffect DEF IInv, CancelWrites
<1>4. /\ cancel' = [cancel EXCEPT ![x] = "idle"]
      /\ target' = [target EXCEPT ![x] = None]
      /\ UNCHANGED <<cache, runner, overdue, orphans>>
  BY DEF CancelWrites, CancelTo
<1>5. TypeOK'
  BY <1>3, <1>4 DEF IInv, TypeOK, CancelPcs
<1>6. CacheFollowsRunner'
  BY <1>4 DEF IInv, CacheFollowsRunner
<1>7. RowsFollowRunners'
  BY <1>1, <1>2, <1>3, <1>4 DEF IInv, RowsFollowRunners
<1>8. CancelsKnowTheirJob'
  BY <1>3, <1>4 DEF IInv, TypeOK, CancelsKnowTheirJob
<1>9. QED
  BY <1>5, <1>6, <1>7, <1>8 DEF IInv

LEMMA CrashStep == ASSUME IInv, Crash PROVE IInv'
<1> USE DEF Crash
<1>1. TypeOK'
  BY DEF IInv, TypeOK, Statuses, RunnerPcs, CancelPcs
<1>2. CacheFollowsRunner'
  BY DEF IInv, TypeOK, CacheFollowsRunner
<1>3. RowsFollowRunners'
  BY DEF IInv, TypeOK, RowsFollowRunners, OutcomeKnown
<1>4. CancelsKnowTheirJob'
  BY DEF IInv, TypeOK, CancelsKnowTheirJob
<1>5. QED
  BY <1>1, <1>2, <1>3, <1>4 DEF IInv

LEMMA StutterStep == ASSUME IInv, UNCHANGED vars PROVE IInv'
  BY DEF IInv, vars, TypeOK, CacheFollowsRunner, RowsFollowRunners, CancelsKnowTheirJob

-----------------------------------------------------------------------------
(* The strengthening is invariant: agentRunner.mjs keeps cache, row, runner *)
(* and cancel calls in step, whatever is lost and whenever it crashes.     *)
THEOREM Invariance == Spec => []IInv
<1>1. Init => IInv
  BY InitInv
<1>2. IInv /\ [Next]_vars => IInv'
  <2> SUFFICES ASSUME IInv, [Next]_vars PROVE IInv'
    OBVIOUS
  <2>1. ASSUME NEW j \in Jobs,
               CreateJob(j) \/ RunnerStep(j) \/ AgentStep(j) \/ TimePasses(j)
        PROVE  IInv'
    BY <2>1, CreateStep, InsertStep, RunnerWriteStep, QuietRunnerStep DEF RunnerStep
  <2>2. ASSUME NEW x \in Cancels, NEW j \in Jobs, CancelCached(x, j) \/ CancelUncached(x, j)
        PROVE  IInv'
    BY <2>2, CancelBegins
  <2>3. ASSUME NEW x \in Cancels, CancelStep(x) PROVE IInv'
    BY <2>3, CancelReadStep, CancelWriteStep DEF CancelStep
  <2>4. QED
    BY <2>1, <2>2, <2>3, CrashStep, StutterStep DEF Next
<1>3. QED
  BY <1>1, <1>2, PTL DEF Spec

(* Statuses and program counters are what the code's strings say.          *)
THEOREM TypeCorrect == Spec => []TypeOK
<1>1. IInv => TypeOK
  BY DEF IInv
<1>2. QED
  BY <1>1, Invariance, PTL

(* A finished job of which no write was lost has a final row (runJob        *)
(* 371-567, cancelJob 586-611).                                            *)
THEOREM FinalRows == Spec => []FinishedJobsAreFinal
<1>1. IInv => FinishedJobsAreFinal
  BY DEF IInv, RowsFollowRunners, FinishedJobsAreFinal, OutcomeKnown
<1>2. QED
  BY <1>1, Invariance, PTL

(* The outcome of a job that has left the process is settled (cancelJob     *)
(* 588-599): nobody runs it, and a call that read its row read running.    *)
THEOREM SettledOutcomes == Spec => OutcomesAreSettled
<1> DEFINE Settled(j) == /\ runner[j] = "gone"
                         /\ row[j] \in Final
                         /\ \A x \in Cancels : ~(cancel[x] = "cachedWrite" /\ target[x] = j)
<1>1. IInv /\ [Next]_vars => [\A j \in Jobs : Settled(j) => row'[j] = row[j]]_vars
  <2> SUFFICES ASSUME IInv, [Next]_vars, NEW j \in Jobs, Settled(j)
               PROVE  row'[j] = row[j]
    BY DEF vars
  <2>1. ASSUME NEW i \in Jobs, RunnerWrites(i) \/ Inserted(i) PROVE row'[j] = row[j]
    BY <2>1 DEF RunnerWrites, AfterWrite, Inserted, RowWrite, IInv, TypeOK
  <2>2. ASSUME NEW x \in Cancels, CancelWrites(x) PROVE row'[j] = row[j]
    <3>1. target[x] = j => cancel[x] = "rowWrite" /\ row[j] = "cancelled"
      BY <2>2 DEF CancelWrites, IInv, CancelsKnowTheirJob, Final
    <3>2. QED
      BY <2>2, <3>1 DEF CancelWrites, RowWrite, IInv, TypeOK
  <2>3. ASSUME NEW i \in Jobs,
               \/ CreateJob(i) \/ RunJob(i) \/ AgentStarts(i) \/ Summarized(i)
               \/ Evict(i) \/ AgentStep(i) \/ TimePasses(i)
        PROVE  row' = row
    BY <2>3 DEF CreateJob, RunJob, AgentStarts, Summarized, Evict, AgentStep, AgentThrows,
                AgentMessage, AgentDone, Fails, TimePasses
  <2>4. ASSUME NEW x \in Cancels, NEW i \in Jobs,
               CancelCached(x, i) \/ CancelUncached(x, i) \/ CancelReads(x)
        PROVE  row' = row
    BY <2>4 DEF CancelCached, CancelUncached, CancelReads
  <2>5. Crash \/ UNCHANGED vars => row' = row
    BY DEF Crash, vars
  <2>6. QED
    BY <2>1, <2>2, <2>3, <2>4, <2>5 DEF Next, RunnerStep, CancelStep
<1>2. QED
  BY <1>1, Invariance, PTL DEF Spec, OutcomesAreSettled

-----------------------------------------------------------------------------
Agreement == MemoryKnows /\ OutcomesAgree

(* A runner's write makes the row say what memory has said since before.    *)
LEMMA WrittenAgrees ==
  ASSUME IInv, Agreement, NEW j \in Jobs, RunnerWrites(j)
  PROVE  Agreement'
<1> DEFINE where == AfterWrite[runner[j]]
<1>1. /\ runner[j] \in {"announcing", "completing", "syncing", "failing", "failSync"}
      /\ where = CASE runner[j] = "announcing" -> "checking"
                   [] runner[j] = "completing" -> "summarizing"
                   [] runner[j] = "failing" -> "failSync"
                   [] OTHER -> "evicting"
      /\ runner' = [runner EXCEPT ![j] = where]
      /\ UNCHANGED <<cache, orphans>>
  BY DEF RunnerWrites, AfterWrite, RunnerTo
<1>2. runner[j] # "announcing" => Written(j) = cache[j]
  BY <1>1 DEF Written, Agreement, MemoryKnows
<1>3. Written(j) \in Statuses \ {"absent"}
  BY <1>1 DEF Written, Statuses, Final
<1>4. /\ \A i \in Jobs \ {j} : row'[i] = row[i] /\ (i \in lost' <=> i \in lost)
      /\ j \notin lost' => j \notin lost
      /\ j \notin lost' /\ row[j] # "absent" => row'[j] = Written(j)
  BY <1>3, RowWriteEffect DEF IInv, RunnerWrites
<1>5. MemoryKnows'
  BY <1>1 DEF IInv, TypeOK, Agreement, MemoryKnows
<1>6. runner[j] \notin {"none", "gone"} /\ j \notin lost => row[j] # "absent"
  BY <1>1 DEF Agreement, MemoryKnows, IInv, RowsFollowRunners
<1>7. OutcomesAgree'
  BY <1>1, <1>2, <1>4, <1>6 DEF IInv, TypeOK, Agreement, OutcomesAgree
<1> QED
  BY <1>5, <1>7 DEF Agreement

(* The write of a cancel makes the row say that, whatever memory says.      *)
LEMMA CancelAgrees ==
  ASSUME IInv, Agreement, NEW x \in Cancels, CancelWrites(x)
  PROVE  Agreement'
<1> DEFINE j == target[x]
<1>1. /\ j \in Jobs
      /\ "cancelled" \in Statuses \ {"absent"}
      /\ UNCHANGED <<cache, runner, orphans>>
  BY DEF IInv, CancelsKnowTheirJob, CancelWrites, Statuses, Final
<1>2. /\ \A i \in Jobs \ {j} : row'[i] = row[i] /\ (i \in lost' <=> i \in lost)
      /\ row'[j] \in {row[j], "cancelled"}
      /\ j \notin lost' => j \notin lost
  BY <1>1, RowWriteEffect DEF IInv, CancelWrites
<1> QED
  BY <1>1, <1>2 DEF Agreement, MemoryKnows, OutcomesAgree

(* Memory and row of a job that is over tell one outcome, or a cancel.      *)
THEOREM OneOutcome == Spec => []OutcomesAgree
<1>1. Init => Agreement
  BY DEF Init, Agreement, MemoryKnows, OutcomesAgree
<1>2. IInv /\ Agreement /\ [Next]_vars => Agreement'
  <2> SUFFICES ASSUME IInv, Agreement, [Next]_vars PROVE Agreement'
    OBVIOUS
  <2>1. ASSUME NEW j \in Jobs, CreateJob(j) \/ Inserted(j) \/ RunJob(j) \/ AgentStarts(j)
        PROVE  Agreement'
    BY <2>1 DEF CreateJob, Inserted, RunJob, AgentStarts, SetCache, RunnerTo, IInv, TypeOK,
                Agreement, MemoryKnows, OutcomesAgree
  <2>2. ASSUME NEW j \in Jobs, AgentStep(j) PROVE Agreement'
    BY <2>2 DEF AgentStep, AgentThrows, AgentMessage, AgentDone, Fails, SetCache, RunnerTo,
                IInv, TypeOK, Agreement, MemoryKnows, OutcomesAgree
  <2>3. ASSUME NEW j \in Jobs, Summarized(j) \/ Evict(j) \/ TimePasses(j) PROVE Agreement'
    BY <2>3 DEF Summarized, Evict, TimePasses, SetCache, RunnerTo, IInv, TypeOK,
                Agreement, MemoryKnows, OutcomesAgree
  <2>4. ASSUME NEW x \in Cancels, NEW j \in Jobs, CancelCached(x, j) PROVE Agreement'
    BY <2>4 DEF CancelCached, SetCache, IInv, TypeOK, Agreement, MemoryKnows, OutcomesAgree
  <2>5. ASSUME NEW x \in Cancels, CancelReads(x) \/ \E j \in Jobs : CancelUncached(x, j)
        PROVE  Agreement'
    BY <2>5 DEF CancelUncached, CancelReads, Agreement, MemoryKnows, OutcomesAgree
  <2>6. CASE Crash
    <3>1. \A j \in Jobs :
            /\ runner'[j] = IF runner[j] = "none" THEN "none" ELSE "gone"
            /\ j \in orphans' => j \in orphans \/ runner[j] # "none"
      BY <2>6 DEF Crash
    <3> QED
      BY <3>1 DEF Agreement, MemoryKnows, OutcomesAgree
  <2>7. CASE UNCHANGED vars
    BY <2>7 DEF vars, Agreement, MemoryKnows, OutcomesAgree
  <2> QED
    BY <2>1, <2>2, <2>3, <2>4, <2>5, <2>6, <2>7, WrittenAgrees, CancelAgrees
    DEF Next, RunnerStep, CancelStep
<1>3. Agreement => OutcomesAgree
  BY DEF Agreement
<1> QED
  BY <1>1, <1>2, <1>3, Invariance, PTL DEF Spec
=============================================================================

----------------------------- MODULE StudioJob -----------------------------
(***************************************************************************)
(* toolsets/studio/lib/agentRunner.mjs: background agent jobs, their        *)
(* status kept twice, in the process's jobCache and in a database row, and  *)
(* their cancellation.  A caller awaits each of its own row writes, but the *)
(* writes of a runner and of cancel calls are in flight together, and a     *)
(* write that fails is logged and dropped.                                 *)
(***************************************************************************)
CONSTANTS Jobs, Cancels, None

ASSUME NoneIsNoJob == None \notin Jobs

VARIABLES
  cache,   \* status of the object in jobCache, or absent
  row,     \* status in studio_jobs, or absent
  runner,  \* where createJob and then runJob are
  overdue, \* jobs whose agent has run for longer than JOB_TIMEOUT_MS
  cancel,  \* where each call of cancelJob is
  target,  \* the job it is to cancel
  lost,    \* history: jobs of which a row write was dropped
  orphans  \* history: jobs a crash interrupted

vars == <<cache, row, runner, overdue, cancel, target, lost, orphans>>

Final == {"completed", "failed", "cancelled"}
Statuses == {"absent", "pending", "running"} \cup Final

(* none: not created; inserting: createJob awaits the insert; announcing,   *)
(* completing, syncing, failing, failSync: runJob awaits a row write.      *)
RunnerPcs == {"none", "inserting", "scheduled", "announcing", "checking", "agent",
              "completing", "summarizing", "syncing", "failing", "failSync",
              "evicting", "gone"}

CancelPcs == {"idle", "cachedWrite", "rowRead", "rowWrite"}

TypeOK ==
  /\ cache \in [Jobs -> Statuses]
  /\ row \in [Jobs -> Statuses]
  /\ runner \in [Jobs -> RunnerPcs]
  /\ overdue \subseteq Jobs
  /\ cancel \in [Cancels -> CancelPcs]
  /\ target \in [Cancels -> Jobs \cup {None}]
  /\ lost \subseteq Jobs
  /\ orphans \subseteq Jobs

Init ==
  /\ cache = [j \in Jobs |-> "absent"]
  /\ row = [j \in Jobs |-> "absent"]
  /\ runner = [j \in Jobs |-> "none"]
  /\ overdue = {}
  /\ cancel = [x \in Cancels |-> "idle"]
  /\ target = [x \in Cancels |-> None]
  /\ lost = {}
  /\ orphans = {}

-----------------------------------------------------------------------------
SetCache(j, status) == cache' = [cache EXCEPT ![j] = status]
RunnerTo(j, where) == runner' = [runner EXCEPT ![j] = where]

(* dbUpdateJob ends: an update of a row that is not there changes nothing,  *)
(* an update that fails is logged only.                                    *)
RowWrite(j, status) ==
  \/ /\ row' = IF row[j] = "absent" THEN row ELSE [row EXCEPT ![j] = status]
     /\ UNCHANGED lost
  \/ /\ lost' = lost \cup {j}
     /\ UNCHANGED row

(* createJob, startJob.                                                    *)
CreateJob(j) ==
  /\ runner[j] = "none"
  /\ SetCache(j, "pending")
  /\ RunnerTo(j, "inserting")
  /\ UNCHANGED <<row, overdue, cancel, target, lost, orphans>>

Inserted(j) ==
  /\ runner[j] = "inserting"
  /\ \/ row' = [row EXCEPT ![j] = "pending"] /\ UNCHANGED lost
     \/ lost' = lost \cup {j} /\ UNCHANGED row
  /\ RunnerTo(j, "scheduled")
  /\ UNCHANGED <<cache, overdue, cancel, target, orphans>>

(* runJob: the status in memory changes at once, whatever it was.          *)
RunJob(j) ==
  /\ runner[j] = "scheduled"
  /\ SetCache(j, "running")
  /\ RunnerTo(j, "announcing")
  /\ UNCHANGED <<row, overdue, cancel, target, lost, orphans>>

(* The status a runner's row write carries, and where it goes on after it. *)
MutantNeverFails(j) == IF runner[j] = "announcing" THEN "running" ELSE "completed"

MutantKeepsStatus(j) == IF runner[j] = "announcing" THEN "running" ELSE row[j]

Written(j) ==
  CASE runner[j] = "announcing" -> "running"
    [] runner[j] \in {"completing", "syncing"} -> "completed"
    [] OTHER -> "failed"

AfterWrite ==
  [announcing |-> "checking", completing |-> "summarizing", syncing |-> "evicting",
   failing |-> "failSync", failSync |-> "evicting"]

RunnerWrites(j) ==
  /\ runner[j] \in DOMAIN AfterWrite
  /\ RowWrite(j, Written(j))
  /\ RunnerTo(j, AfterWrite[runner[j]])
  /\ UNCHANGED <<cache, overdue, cancel, target, orphans>>

(* The Claude CLI is there and the agent starts; the clock starts with it. *)
AgentStarts(j) ==
  /\ runner[j] = "checking"
  /\ RunnerTo(j, "agent")
  /\ UNCHANGED <<cache, row, overdue, cancel, target, lost, orphans>>

(* The catch of runJob: the health check, the loading or the agent threw.   *)
Fails(j) ==
  /\ SetCache(j, "failed")
  /\ RunnerTo(j, "failing")
  /\ UNCHANGED <<row, overdue, cancel, target, lost, orphans>>

AgentThrows(j) == runner[j] \in {"checking", "agent"} /\ Fails(j)

(* A message of the agent: only now is the elapsed time looked at.  Steps   *)
(* and events are not status and are left out.                             *)
MutantNeverTimesOut(j) == runner[j] = "agent" /\ UNCHANGED vars

AgentMessage(j) ==
  /\ runner[j] = "agent"
  /\ j \in overdue
  /\ Fails(j)

AgentDone(j) ==
  /\ runner[j] = "agent"
  /\ SetCache(j, "completed")
  /\ RunnerTo(j, "completing")
  /\ UNCHANGED <<row, overdue, cancel, target, lost, orphans>>

(* summarizeJob has its own catch: it always returns.                      *)
Summarized(j) ==
  /\ runner[j] = "summarizing"
  /\ RunnerTo(j, "syncing")
  /\ UNCHANGED <<cache, row, overdue, cancel, target, lost, orphans>>

(* The one-minute timer.                                                   *)
Evict(j) ==
  /\ runner[j] = "evicting"
  /\ SetCache(j, "absent")
  /\ RunnerTo(j, "gone")
  /\ UNCHANGED <<row, overdue, cancel, target, lost, orphans>>

TimePasses(j) ==
  /\ runner[j] = "agent"
  /\ overdue' = overdue \cup {j}
  /\ UNCHANGED <<cache, row, runner, cancel, target, lost, orphans>>

-----------------------------------------------------------------------------
CancelTo(x, where, j) ==
  /\ cancel' = [cancel EXCEPT ![x] = where]
  /\ target' = [target EXCEPT ![x] = j]

(* cancelJob: a cached job must be running, and is cancelled in memory at   *)
(* once; for any other the row is asked first.  Ids are random, so no call  *)
(* names a job before createJob made it.                                   *)
CancelCached(x, j) ==
  /\ cancel[x] = "idle"
  /\ cache[j] = "running"
  /\ SetCache(j, "cancelled")
  /\ CancelTo(x, "cachedWrite", j)
  /\ UNCHANGED <<row, runner, overdue, lost, orphans>>

CancelUncached(x, j) ==
  /\ cancel[x] = "idle"
  /\ runner[j] = "gone"
  /\ cache[j] = "absent"
  /\ CancelTo(x, "rowRead", j)
  /\ UNCHANGED <<cache, row, runner, overdue, lost, orphans>>

(* The row has been read, or could not be.                                 *)
MutantAnyStatus(status) == status # "absent"

Cancellable(status) == status = "running"

CancelReads(x) ==
  /\ cancel[x] = "rowRead"
  /\ \/ Cancellable(row[target[x]]) /\ CancelTo(x, "rowWrite", target[x])
     \/ CancelTo(x, "idle", None)
  /\ UNCHANGED <<cache, row, runner, overdue, lost, orphans>>

CancelWrites(x) ==
  /\ cancel[x] \in {"cachedWrite", "rowWrite"}
  /\ RowWrite(target[x], "cancelled")
  /\ CancelTo(x, "idle", None)
  /\ UNCHANGED <<cache, runner, overdue, orphans>>

(* The process dies: rows stay as they are, nobody goes on with the jobs.   *)
Crash ==
  /\ cache' = [j \in Jobs |-> "absent"]
  /\ orphans' = orphans \cup {j \in Jobs : runner[j] \notin {"none", "gone"}}
  /\ runner' = [j \in Jobs |-> IF runner[j] = "none" THEN "none" ELSE "gone"]
  /\ cancel' = [x \in Cancels |-> "idle"]
  /\ target' = [x \in Cancels |-> None]
  /\ UNCHANGED <<row, overdue, lost>>

RunnerStep(j) ==
  \/ Inserted(j)
  \/ RunJob(j)
  \/ RunnerWrites(j)
  \/ AgentStarts(j)
  \/ Summarized(j)
  \/ Evict(j)

AgentStep(j) == AgentThrows(j) \/ AgentMessage(j) \/ AgentDone(j)

CancelStep(x) == CancelReads(x) \/ CancelWrites(x)

Next ==
  \/ \E j \in Jobs : CreateJob(j) \/ RunnerStep(j) \/ AgentStep(j) \/ TimePasses(j)
  \/ \E x \in Cancels :
       \/ \E j \in Jobs : CancelCached(x, j) \/ CancelUncached(x, j)
       \/ CancelStep(x)
  \/ Crash

Spec == Init /\ [][Next]_vars

(* Awaited calls end, timers fire and the clock runs; nothing is assumed of *)
(* the agent.                                                              *)
Fairness ==
  /\ \A j \in Jobs : WF_vars(RunnerStep(j)) /\ WF_vars(TimePasses(j))
  /\ \A x \in Cancels : WF_vars(CancelStep(x))

FairSpec == Spec /\ Fairness

(* An agent that goes on sending messages, or ends.                        *)
TalkingSpec == FairSpec /\ \A j \in Jobs : WF_vars(AgentMessage(j))

-----------------------------------------------------------------------------
(* A job that ran to its end in one process, and of which no write was      *)
(* dropped, is not left pending or running in the database, however cancel  *)
(* calls wrote in between (runJob 371-567, cancelJob 586-611).             *)
FinishedJobsAreFinal ==
  \A j \in Jobs :
    runner[j] = "gone" /\ j \notin lost \cup orphans => row[j] \in Final

(* While a job that is over can still be asked for, memory and database tell  *)
(* the same: a reader who finds it in jobCache and one who reads its row     *)
(* see one outcome, but for a cancel that met the job before it was over     *)
(* (getJob 309-317, runJob 505-552, cancelJob 602-611).                     *)
OutcomesAgree ==
  \A j \in Jobs :
    runner[j] \in {"summarizing", "syncing", "failSync", "evicting"} /\ j \notin lost =>
      row[j] \in {cache[j], "cancelled"}

(* Once a job has left the process, and no cancel that met it there still   *)
(* waits for its write, the outcome in its row is settled: a cancel that    *)
(* reads the row only ends what nobody runs (588-599).                     *)
OutcomesAreSettled ==
  [][\A j \in Jobs :
       /\ runner[j] = "gone"
       /\ row[j] \in Final
       /\ \A x \in Cancels : ~(cancel[x] = "cachedWrite" /\ target[x] = j)
       => row'[j] = row[j]]_vars

(* A job whose agent keeps talking leaves the cache at last: it ends, fails  *)
(* or runs into its time limit (462-464, 541, 567).                        *)
JobsLeave == \A j \in Jobs : cache[j] # "absent" ~> cache[j] = "absent"

-----------------------------------------------------------------------------
(* A job is cached while its runner is there, and pending until it begins.  *)
CacheFollowsRunner ==
  \A j \in Jobs :
    /\ cache[j] = "absent" <=> runner[j] \in {"none", "gone"}
    /\ runner[j] \in {"inserting", "scheduled"} => cache[j] = "pending"

(* The outcome is in memory before it is written, and stays there; a job     *)
(* that a crash interrupted has no runner any more.                         *)
MemoryKnows ==
  \A j \in Jobs :
    /\ j \in orphans => runner[j] = "gone"
    /\ runner[j] \in {"completing", "summarizing", "syncing"} => cache[j] = "completed"
    /\ runner[j] \in {"failing", "failSync"} => cache[j] = "failed"
    /\ runner[j] = "evicting" => cache[j] \in {"completed", "failed"}

OutcomeKnown == {"summarizing", "syncing", "failSync", "evicting", "gone"}

(* What is in the row when no write was lost.                              *)
RowsFollowRunners ==
  \A j \in Jobs :
    /\ runner[j] = "none" => row[j] = "absent" /\ j \notin lost
    /\ runner[j] \notin {"none", "inserting"} /\ j \notin lost \cup orphans
         => row[j] # "absent"
    /\ runner[j] \in OutcomeKnown /\ j \notin lost \cup orphans => row[j] \in Final

(* A call that read the row read it with no runner there, and cancels what  *)
(* was running; one that found the job cached met it after runJob began.   *)
CancelsKnowTheirJob ==
  \A x \in Cancels :
    /\ cancel[x] # "idle" => target[x] \in Jobs
    /\ cancel[x] = "cachedWrite" =>
         runner[target[x]] \notin {"none", "inserting", "scheduled"}
    /\ cancel[x] \in {"rowRead", "rowWrite"} => runner[target[x]] = "gone"
    /\ cancel[x] = "rowWrite" => row[target[x]] \in {"running", "cancelled"}

IInv == TypeOK /\ CacheFollowsRunner /\ RowsFollowRunners /\ CancelsKnowTheirJob

=============================================================================

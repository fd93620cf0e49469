------------------------------ MODULE ModuleRun ------------------------------
(***************************************************************************)
(* The modules of one job between the prepared workspace and the export:   *)
(* the pipeline thread starts them one after the other, a runner leases    *)
(* batches of samples, has a worker process them, commits what comes back  *)
(* and settles every sample, while the API pauses, resumes, cancels and    *)
(* recovers the job and the backend may be killed at any moment.           *)
(*                                                                         *)
(* The runner is the loop of the classify module, which the other batch    *)
(* runners share.  Every module is enabled.  The database survives a       *)
(* crash, the thread does not; a statement or transaction of SQLite is one *)
(* step, and so are reads that no other writer can come between.           *)
(***************************************************************************)
EXTENDS JobStatus, Integers, FiniteSets

CONSTANTS
  NumModules,      \* the modules before the export
  NumSamples,      \* the samples in the processing scope
  BatchSize,       \* moduleBatchSize: samples leased by one claim
  InFlightLimit,   \* BatchSize times the resident pages of the module
  PageSize,        \* samples moved to the next module by one transaction
  RestartLimit,    \* worker exits a module survives (2 in the code)
  MaxExits,        \* worker exits of a module that a behaviour has
  MaxFaults        \* crashes and errors a behaviour has

ASSUME ModulesAssumption == NumModules \in Nat \ {0}
ASSUME SamplesAssumption == NumSamples \in Nat
ASSUME BatchAssumption ==
  BatchSize \in Nat \ {0} /\ InFlightLimit \in Nat /\ BatchSize <= InFlightLimit
ASSUME PageAssumption == PageSize \in Nat \ {0}
ASSUME LimitsAssumption == RestartLimit \in Nat /\ MaxExits \in Nat /\ MaxFaults \in Nat

Modules == 1 .. NumModules
Samples == 1 .. NumSamples

VARIABLES
  status, resume, current,     \* columns of the jobs row
  summary,                     \* module_summary.status, or "absent" without a row
  started,                     \* the modules whose summary has a started_at
  completed, failed, restarts, \* counters of the module summaries
  sample, at,                  \* sample_state: status and current_module_id
  written,                     \* the last module whose artifact the overlay holds
  pc, module,                  \* the pipeline thread and the module it is at
  seenActive,                  \* start_module read the row as running this module
  held, todo,                  \* leases of the runner, and those it still has to check
  returned,                    \* the status the runner returned with
  update,                      \* a set_job_status between its read and its write
  api,                         \* the cancel request being served
  faults                       \* faults so far

row == <<status, resume, current>>
ledger == <<summary, started, completed, failed, restarts>>
queue == <<sample, at, written>>
local == <<module, seenActive, held, todo, returned>>
vars == <<row, ledger, queue, pc, local, update, api, faults>>

SampleStatuses == {"pending", "leased", "prepared", "completed", "failed"}
SummaryStatuses == ModuleStatuses \cup {"absent"}

ThreadStages ==
  {"idle", "start", "summary", "reset", "activate", "launch", "poll", "claim", "drained",
   "check", "release", "exchange", "settle", "commit", "complete", "fatal", "set_failed",
   "exited", "return_leases", "returned", "next", "hand_over", "raise", "recover", "update"}

\* The stages of a runner at work.
Working ==
  {"launch", "poll", "claim", "drained", "check", "exchange", "settle", "commit", "complete"}

InFlight == {s \in Samples : sample[s] \in {"leased", "prepared"}}
Unsettled(m) == {s \in Samples : at[s] = m /\ sample[s] \in {"pending", "leased", "prepared"}}
Lowest(S, n) == {s \in S : Cardinality({t \in S : t <= s}) <= n}
First(S) == CHOOSE s \in S : \A t \in S : s <= t

Fault == faults < MaxFaults /\ faults' = faults + 1

\* A summary that was paused before its module ever ran.
Unstarted(m) ==
  /\ m \notin started
  /\ completed[m] = 0 /\ failed[m] = 0 /\ restarts[m] = 0

FinalModuleStatuses == {"completed", "completed_with_issues", "skipped", "skipped_not_available"}

InOrder(m) ==
  /\ \A k \in 1 .. m - 1 : summary[k] \in FinalModuleStatuses
  /\ \A k \in m + 1 .. NumModules : summary[k] \in {"absent", "paused"}

Active(m) == status = "running" /\ current = m
Yielding == status \in {"paused", "cancelling"}

\* The job has reached the export or the review of its issues: another component's.
HandedOver == status \in {"exporting", "reviewing"}

-----------------------------------------------------------------------------
(* set_job_status                                                          *)

NoUpdate == [to |-> "failed", at |-> 1, next |-> "idle"]

\* It reads the row and checks the transition ...
BeginUpdate(target, where, next, rejected) ==
  IF MaySetStatus(status, target)
  THEN pc' = "update" /\ update' = [to |-> target, at |-> where, next |-> next]
  ELSE pc' = rejected /\ UNCHANGED update

\* ... and overwrites the row in a statement of its own.
CompleteUpdate ==
  /\ pc = "update"
  /\ status' = update.to
  /\ current' = update.at
  /\ resume' = NoStatus
  /\ pc' = update.next
  /\ update' = NoUpdate
  /\ UNCHANGED <<ledger, queue, local, api, faults>>

-----------------------------------------------------------------------------
(* BoundedScheduler.start_module                                           *)

ReadJob ==
  /\ pc = "start"
  /\ pc' = IF status \in {"ready", "running", "paused", "reviewing", "exporting"}
           THEN "summary" ELSE "raise"
  /\ seenActive' = Active(module)
  /\ UNCHANGED <<row, ledger, queue, module, held, todo, returned, update, api, faults>>

\* A new summary, one that may run again, or the one this job was running.
ReadSummary ==
  /\ pc = "summary"
  /\ summary[module] # "paused"
  /\ pc' = CASE ~InOrder(module) -> "raise"
             [] InOrder(module) /\ summary[module] = "absent" -> "reset"
             [] InOrder(module) /\ summary[module] = "running" ->
                  IF seenActive THEN "launch" ELSE "raise"
             [] OTHER ->
                  IF "running" \in ModuleTransitions[summary[module]] THEN "reset" ELSE "raise"
  /\ summary' = [summary EXCEPT ![module] =
                   IF InOrder(module) /\ @ = "absent" THEN "pending" ELSE @]
  /\ UNCHANGED <<row, started, completed, failed, restarts, queue, local, update, api, faults>>

\* A module that was paused ahead of time becomes the paused module of the job.
StartPrepaused ==
  /\ pc = "summary"
  /\ summary[module] = "paused"
  /\ IF /\ InOrder(module)
        /\ "paused" \in JobTransitions[status]
        /\ Unstarted(module)
        /\ current # module
     THEN /\ status' = "paused" /\ resume' = "running" /\ current' = module
          /\ pc' = "idle"
     ELSE pc' = "raise" /\ UNCHANGED row
  /\ UNCHANGED <<ledger, queue, local, update, api, faults>>

\* Mutant of ResetPage: samples of the previous module are moved whatever their status.
ResetPageAnyStatus ==
  /\ pc = "reset"
  /\ LET page == Lowest({s \in Samples : at[s] # module}, PageSize)
     IN  /\ pc' = IF page = {} THEN "activate" ELSE "reset"
         /\ at' = [s \in Samples |-> IF s \in page THEN module ELSE at[s]]
         /\ sample' = [s \in Samples |-> IF s \in page THEN "pending" ELSE sample[s]]
  /\ UNCHANGED <<row, ledger, written, local, update, api, faults>>

\* Completed samples move into the module page by page; failed ones stay behind.
ResetPage ==
  /\ pc = "reset"
  /\ LET page == Lowest({s \in Samples : at[s] # module /\ sample[s] = "completed"}, PageSize)
     IN  /\ pc' = IF page = {} THEN "activate" ELSE "reset"
         /\ at' = [s \in Samples |-> IF s \in page THEN module ELSE at[s]]
         /\ sample' = [s \in Samples |-> IF s \in page THEN "pending" ELSE sample[s]]
  /\ UNCHANGED <<row, ledger, written, local, update, api, faults>>

\* The summary first, the job row second.
Activate ==
  /\ pc = "activate"
  /\ summary' = [summary EXCEPT ![module] = "running"]
  /\ started' = started \cup {module}
  /\ BeginUpdate("running", module, "launch", "raise")
  /\ UNCHANGED <<row, completed, failed, restarts, queue, local, api, faults>>

-----------------------------------------------------------------------------
(* ClassifyRunner.run                                                      *)

Launch ==
  /\ pc = "launch"
  /\ pc' = "poll"
  /\ UNCHANGED <<row, ledger, queue, local, update, api, faults>>

Poll ==
  /\ pc = "poll"
  /\ pc' = IF Yielding THEN "returned" ELSE IF Active(module) THEN "claim" ELSE "fatal"
  /\ returned' = IF Yielding THEN status ELSE returned
  /\ UNCHANGED <<row, ledger, queue, module, seenActive, held, todo, update, api, faults>>

\* claim_batch: nothing unless the job is still running; expired leases go back first.
Claim ==
  /\ pc = "claim"
  /\ \E expired \in SUBSET {s \in Samples : Active(module) /\ sample[s] = "leased"} :
       LET room == InFlightLimit - Cardinality(InFlight \ expired)
           free == {s \in Samples : at[s] = module /\ (sample[s] = "pending" \/ s \in expired)}
           batch == IF Active(module)
                    THEN Lowest(free, IF BatchSize < room THEN BatchSize ELSE room) ELSE {}
       IN  /\ sample' = [s \in Samples |->
                           IF s \in batch THEN "leased"
                           ELSE IF s \in expired THEN "pending" ELSE sample[s]]
           /\ held' = batch /\ todo' = batch
           /\ pc' = IF batch = {} THEN "drained" ELSE "check"
  /\ UNCHANGED <<row, ledger, at, written, module, seenActive, returned, update, api, faults>>

\* Mutant of FinalStatus: issues do not count.
FinalStatusIgnoresIssues(m) == "completed"

FinalStatus(m) == IF failed[m] > 0 THEN "completed_with_issues" ELSE "completed"

\* An empty claim ends the module, if the module has really drained.
FinishModule ==
  /\ pc = "drained"
  /\ LET finished == Unsettled(module) = {} /\ Active(module)
                       /\ FinalStatus(module) \in ModuleTransitions[summary[module]]
     IN  /\ pc' = CASE Unsettled(module) # {} -> "fatal"
                    [] Unsettled(module) = {} /\ Yielding -> "returned"
                    [] finished -> "next"
                    [] OTHER -> "raise"
         /\ summary' = [summary EXCEPT ![module] = IF finished THEN FinalStatus(module) ELSE @]
  /\ returned' = IF Yielding THEN status ELSE returned
  /\ UNCHANGED <<row, started, completed, failed, restarts, queue, module, seenActive, held,
                 todo, update, api, faults>>

\* fail_leased_sample_with_issue: the sample, its issue and the counter in one transaction.
FailSample(s) ==
  /\ sample' = [sample EXCEPT ![s] = "failed"]
  /\ failed' = [failed EXCEPT ![module] = @ + 1]
  /\ held' = held \ {s}
  /\ UNCHANGED <<completed, at, written>>

\* Mutant of CheckLease: a lease settled with an issue stays on the list.
CheckLeaseKept ==
  /\ pc = "check" /\ todo # {}
  /\ IF Yielding
     THEN /\ pc' = "release" /\ returned' = status
          /\ UNCHANGED <<queue, completed, failed, held, todo>>
     ELSE /\ UNCHANGED <<pc, returned>>
          /\ \/ todo' = todo \ {First(todo)} /\ UNCHANGED <<queue, completed, failed, held>>
             \/ FailSample(First(todo)) /\ UNCHANGED todo
  /\ UNCHANGED <<row, summary, started, restarts, module, seenActive, update, api, faults>>

\* The input of the next lease is read, or found to be invalid.
CheckLease ==
  /\ pc = "check" /\ todo # {}
  /\ IF Yielding
     THEN /\ pc' = "release" /\ returned' = status
          /\ UNCHANGED <<queue, completed, failed, held, todo>>
     ELSE /\ UNCHANGED <<pc, returned>>
          /\ todo' = todo \ {First(todo)}
          /\ \/ UNCHANGED <<queue, completed, failed, held>>
             \/ FailSample(First(todo))
  /\ UNCHANGED <<row, summary, started, restarts, module, seenActive, update, api, faults>>

SendBatch ==
  /\ pc = "check" /\ todo = {}
  /\ pc' = CASE held = {} -> "poll"
             [] held # {} /\ Yielding -> "release"
             [] held # {} /\ Active(module) -> "exchange"
             [] OTHER -> "fatal"
  /\ returned' = IF held # {} /\ Yielding THEN status ELSE returned
  /\ UNCHANGED <<row, ledger, queue, module, seenActive, held, todo, update, api, faults>>

ReturnToPending(S) == sample' = [s \in Samples |-> IF s \in S THEN "pending" ELSE sample[s]]

ReleaseUnstarted ==
  /\ pc = "release"
  /\ ReturnToPending(held)
  /\ held' = {} /\ todo' = {}
  /\ pc' = "returned"
  /\ UNCHANGED <<row, ledger, at, written, module, seenActive, returned, update, api, faults>>

Answer ==
  /\ pc = "exchange"
  /\ pc' = "settle"
  /\ UNCHANGED <<row, ledger, queue, local, update, api, faults>>

SettleIssue ==
  /\ pc = "settle" /\ held # {}
  /\ FailSample(First(held))
  /\ UNCHANGED <<row, summary, started, restarts, pc, module, seenActive, todo, returned,
                 update, api, faults>>

\* Mutant of StageArtifact: the artifact is staged and the commit into the overlay forgotten.
StageArtifactUncommitted ==
  /\ pc = "settle" /\ held # {}
  /\ sample' = [sample EXCEPT ![First(held)] = "prepared"]
  /\ pc' = "complete"
  /\ UNCHANGED <<row, ledger, at, written, local, update, api, faults>>

StageArtifact ==
  /\ pc = "settle" /\ held # {}
  /\ sample' = [sample EXCEPT ![First(held)] = "prepared"]
  /\ pc' = "commit"
  /\ UNCHANGED <<row, ledger, at, written, local, update, api, faults>>

CommitArtifact ==
  /\ pc = "commit"
  /\ written' = [written EXCEPT ![First(held)] = module]
  /\ pc' = "complete"
  /\ UNCHANGED <<row, ledger, sample, at, local, update, api, faults>>

\* complete_leased_sample_and_count
CompleteSample ==
  /\ pc = "complete"
  /\ sample' = [sample EXCEPT ![First(held)] = "completed"]
  /\ completed' = [completed EXCEPT ![module] = @ + 1]
  /\ held' = held \ {First(held)}
  /\ pc' = "settle"
  /\ UNCHANGED <<row, summary, started, failed, restarts, at, written, module, seenActive, todo,
                 returned, update, api, faults>>

BatchSettled ==
  /\ pc = "settle" /\ held = {}
  /\ pc' = "poll"
  /\ UNCHANGED <<row, ledger, queue, local, update, api, faults>>

\* A protocol violation or a failed write; what is not wrapped skips the runner's handler.
RunnerError ==
  /\ pc \in {"launch", "exchange", "settle", "commit", "complete"}
  /\ pc = "settle" => held # {}
  /\ Fault
  /\ pc' \in IF pc \in {"launch", "settle"} THEN {"fatal", "raise"} ELSE {"fatal"}
  /\ UNCHANGED <<row, ledger, queue, local, update, api>>

\* ClassifyRunnerFatalError: leases back, then the summary ...
FailModule ==
  /\ pc = "fatal"
  /\ ReturnToPending(held)
  /\ held' = {} /\ todo' = {}
  /\ summary' = [summary EXCEPT ![module] = "failed"]
  /\ pc' = "set_failed"
  /\ UNCHANGED <<row, started, completed, failed, restarts, at, written, module, seenActive,
                 returned, update, api, faults>>

\* ... and the job last.
FailJob ==
  /\ pc = "set_failed"
  /\ BeginUpdate("failed", module, "raise", "raise")
  /\ UNCHANGED <<row, ledger, queue, local, api, faults>>

-----------------------------------------------------------------------------
(* PipelineService._run and _run_module_with_restarts                      *)

\* The worker process dies, or cannot be launched.
WorkerExits ==
  /\ pc \in {"launch", "exchange"}
  /\ restarts[module] < MaxExits
  /\ pc' = "exited"
  /\ UNCHANGED <<row, ledger, queue, local, update, api, faults>>

\* Mutant of WorkerExited: exits are not counted.
WorkerExitedUncounted ==
  /\ pc = "exited"
  /\ pc' = IF summary[module] # "running" THEN "raise" ELSE "return_leases"
  /\ UNCHANGED <<row, ledger, queue, local, update, api, faults>>

\* One exit too many fails the module.
WorkerExited ==
  /\ pc = "exited"
  /\ IF summary[module] # "running"
     THEN pc' = "raise" /\ UNCHANGED <<summary, restarts>>
     ELSE /\ restarts' = [restarts EXCEPT ![module] = @ + 1]
          /\ IF restarts[module] < RestartLimit
             THEN pc' = "return_leases" /\ UNCHANGED summary
             ELSE pc' = "set_failed" /\ summary' = [summary EXCEPT ![module] = "failed"]
  /\ UNCHANGED <<row, started, completed, failed, queue, local, update, api, faults>>

\* Mutant of ReturnModuleLeases: the dead worker keeps its leases until they expire.
ReturnModuleLeasesSkipped ==
  /\ pc = "return_leases"
  /\ held' = {} /\ todo' = {}
  /\ pc' = "launch"
  /\ UNCHANGED <<row, ledger, queue, module, seenActive, returned, update, api, faults>>

ReturnModuleLeases ==
  /\ pc = "return_leases"
  /\ ReturnToPending({s \in Samples : at[s] = module /\ sample[s] = "leased"})
  /\ held' = {} /\ todo' = {}
  /\ pc' = "launch"
  /\ UNCHANGED <<row, ledger, at, written, module, seenActive, returned, update, api, faults>>

\* Mutant of SettleReturned: the thread leaves the settlement to the API.
SettleReturnedSkipped ==
  /\ pc = "returned"
  /\ pc' = "idle"
  /\ UNCHANGED <<row, ledger, queue, local, update, api, faults>>

\* A runner that yielded to a cancellation has it settled.
SettleReturned ==
  /\ pc = "returned"
  /\ IF returned = "cancelling" /\ InFlight = {}
     THEN /\ status' = IF status = "cancelling" THEN "cancelled_recoverable" ELSE status
          /\ pc' = IF status = "cancelling" THEN "idle" ELSE "raise"
     ELSE pc' = "idle" /\ UNCHANGED status
  /\ UNCHANGED <<resume, current, ledger, queue, local, update, api, faults>>

NextModule ==
  /\ pc = "next"
  /\ module' = IF module < NumModules THEN module + 1 ELSE module
  /\ pc' = IF module < NumModules THEN "start" ELSE "hand_over"
  /\ UNCHANGED <<row, ledger, queue, seenActive, held, todo, returned, update, api, faults>>

\* With unresolved issues the job is reviewed, otherwise its export module starts.
HandOver ==
  /\ pc = "hand_over"
  /\ BeginUpdate(IF \E m \in Modules : failed[m] > 0 THEN "reviewing" ELSE "exporting",
                 current, "idle", "raise")
  /\ UNCHANGED <<row, ledger, queue, local, api, faults>>

\* Any exception that escapes fails the job, unless it is settled already.
FailRun ==
  /\ pc = "raise"
  /\ held' = {} /\ todo' = {}
  /\ IF status \in {"cancelled_recoverable", "failed", "succeeded"}
     THEN pc' = "idle" /\ UNCHANGED update
     ELSE BeginUpdate("failed", current, "idle", "idle")
  /\ UNCHANGED <<row, ledger, queue, module, seenActive, returned, api, faults>>

Pipeline ==
  \/ CompleteUpdate
  \/ ReadJob \/ ReadSummary \/ StartPrepaused \/ ResetPage \/ Activate
  \/ Launch \/ Poll \/ Claim \/ FinishModule
  \/ CheckLease \/ SendBatch \/ ReleaseUnstarted \/ Answer
  \/ SettleIssue \/ StageArtifact \/ CommitArtifact \/ CompleteSample \/ BatchSettled
  \/ FailModule \/ FailJob
  \/ WorkerExited \/ ReturnModuleLeases
  \/ SettleReturned \/ NextModule \/ HandOver \/ FailRun

-----------------------------------------------------------------------------
(* API calls                                                               *)

ThreadAlive == pc \notin {"idle", "recover"}

\* pause_active_module, one transaction under the service lock.
Pause ==
  /\ ThreadAlive
  /\ status = "running" /\ summary[current] = "running"
  /\ status' = "paused" /\ resume' = "running"
  /\ summary' = [summary EXCEPT ![current] = "paused"]
  /\ started' = started \cup {current}
  /\ UNCHANGED <<current, completed, failed, restarts, queue, pc, local, update, api, faults>>

PauseFuture(m) ==
  /\ status = "running" /\ m > current
  /\ summary[m] = "absent" /\ \A s \in Samples : at[s] # m
  /\ summary' = [summary EXCEPT ![m] = "paused"]
  /\ UNCHANGED <<row, started, completed, failed, restarts, queue, pc, local, update, api, faults>>

CancelFuturePause(m) ==
  /\ status \in {"running", "paused"} /\ m > current
  /\ summary[m] = "paused" /\ Unstarted(m) /\ \A s \in Samples : at[s] # m
  /\ summary' = [summary EXCEPT ![m] = "absent"]
  /\ UNCHANGED <<row, started, completed, failed, restarts, queue, pc, local, update, api, faults>>

\* resume_paused_module or resume_prepaused_module, then a new thread.
Resume ==
  /\ pc = "idle"
  /\ status = "paused" /\ resume = "running" /\ summary[current] = "paused"
  /\ status' = "running" /\ resume' = NoStatus
  /\ summary' = [summary EXCEPT ![current] = IF Unstarted(current) THEN "pending" ELSE "running"]
  /\ pc' = "start" /\ module' = current
  /\ UNCHANGED <<current, started, completed, failed, restarts, queue, seenActive, held, todo,
                 returned, update, api, faults>>

BeginCancellation ==
  /\ api = "idle"
  /\ status \in Cancellable /\ ~HandedOver
  /\ status' = "cancelling"
  /\ resume' = ResumeAfterCancel(status, resume)
  /\ api' = "count"
  /\ UNCHANGED <<current, ledger, queue, pc, local, update, faults>>

\* Mutant of CountInFlight: the request settles whatever is still leased.
CountInFlightIgnored ==
  /\ api = "count"
  /\ api' = "settle"
  /\ UNCHANGED <<row, ledger, queue, pc, local, update, faults>>

CountInFlight ==
  /\ api = "count"
  /\ api' = IF InFlight = {} THEN "settle" ELSE "idle"
  /\ UNCHANGED <<row, ledger, queue, pc, local, update, faults>>

SettleCancellation ==
  /\ api = "settle"
  /\ api' = "idle"
  /\ status' = IF status = "cancelling" THEN "cancelled_recoverable" ELSE status
  /\ UNCHANGED <<resume, current, ledger, queue, pc, local, update, faults>>

\* recover_job holds the service lock: no thread exists, and none starts.
BeginRecovery ==
  /\ pc = "idle"
  /\ status \in {"interrupted", "cancelled_recoverable"} /\ resume = "running"
  /\ pc' = "recover"
  /\ UNCHANGED <<row, ledger, queue, local, update, api, faults>>

\* Mutant of RecoverSample: a recovered artifact completes its sample uncounted.
RecoverSampleUncounted ==
  /\ pc = "recover" /\ InFlight # {}
  /\ LET s == First(InFlight)
     IN  /\ sample' = [sample EXCEPT ![s] = IF @ = "prepared" THEN "completed" ELSE "pending"]
         /\ written' = [written EXCEPT ![s] = IF sample[s] = "prepared" THEN at[s] ELSE @]
  /\ UNCHANGED <<row, ledger, at, pc, local, update, api, faults>>

\* A plain lease goes back; a prepared artifact is committed and counted, unless it
\* is gone or altered, when the sample is processed again.
RecoverSample ==
  /\ pc = "recover" /\ InFlight # {}
  /\ LET s == First(InFlight)
     IN  \/ /\ sample[s] = "prepared"
            /\ sample' = [sample EXCEPT ![s] = "completed"]
            /\ written' = [written EXCEPT ![s] = at[s]]
            /\ completed' = [completed EXCEPT ![at[s]] = @ + 1]
            /\ UNCHANGED faults
         \/ /\ \/ sample[s] = "leased" /\ UNCHANGED faults
               \/ sample[s] = "prepared" /\ Fault
            /\ sample' = [sample EXCEPT ![s] = "pending"]
            /\ UNCHANGED <<written, completed>>
  /\ UNCHANGED <<row, summary, started, failed, restarts, at, pc, local, update, api>>

RestartJob ==
  /\ pc = "recover" /\ InFlight = {}
  /\ status' = "running" /\ resume' = NoStatus
  /\ pc' = "start" /\ module' = current
  /\ UNCHANGED <<current, ledger, queue, seenActive, held, todo, returned, update, api, faults>>

-----------------------------------------------------------------------------
(* The backend is killed, or stops while nothing runs, and starts again.   *)

Reboot ==
  /\ IF status \in NonInterruptible
     THEN UNCHANGED <<status, resume>>
     ELSE status' = "interrupted" /\ resume' = ResumeAfterInterrupt(status, resume)
  /\ pc' = "idle" /\ held' = {} /\ todo' = {} /\ update' = NoUpdate
  /\ api' = "idle"
  /\ UNCHANGED <<current, ledger, queue, module, seenActive, returned>>

Crash == ~HandedOver /\ Fault /\ Reboot

Stop == pc = "idle" /\ api = "idle" /\ ~HandedOver /\ Reboot /\ UNCHANGED faults

-----------------------------------------------------------------------------
(* The first module has been started over its pending samples.             *)
Init ==
  /\ status = "running" /\ resume = NoStatus /\ current = 1
  /\ summary = [m \in Modules |-> IF m = 1 THEN "running" ELSE "absent"]
  /\ started = {1}
  /\ completed = [m \in Modules |-> 0] /\ failed = [m \in Modules |-> 0]
  /\ restarts = [m \in Modules |-> 0]
  /\ sample = [s \in Samples |-> "pending"] /\ at = [s \in Samples |-> 1]
  /\ written = [s \in Samples |-> 0]
  /\ pc = "launch" /\ module = 1 /\ seenActive = FALSE
  /\ held = {} /\ todo = {} /\ returned = "paused" /\ update = NoUpdate
  /\ api = "idle" /\ faults = 0

User ==
  \/ Pause \/ Resume
  \/ \E m \in Modules : PauseFuture(m) \/ CancelFuturePause(m)
  \/ BeginCancellation \/ BeginRecovery

Serve == CountInFlight \/ SettleCancellation \/ RecoverSample \/ RestartJob

Next == Pipeline \/ RunnerError \/ WorkerExits \/ User \/ Serve \/ Crash \/ Stop

\* The thread runs on, and a request that is being served is served to its end.
Spec == Init /\ [][Next]_vars /\ WF_vars(Pipeline) /\ WF_vars(Serve)

-----------------------------------------------------------------------------
(* Properties                                                              *)

TypeOK ==
  /\ status \in JobStatuses /\ resume \in JobStatuses \cup {NoStatus} /\ current \in Modules
  /\ summary \in [Modules -> SummaryStatuses] /\ started \in SUBSET Modules
  /\ completed \in [Modules -> Nat] /\ failed \in [Modules -> Nat]
  /\ restarts \in [Modules -> 0 .. MaxExits]
  /\ sample \in [Samples -> SampleStatuses] /\ at \in [Samples -> Modules]
  /\ written \in [Samples -> 0 .. NumModules]
  /\ pc \in ThreadStages /\ module \in Modules /\ seenActive \in BOOLEAN
  /\ held \in SUBSET Samples /\ todo \in SUBSET held
  /\ returned \in {"paused", "cancelling"}
  /\ update \in [to : JobStatuses, at : Modules, next : ThreadStages]
  /\ api \in {"idle", "count", "settle"} /\ faults \in 0 .. MaxFaults

\* Samples that module m has finished, seen from their own rows.
DoneIn(m) == {s \in Samples : at[s] > m \/ (at[s] = m /\ sample[s] = "completed")}
FailedIn(m) == {s \in Samples : at[s] = m /\ sample[s] = "failed"}

\* The counters of a module summary agree with the samples: whatever is paused,
\* cancelled, killed or recovered, every sample is counted once and none twice.
CountsMatch ==
  \A m \in Modules :
    completed[m] = Cardinality(DoneIn(m)) /\ failed[m] = Cardinality(FailedIn(m))

\* A cancellation is only settled when nothing is in flight (settle_cancellation), and
\* nothing gets in flight afterwards.
SettledHasNoInFlight == status = "cancelled_recoverable" => InFlight = {}

\* A module summary that says so has really drained, and its status names the failures.
FinishedTruthful ==
  \A m \in Modules :
    summary[m] \in {"completed", "completed_with_issues"} =>
      /\ Unsettled(m) = {}
      /\ (summary[m] = "completed_with_issues") = (FailedIn(m) # {})

\* A sample completed in a module has its artifact in the overlay, and one that is not
\* has at most been written by the attempt before.
ArtifactBeforeCompletion ==
  \A s \in Samples :
    IF sample[s] = "completed" THEN written[s] = at[s] ELSE written[s] \in {at[s] - 1, at[s]}

\* While a runner works, the samples in flight are its own leases: whatever happened to
\* the workers, threads and processes before it, no lease is left to wait for its expiry.
LeasesAreHeld == pc \in Working => InFlight = held

\* A job that says `running` has a thread, so nobody waits for a job nobody works on.
RunningIsDriven == status = "running" => ThreadAlive

\* The samples go through the modules as SampleFlow promises.
Flow == INSTANCE SampleFlow WITH
  Stages <- NumModules,
  done <- [s \in Samples |-> IF sample[s] = "completed" THEN at[s] ELSE at[s] - 1],
  given <- {s \in Samples : sample[s] = "failed"}
FlowSpec == Flow!Spec

\* A pipeline thread comes to its end, which close and shutdown wait for.
ThreadEnds == pc # "idle" ~> pc = "idle"

\* A cancellation that finds its module running is settled, or the job fails, unless the
\* backend crashes; nobody has to ask twice.
CancellationDrains ==
  (status = "cancelling" /\ summary[current] = "running" /\ ThreadAlive)
    ~> (status # "cancelling" \/ faults > 0)
=============================================================================

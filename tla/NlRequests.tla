----------------------------- MODULE NlRequests -----------------------------
(***************************************************************************)
(* The NL module of a job: its runner sends batches of samples to a worker *)
(* that makes paid HTTP requests, stores and commits what comes back, and  *)
(* stops by itself when the attempt budget is used up, the credentials are *)
(* refused or too many requests fail.  A request whose answer never        *)
(* reached the core may have been charged; it waits for the user, who      *)
(* confirms that it may be sent again.                                     *)
(*                                                                         *)
(* The rest of the pipeline thread is in ModuleRun.  Here the module has   *)
(* been started; a resumed or recovered thread takes it up at once.        *)
(***************************************************************************)
EXTENDS JobStatus, Integers, FiniteSets, Sequences

CONSTANTS
  NumSamples,      \* the samples in the processing scope
  BatchSize,       \* moduleBatchSize.nl: samples of a claim, requests at a time
  PerItem,         \* mainAttempts, and backupAttempts when there is a backup model
  Budget,          \* maxHttpAttempts of the frozen policy
  MaxExtra,        \* what a behaviour adds to the budget (bound)
  StreakLimit,     \* consecutive failures that stop the module (10 in the code)
  WindowMin,       \* outcomes from which half of them failing stops it (20)
  WindowSize,      \* outcomes that are remembered (100)
  RestartLimit,    \* worker exits the module survives (2)
  MaxFaults        \* crashes, lost workers and errors of a behaviour (bound)

\* What MCModelRuns assumes of them.
NlAssumption ==
  /\ NumSamples \in Nat /\ BatchSize \in Nat \ {0} /\ PerItem \in Nat \ {0}
  /\ Budget \in Nat \ {0} /\ MaxExtra \in Nat
  /\ StreakLimit \in Nat \ {0} /\ WindowMin \in Nat \ {0} /\ WindowSize \in Nat \ {0}
  /\ RestartLimit \in Nat /\ MaxFaults \in Nat

Samples == 1 .. NumSamples

VARIABLES
  status, resume,          \* columns of the jobs row
  summary, restarts,       \* the module summary of nl
  sample,                  \* sample_state.status
  staged,                  \* the samples with a staged_nl row
  overlay,                 \* the samples whose working JSON holds its nl
  attempts, extra,         \* the counter nl_http_attempts, and api_budget_extra
  window, streak,          \* nl_outcome_window and nl_consecutive_failures
  pc, held, todo,          \* the thread, its leases, those it has still to look at
  batch, maximum,          \* request_items, and the budget as it was read
  outcomes, one, code,     \* the answers left, the one being settled, pause_code
  update, api,             \* a set_job_status half-way, and the request being served
  unknown,                 \* history: requests sent whose outcome the core has not seen
  faults

row == <<status, resume>>
ledger == <<summary, restarts>>
queue == <<sample, staged, overlay>>
counters == <<attempts, extra, window, streak>>
local == <<held, todo, batch, maximum, outcomes, one, code>>
vars == <<row, ledger, queue, counters, pc, local, update, api, unknown, faults>>

SampleStatuses ==
  {"pending", "leased", "request_started", "response_staged", "prepared", "completed", "failed"}

Stages ==
  {"launch", "poll", "check", "hello", "budget", "release", "mark", "exchange", "outcome",
   "settle", "prepare", "commit", "unstage", "complete", "record", "streak", "lost", "pause",
   "pause_unknown", "fatal", "set_failed", "exited", "yielded", "finished", "raise", "update", "idle",
   "recover"}

\* The stages at which an exception of the runner ends in its general handler.
Working ==
  {"poll", "check", "hello", "budget", "mark", "exchange", "outcome", "settle", "prepare",
   "commit", "unstage", "complete", "record", "streak"}

In(S) == {s \in Samples : sample[s] \in S}
InFlight == In({"leased", "prepared", "request_started", "response_staged"})
Unsettled == InFlight \cup In({"pending"})
Lowest(S, n) == {s \in S : Cardinality({t \in S : t <= s}) <= n}
First(S) == CHOOSE s \in S : \A t \in S : s <= t
AtMost(a, b) == IF a <= b THEN a ELSE b

\* A thread that is about to claim, or that has gone, has nothing in hand.
NothingInHand ==
  /\ held' = {} /\ todo' = {} /\ batch' = {} /\ maximum' = Budget
  /\ outcomes' = <<>> /\ one' = 1 /\ code' = "none"

Set(S, to) == sample' = [s \in Samples |-> IF s \in S THEN to ELSE sample[s]]

Fault == faults < MaxFaults /\ faults' = faults + 1

-----------------------------------------------------------------------------
(* set_job_status reads the row, checks the transition and then overwrites *)
(* the row in a statement of its own.                                      *)

NoUpdate == [to |-> "failed", resume |-> NoStatus, next |-> "idle"]

BeginUpdate(target, resumeStatus, next, rejected) ==
  IF MaySetStatus(status, target)
  THEN pc' = "update" /\ update' = [to |-> target, resume |-> resumeStatus, next |-> next]
  ELSE pc' = rejected /\ UNCHANGED update

CompleteUpdate ==
  /\ pc = "update"
  /\ status' = update.to /\ resume' = update.resume
  /\ pc' = update.next /\ update' = NoUpdate
  /\ UNCHANGED <<ledger, queue, counters, local, api, unknown, faults>>

-----------------------------------------------------------------------------
(* NlRunner.run                                                            *)

Launch ==
  /\ pc = "launch" /\ pc' = "poll"
  /\ NothingInHand
  /\ UNCHANGED <<row, ledger, queue, counters, update, api, unknown, faults>>

\* A paused or cancelled job stops before the next batch.
Yield ==
  /\ pc = "poll" /\ status \in {"paused", "cancelling"}
  /\ pc' = "yielded"
  /\ UNCHANGED <<row, ledger, queue, counters, local, update, api, unknown, faults>>

\* claim_batch: no more samples in flight than nl_queue_limit.
Claim ==
  /\ pc = "poll" /\ status = "running"
  /\ LET capacity == AtMost(2 * BatchSize, 32) - Cardinality(InFlight)
         claimed == IF capacity <= 0 THEN {}
                    ELSE Lowest(In({"pending"}), AtMost(BatchSize, capacity))
     IN  /\ claimed # {}
         /\ Set(claimed, "leased")
         /\ held' = claimed /\ todo' = claimed
  /\ pc' = "check"
  /\ UNCHANGED <<row, ledger, staged, overlay, counters, batch, maximum, outcomes, one, code,
                 update, api, unknown, faults>>

NothingToClaim ==
  In({"pending"}) = {} \/ Cardinality(InFlight) >= AtMost(2 * BatchSize, 32)

\* With nothing left the module is finished; what is left but cannot be claimed is fatal.
Drained ==
  /\ pc = "poll" /\ status = "running" /\ NothingToClaim
  /\ IF Unsettled = {}
     THEN summary' = "completed" /\ pc' = "finished"
     ELSE pc' = "fatal" /\ UNCHANGED summary
  /\ UNCHANGED <<row, restarts, queue, counters, local, update, api, unknown, faults>>

\* The job has failed or was interrupted under the runner.
NotActive ==
  /\ pc = "poll" /\ status \notin {"running", "paused", "cancelling"}
  /\ pc' = "fatal"
  /\ UNCHANGED <<row, ledger, queue, counters, local, update, api, unknown, faults>>

\* A sample that needs no request: its text is taken over, or it has an issue.
SettleLocally ==
  /\ pc = "check" /\ todo # {}
  /\ LET s == First(todo)
     IN  /\ \/ Set({s}, "completed") /\ overlay' = overlay \cup {s}
            \/ Set({s}, "failed") /\ UNCHANGED overlay
         /\ todo' = todo \ {s} /\ held' = held \ {s}
  /\ UNCHANGED <<row, ledger, staged, counters, pc, batch, maximum, outcomes, one, code, update,
                 api, unknown, faults>>

NeedsRequest ==
  /\ pc = "check" /\ todo # {}
  /\ LET s == First(todo) IN todo' = todo \ {s} /\ batch' = batch \cup {s}
  /\ UNCHANGED <<row, ledger, queue, counters, pc, held, maximum, outcomes, one, code, update,
                 api, unknown, faults>>

Checked ==
  /\ pc = "check" /\ todo = {}
  /\ pc' = IF batch = {} THEN "poll" ELSE "budget"
  /\ maximum' = IF batch = {} THEN maximum ELSE Budget + extra
  /\ UNCHANGED <<row, ledger, queue, counters, held, todo, batch, outcomes, one, code, update,
                 api, unknown, faults>>

\* Without budget left nothing is sent: the leases go back and the module pauses.
CheckBudget ==
  /\ pc = "budget"
  /\ todo' = batch
  /\ IF attempts >= maximum
     THEN pc' = "release"
     ELSE pc' = "mark"
  /\ UNCHANGED <<row, ledger, queue, counters, held, batch, maximum, outcomes, one, code, update,
                 api, unknown, faults>>

ReleaseUnstarted ==
  /\ pc = "release"
  /\ Set(batch, "pending")
  /\ NothingInHand
  /\ pc' = "pause"
  /\ UNCHANGED <<row, ledger, staged, overlay, counters, update, api, unknown, faults>>

\* mark_nl_request_started, a sample at a time, all before the first request.
MarkRequestStarted ==
  /\ pc = "mark" /\ todo # {}
  /\ LET s == First(todo) IN Set({s}, "request_started") /\ todo' = todo \ {s}
  /\ UNCHANGED <<row, ledger, staged, overlay, counters, pc, held, batch, maximum, outcomes, one,
                 code, update, api, unknown, faults>>

\* The frame is written: from here on requests may be made and charged.  A sample whose
\* mark the user has cleared by now counts as confirmed.
SendBatch ==
  /\ pc = "mark" /\ todo = {}
  /\ pc' = "exchange"
  /\ unknown' = unknown \cup {s \in batch : sample[s] = "request_started"}
  /\ UNCHANGED <<row, ledger, queue, counters, local, update, api, faults>>

\* Mutant of Allowance: every item may use all its attempts.
AllowanceUncapped == Cardinality(batch) * PerItem

Allowance == AtMost(maximum - attempts, Cardinality(batch) * PerItem)

Total(o) ==
  LET Upto[n \in 0 .. NumSamples] ==
        IF n = 0 THEN 0 ELSE Upto[n - 1] + (IF n \in DOMAIN o THEN o[n].n ELSE 0)
  IN  Upto[NumSamples]

\* What the worker answers for a batch: a text after at least one attempt, a refused
\* credential, a failure (before the first attempt when its image is unusable), or that
\* the shared allowance ran out.
Answers ==
  {o \in [batch -> [kind : {"nl", "auth", "failed", "exhausted"}, n : 0 .. PerItem]] :
     /\ Total(o) <= Allowance
     /\ \A s \in batch : o[s].kind \in {"nl", "auth"} => o[s].n > 0
     /\ (\E s \in batch : o[s].kind = "exhausted") => Total(o) = Allowance}

Answered ==
  /\ pc = "exchange"
  /\ outcomes' \in Answers
  /\ pc' = "outcome"
  /\ UNCHANGED <<row, ledger, queue, counters, held, todo, batch, maximum, one, code, update,
                 api, unknown, faults>>

\* Each outcome's attempts are counted before anything else is done with it.
CountAttempts ==
  /\ pc = "outcome" /\ DOMAIN outcomes # {}
  /\ one' = First(DOMAIN outcomes)
  /\ attempts' = attempts + outcomes[First(DOMAIN outcomes)].n
  /\ pc' = "settle"
  /\ UNCHANGED <<row, ledger, queue, extra, window, streak, held, todo, batch, maximum, outcomes,
                 code, update, api, unknown, faults>>

Rest == [s \in DOMAIN outcomes \ {one} |-> outcomes[s]]
Started == sample[one] = "request_started"

\* No attempt was made for it, so it may simply be sent later.
ReturnUnsubmitted ==
  /\ pc = "settle" /\ Started
  /\ outcomes[one].kind = "exhausted" /\ outcomes[one].n = 0
  /\ Set({one}, "pending")
  /\ held' = held \ {one} /\ outcomes' = Rest
  /\ code' = "budget" /\ pc' = "outcome" /\ unknown' = unknown \ {one}
  /\ UNCHANGED <<row, ledger, staged, overlay, counters, todo, batch, maximum, one, update, api,
                 faults>>

Unsubmitted == outcomes[one].kind = "exhausted" /\ outcomes[one].n = 0

RaiseIssue ==
  /\ pc = "settle" /\ Started
  /\ outcomes[one].kind # "nl" /\ ~Unsubmitted
  /\ Set({one}, "failed")
  /\ pc' = "record" /\ unknown' = unknown \ {one}
  /\ UNCHANGED <<row, ledger, staged, overlay, counters, local, update, api, faults>>

\* stage_nl_response: the answer is stored before anything is written to the overlay.
StageResponse ==
  /\ pc = "settle" /\ Started
  /\ outcomes[one].kind = "nl"
  /\ Set({one}, "response_staged")
  /\ staged' = staged \cup {one}
  /\ pc' = "prepare" /\ unknown' = unknown \ {one}
  /\ UNCHANGED <<row, ledger, overlay, counters, local, update, api, faults>>

\* The request is no longer the runner's: it was confirmed behind its back.
OutcomeRejected ==
  /\ pc = "settle" /\ ~Started
  /\ pc' = "fatal"
  /\ UNCHANGED <<row, ledger, queue, counters, local, update, api, unknown, faults>>

\* Mutant of StagePrepared: the staged row is deleted with the mark of the artifact, before
\* the overlay has the text.
StagePreparedUnstaging ==
  /\ pc = "prepare"
  /\ Set({one}, "prepared")
  /\ staged' = staged \ {one}
  /\ pc' = "commit"
  /\ UNCHANGED <<row, ledger, overlay, counters, local, update, api, unknown, faults>>

\* NlOverlayWriter.commit_staged: artifact, overlay file, and the staged row last.
StagePrepared ==
  /\ pc = "prepare"
  /\ Set({one}, "prepared")
  /\ pc' = "commit"
  /\ UNCHANGED <<row, ledger, staged, overlay, counters, local, update, api, unknown, faults>>

CommitPrepared ==
  /\ pc = "commit"
  /\ overlay' = overlay \cup {one}
  /\ pc' = "unstage"
  /\ UNCHANGED <<row, ledger, sample, staged, counters, local, update, api, unknown, faults>>

DeleteStaged ==
  /\ pc = "unstage"
  /\ staged' = staged \ {one}
  /\ pc' = "complete"
  /\ UNCHANGED <<row, ledger, sample, overlay, counters, local, update, api, unknown, faults>>

CompleteSample ==
  /\ pc = "complete"
  /\ Set({one}, "completed")
  /\ pc' = "record"
  /\ UNCHANGED <<row, ledger, staged, overlay, counters, local, update, api, unknown, faults>>

Failures(w) == Cardinality({i \in DOMAIN w : ~w[i]})

\* Refused credentials, a run of failures, or a window of which half failed.
Breaker(w, failures) ==
  \/ Failures(w) >= StreakLimit /\ failures >= StreakLimit - 1
  \/ Len(w) >= WindowMin /\ Failures(w) * 2 >= Len(w)

\* record_nl_outcome keeps the last WindowSize outcomes.
RecordOutcome ==
  /\ pc = "record"
  /\ LET success == outcomes[one].kind = "nl"
         all == Append(window, success)
         recent == IF Len(all) > WindowSize THEN Tail(all) ELSE all
     IN  /\ window' = recent
         /\ code' = CASE success -> code
                      [] ~success /\ outcomes[one].kind = "auth" -> "auth"
                      [] OTHER -> IF Breaker(recent, streak) THEN "breaker" ELSE code
  /\ pc' = "streak"
  /\ UNCHANGED <<row, ledger, queue, attempts, extra, streak, held, todo, batch, maximum,
                 outcomes, one, update, api, unknown, faults>>

CountStreak ==
  /\ pc = "streak"
  /\ streak' = IF outcomes[one].kind = "nl" THEN 0 ELSE streak + 1
  /\ held' = held \ {one} /\ outcomes' = Rest
  /\ pc' = "outcome"
  /\ UNCHANGED <<row, ledger, queue, attempts, extra, window, todo, batch, maximum, one, code,
                 update, api, unknown, faults>>

BatchSettled ==
  /\ pc = "outcome" /\ DOMAIN outcomes = {}
  /\ NothingInHand
  /\ pc' = IF code # "none" \/ attempts >= maximum THEN "pause" ELSE "poll"
  /\ UNCHANGED <<row, ledger, queue, counters, update, api, unknown, faults>>

\* NlRunner._pause.  When the job may not be paused, the error reaches the handler of
\* the runner, or ends the runner when it was raised in a handler.
PauseItself ==
  /\ pc \in {"pause", "pause_unknown"}
  /\ summary' = "paused"
  /\ BeginUpdate("paused", "running", "idle", IF pc = "pause" THEN "fatal" ELSE "raise")
  /\ UNCHANGED <<row, restarts, queue, counters, local, api, unknown, faults>>

-----------------------------------------------------------------------------
(* The worker dies, and exceptions                                         *)

WorkerLost ==
  /\ pc \in {"launch", "budget", "exchange"}
  /\ Fault
  /\ pc' = IF pc = "launch" THEN "exited" ELSE "lost"
  /\ UNCHANGED <<row, ledger, queue, counters, local, update, api, unknown>>

\* Plain leases go back; requests of unknown outcome pause the module instead.
HandleLost ==
  /\ pc = "lost"
  /\ Set({s \in held : sample[s] = "leased"}, "pending")
  /\ NothingInHand
  /\ pc' = IF In({"request_started"}) # {} THEN "pause_unknown" ELSE "exited"
  /\ UNCHANGED <<row, ledger, staged, overlay, counters, update, api, unknown, faults>>

\* _run_module_with_restarts
WorkerExited ==
  /\ pc = "exited"
  /\ IF summary # "running"
     THEN pc' = "raise" /\ UNCHANGED <<summary, restarts, sample>>
     ELSE /\ restarts' = restarts + 1
          /\ IF restarts < RestartLimit
             THEN pc' = "launch" /\ Set(In({"leased"}), "pending") /\ UNCHANGED summary
             ELSE pc' = "set_failed" /\ summary' = "failed" /\ UNCHANGED sample
  /\ UNCHANGED <<row, staged, overlay, counters, local, update, api, unknown, faults>>

RunnerError ==
  /\ pc \in Working
  /\ Fault
  /\ pc' = "fatal"
  /\ UNCHANGED <<row, ledger, queue, counters, local, update, api, unknown>>

FailModule ==
  /\ pc = "fatal"
  /\ Set({s \in held : sample[s] = "leased"}, "pending")
  /\ NothingInHand
  /\ summary' = "failed"
  /\ pc' = "set_failed"
  /\ UNCHANGED <<row, restarts, staged, overlay, counters, update, api, unknown, faults>>

FailJob ==
  /\ pc = "set_failed"
  /\ BeginUpdate("failed", NoStatus, "raise", "raise")
  /\ UNCHANGED <<row, ledger, queue, counters, local, api, unknown, faults>>

\* PipelineService._run
FailRun ==
  /\ pc = "raise"
  /\ IF status \in {"cancelled_recoverable", "failed", "succeeded"}
     THEN pc' = "idle" /\ UNCHANGED update
     ELSE BeginUpdate("failed", NoStatus, "idle", "idle")
  /\ UNCHANGED <<row, ledger, queue, counters, local, api, unknown, faults>>

SettleReturned ==
  /\ pc = "yielded"
  /\ pc' = "idle"
  /\ status' = IF status = "cancelling" /\ InFlight = {} THEN "cancelled_recoverable" ELSE status
  /\ UNCHANGED <<resume, ledger, queue, counters, local, update, api, unknown, faults>>

Pipeline ==
  \/ CompleteUpdate \/ Launch \/ Yield \/ Claim \/ Drained \/ NotActive
  \/ SettleLocally \/ NeedsRequest \/ Checked \/ CheckBudget \/ ReleaseUnstarted
  \/ MarkRequestStarted \/ SendBatch \/ Answered
  \/ CountAttempts \/ ReturnUnsubmitted \/ RaiseIssue \/ StageResponse \/ OutcomeRejected
  \/ StagePrepared \/ CommitPrepared \/ DeleteStaged \/ CompleteSample
  \/ RecordOutcome \/ CountStreak \/ BatchSettled \/ PauseItself
  \/ HandleLost \/ WorkerExited \/ FailModule \/ FailJob \/ FailRun \/ SettleReturned

-----------------------------------------------------------------------------
(* The API                                                                 *)

ThreadAlive == pc \notin {"idle", "recover", "finished"}

Pause ==
  /\ ThreadAlive /\ status = "running" /\ summary = "running"
  /\ status' = "paused" /\ resume' = "running" /\ summary' = "paused"
  /\ UNCHANGED <<restarts, queue, counters, pc, local, update, api, unknown, faults>>

Resume ==
  /\ pc = "idle"
  /\ status = "paused" /\ resume = "running" /\ summary = "paused"
  /\ status' = "running" /\ resume' = NoStatus /\ summary' = "running"
  /\ pc' = "launch"
  /\ UNCHANGED <<restarts, queue, counters, local, update, api, unknown, faults>>

AddBudget ==
  /\ extra < MaxExtra
  /\ extra' = extra + 1
  /\ UNCHANGED <<row, ledger, queue, attempts, window, streak, pc, local, update, api, unknown,
                 faults>>

\* confirm_nl_api_outcome_unknown looks at the job, and then pages through the rows.
BeginConfirmation ==
  /\ api = "idle"
  /\ status \in {"paused", "interrupted"}
  /\ api' = "confirm"
  /\ UNCHANGED <<row, ledger, queue, counters, pc, local, update, unknown, faults>>

ConfirmUnknown ==
  /\ api = "confirm"
  /\ Set(In({"request_started"}), "pending")
  /\ unknown' = unknown \ In({"request_started"})
  /\ api' = IF In({"request_started"}) = {} THEN "idle" ELSE "confirm"
  /\ UNCHANGED <<row, ledger, staged, overlay, counters, pc, local, update, faults>>

BeginCancellation ==
  /\ api = "idle"
  /\ status \in Cancellable /\ pc # "finished"
  /\ status' = "cancelling" /\ resume' = ResumeAfterCancel(status, resume)
  /\ api' = "cancel"
  /\ UNCHANGED <<ledger, queue, counters, pc, local, update, unknown, faults>>

\* The request settles the cancellation itself when nothing is in flight.
SettleCancellation ==
  /\ api = "cancel"
  /\ api' = "idle"
  /\ status' = IF status = "cancelling" /\ InFlight = {} THEN "cancelled_recoverable" ELSE status
  /\ UNCHANGED <<resume, ledger, queue, counters, pc, local, update, unknown, faults>>

BeginRecovery ==
  /\ pc = "idle"
  /\ status \in {"interrupted", "cancelled_recoverable"} /\ resume = "running"
  /\ pc' = "recover" /\ todo' = InFlight
  /\ UNCHANGED <<row, ledger, queue, counters, held, batch, maximum, outcomes, one, code, update,
                 api, unknown, faults>>

\* Mutant of RecoverSample: a request that had started is a lease like any other.
RecoverSampleResending ==
  /\ pc = "recover" /\ todo # {}
  /\ LET s == First(todo)
     IN  /\ todo' = todo \ {s}
         /\ CASE sample[s] \in {"leased", "request_started"} ->
                   Set({s}, "pending") /\ UNCHANGED <<staged, overlay, faults>>
              [] sample[s] \in {"prepared", "response_staged"} ->
                   /\ Set({s}, "completed") /\ overlay' = overlay \cup {s}
                   /\ UNCHANGED <<staged, faults>>
              [] OTHER -> UNCHANGED <<sample, staged, overlay, faults>>
  /\ UNCHANGED <<row, ledger, counters, pc, held, batch, maximum, outcomes, one, code, update,
                 api, unknown>>

\* A lease goes back, a prepared artifact is committed (or its sample repeated, when the
\* file is gone), a staged answer is committed, a started request is left as it is.
RecoverSample ==
  /\ pc = "recover" /\ todo # {}
  /\ LET s == First(todo)
     IN  /\ todo' = todo \ {s}
         /\ \/ /\ sample[s] = "leased"
               /\ Set({s}, "pending") /\ UNCHANGED <<staged, overlay, faults>>
            \/ /\ sample[s] \in {"prepared", "response_staged"}
               /\ Set({s}, "completed") /\ overlay' = overlay \cup {s}
               /\ staged' = IF sample[s] = "response_staged" THEN staged \ {s} ELSE staged
               /\ UNCHANGED faults
            \/ /\ sample[s] = "prepared" /\ s \notin overlay /\ Fault
               /\ Set({s}, "pending") /\ UNCHANGED <<staged, overlay>>
            \/ /\ sample[s] \notin {"leased", "prepared", "response_staged"}
               /\ UNCHANGED <<sample, staged, overlay, faults>>
  /\ UNCHANGED <<row, ledger, counters, pc, held, batch, maximum, outcomes, one, code, update,
                 api, unknown>>

\* Nothing is started while a request waits for the user.
Recovered ==
  /\ pc = "recover" /\ todo = {}
  /\ IF In({"request_started"}) # {}
     THEN pc' = "idle" /\ status' = "interrupted" /\ UNCHANGED resume
     ELSE pc' = "launch" /\ status' = "running" /\ resume' = NoStatus
  /\ UNCHANGED <<ledger, queue, counters, local, update, api, unknown, faults>>

\* The backend is killed and starts again.
Crash ==
  /\ pc # "finished" /\ Fault
  /\ IF status \in NonInterruptible
     THEN UNCHANGED <<status, resume>>
     ELSE status' = "interrupted" /\ resume' = ResumeAfterInterrupt(status, resume)
  /\ pc' = "idle" /\ NothingInHand /\ update' = NoUpdate /\ api' = "idle"
  /\ UNCHANGED <<ledger, queue, counters, unknown>>

-----------------------------------------------------------------------------
Init ==
  /\ status = "running" /\ resume = NoStatus
  /\ summary = "running" /\ restarts = 0
  /\ sample = [s \in Samples |-> "pending"] /\ staged = {} /\ overlay = {}
  /\ attempts = 0 /\ extra = 0 /\ window = <<>> /\ streak = 0
  /\ pc = "launch" /\ held = {} /\ todo = {} /\ batch = {} /\ maximum = Budget
  /\ outcomes = <<>> /\ one = 1 /\ code = "none"
  /\ update = NoUpdate /\ api = "idle" /\ unknown = {} /\ faults = 0

User ==
  Pause \/ Resume \/ AddBudget \/ BeginConfirmation \/ BeginCancellation \/ BeginRecovery

Serve == ConfirmUnknown \/ SettleCancellation \/ RecoverSample \/ Recovered

Next == Pipeline \/ User \/ Serve \/ WorkerLost \/ RunnerError \/ Crash

Spec == Init /\ [][Next]_vars /\ WF_vars(Pipeline) /\ WF_vars(Serve)

-----------------------------------------------------------------------------
(* Properties                                                              *)

\* A request whose outcome the core has not seen keeps its mark, whatever dies, fails, is
\* paused, cancelled or recovered, until the user confirms it: mark_nl_request_started,
\* pending_api_decisions, recover.  So no batch ever holds it again before.
UnknownKept == \A s \in unknown : sample[s] = "request_started"

\* The attempts that were counted stay within the budget, extended or not, although the
\* budget is read once and a batch has many requests (httpAttemptAllowance).
BudgetKept == attempts <= Budget + extra

\* An answer that was paid for is kept through crashes, exits, errors and recoveries: its row
\* leaves staged_nl only when the overlay has the text, its sample is not given back
\* while the answer waits to be written, an artifact is under way only for a text that is in one of the
\* two, and a sample completes only with its text in the overlay (commit_staged, recover).
\* A sample whose prepared file is gone is asked for again, but its staged row stays.
AnswersKept ==
  [][/\ staged \ staged' \subseteq overlay'
     /\ overlay \subseteq overlay'
     /\ \A s \in Samples :
          /\ sample[s] = "response_staged" =>
               sample'[s] \in {"response_staged", "prepared", "completed"}
          /\ sample'[s] \in {"response_staged", "prepared"} => s \in staged' \cup overlay'
          /\ sample'[s] = "completed" => s \in overlay']_vars
=============================================================================

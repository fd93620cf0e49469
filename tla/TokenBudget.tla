----------------------------- MODULE TokenBudget -----------------------------
(***************************************************************************)
(* The token budget of a job.  The module counts every annotation; one     *)
(* that does not fit stays failed under an issue until the user shortens   *)
(* it: a recount saves a proposal, an apply makes it the annotation, a     *)
(* rewrite asks a paid model for one.  The export starts behind a gate     *)
(* that compares every annotation with the record of its count.            *)
(*                                                                         *)
(* The runner's thread, the requests of the review and the recovery they   *)
(* all begin with interleave.  A text is a number: 0 stands before any     *)
(* count, 1 is what the module wrote, v > 1 the proposal of version v; the *)
(* lease an artifact is named after has the number of its text.            *)
(* One module of ModuleRun; pauses and worker restarts are there.          *)
(***************************************************************************)
EXTENDS JobStatus, Integers, FiniteSets

CONSTANTS
  NumSamples,   \* the samples in the processing scope
  Requests,     \* requests the review serves at a time
  MaxVersion,   \* the last version of a proposal (bound)
  MaxArrivals,  \* requests of a behaviour (bound)
  Attempts,     \* what is left of maxHttpAttempts
  PerSample,    \* mainAttempts, and backupAttempts with a backup model
  MaxFaults     \* crashes, lost workers and runner errors of a behaviour (bound)

ASSUME TokenBudgetAssumption ==
  /\ NumSamples \in Nat /\ MaxVersion \in Nat /\ MaxArrivals \in Nat /\ MaxFaults \in Nat
  /\ Attempts \in Nat /\ PerSample \in Nat \ {0}

Samples == 1 .. NumSamples
None == -1

VARIABLES
  status, resume, module,   \* columns of the jobs row
  st, lease,                \* sample_state, once token_budget has it
  issues,                   \* unresolved blocking issues: overflow, worker, gate
  text, record, files,      \* the annotation, records/<sample>.json, prepared/<lease>.json
  proposal,                 \* proposals/<sample>.json
  operation,                \* rewrites/<operation>.json by sample and version
  used, reserved,           \* nl_http_attempts, and the reservations of the review
  pc, todo, gateFailed,     \* the pipeline thread, a resume or a recovery at work
  req, arrivals,            \* the requests being served, and how many there were
  fitting, sent,            \* history: texts counted within the budget; attempts made
  faults

row == <<status, resume, module>>
queue == <<st, lease, issues>>
overlay == <<text, record, files, proposal, operation>>
money == <<used, reserved, sent>>
service == <<pc, todo, gateFailed>>
vars == <<row, queue, overlay, money, service, req, arrivals, fitting, faults>>

Fault == faults < MaxFaults /\ faults' = faults + 1
First(S) == CHOOSE s \in S : \A t \in S : s <= t
AtMost(a, b) == IF a <= b THEN a ELSE b

InState(S) == {s \in Samples : st[s] \in S}
InFlight == InState({"leased", "prepared"})
Reviewed(s) == lease[s] > 1
Unresolved == {s \in Samples : issues[s] # {}}
Reviewing == status = "reviewing" /\ module = "token_budget"

Sample(s, state, holder) ==
  st' = [st EXCEPT ![s] = state] /\ lease' = [lease EXCEPT ![s] = holder]

-----------------------------------------------------------------------------
(* TokenBudgetRunner.run                                                   *)

Claim ==
  /\ pc = "run" /\ status = "running" /\ InState({"pending"}) # {}
  /\ st' = [s \in Samples |-> IF st[s] = "pending" THEN "leased" ELSE st[s]]
  /\ lease' = [s \in Samples |-> IF st[s] = "pending" THEN 1 ELSE lease[s]]
  /\ todo' = InState({"pending"}) /\ pc' = "exchange"
  /\ UNCHANGED <<row, issues, overlay, money, gateFailed, req, arrivals, fitting, faults>>

\* The job was cancelled: what is leased goes back, and the thread settles.
Yield ==
  /\ pc \in {"run", "exchange"} /\ status = "cancelling"
  /\ st' = [s \in Samples |-> IF s \in todo /\ st[s] = "leased" THEN "pending" ELSE st[s]]
  /\ lease' = [s \in Samples |-> IF s \in todo /\ st[s] = "leased" THEN 0 ELSE lease[s]]
  /\ status' = IF \A s \in Samples : st'[s] \notin {"leased", "prepared"}
               THEN "cancelled_recoverable" ELSE status
  /\ pc' = "idle" /\ todo' = {}
  /\ UNCHANGED <<resume, module, issues, overlay, money, gateFailed, req, arrivals, fitting, faults>>

Finish ==
  /\ pc = "run" /\ status = "running" /\ InState({"pending"}) = {}
  /\ pc' = "check"
  /\ UNCHANGED <<row, queue, overlay, money, todo, gateFailed, req, arrivals, fitting, faults>>

\* The whole batch is validated before anything is written.
Exchange ==
  /\ pc = "exchange" /\ status # "cancelling"
  /\ pc' = "settle"
  /\ UNCHANGED <<row, queue, overlay, money, todo, gateFailed, req, arrivals, fitting, faults>>

SettleFailure ==
  /\ pc = "settle" /\ todo # {}
  /\ LET s == First(todo)
     IN  /\ Sample(s, "failed", 0)
         /\ \E code \in {"overflow", "worker"} : issues' = [issues EXCEPT ![s] = @ \cup {code}]
         /\ todo' = todo \ {s}
  /\ UNCHANGED <<row, overlay, money, pc, gateFailed, req, arrivals, fitting, faults>>

\* The record is written before the sample is prepared, so that recovery can prove it.
WriteRecord ==
  /\ pc = "settle" /\ todo # {}
  /\ LET s == First(todo)
     IN  /\ files' = [files EXCEPT ![s] = @ \cup {1}]
         /\ record' = [record EXCEPT ![s] = 1]
         /\ fitting' = [fitting EXCEPT ![s] = @ \cup {1}]
  /\ pc' = "stage"
  /\ UNCHANGED <<row, queue, text, proposal, operation, money, todo,
                 gateFailed, req, arrivals, faults>>

StagePrepared ==
  /\ pc = "stage"
  /\ Sample(First(todo), "prepared", 1)
  /\ pc' = "commit"
  /\ UNCHANGED <<row, issues, overlay, money, todo, gateFailed, req, arrivals, fitting, faults>>

CommitPrepared ==
  /\ pc = "commit"
  /\ LET s == First(todo)
     IN text' = [text EXCEPT ![s] = 1] /\ files' = [files EXCEPT ![s] = @ \ {1}]
  /\ pc' = "complete"
  /\ UNCHANGED <<row, queue, record, proposal, operation, money, todo, gateFailed,
                 req, arrivals, fitting, faults>>

Complete ==
  /\ pc = "complete"
  /\ Sample(First(todo), "completed", 0)
  /\ todo' = todo \ {First(todo)} /\ pc' = "settle"
  /\ UNCHANGED <<row, issues, overlay, money, gateFailed, req, arrivals, fitting, faults>>

BatchSettled ==
  /\ pc = "settle" /\ todo = {}
  /\ pc' = "run"
  /\ UNCHANGED <<row, queue, overlay, money, todo, gateFailed, req, arrivals, fitting, faults>>

\* The handler returns the leases and gives the module and the job up.
RunnerError ==
  /\ pc \in {"run", "exchange", "settle", "stage", "commit", "complete"} /\ Fault
  /\ st' = [s \in Samples |-> IF s \in todo /\ st[s] = "leased" THEN "pending" ELSE st[s]]
  /\ lease' = [s \in Samples |-> IF s \in todo /\ st[s] = "leased" THEN 0 ELSE lease[s]]
  /\ status' = "failed" /\ resume' = NoStatus
  /\ pc' = "idle" /\ todo' = {}
  /\ UNCHANGED <<module, issues, overlay, money, gateFailed, req, arrivals, fitting>>

-----------------------------------------------------------------------------
(* The gate before the export: _run for the thread, resume for the review. *)

\* Export never bypasses unresolved issues.
CheckIssues ==
  /\ pc = "check"
  /\ IF Unresolved # {}
     THEN IF MaySetStatus(status, "reviewing")
          THEN status' = "reviewing" /\ resume' = NoStatus /\ pc' = "idle" /\ UNCHANGED todo
          ELSE pc' = "idle" /\ UNCHANGED <<status, resume, todo>>
     ELSE pc' = "gate" /\ todo' = Samples /\ UNCHANGED <<status, resume>>
  /\ gateFailed' = FALSE
  /\ UNCHANGED <<module, queue, overlay, money, req, arrivals, fitting, faults>>

\* A review that has nothing open any more asks the gate before it takes the write lock.
Resume ==
  /\ pc = "idle" /\ Reviewing /\ Unresolved = {}
  /\ pc' = "review_gate" /\ todo' = Samples /\ gateFailed' = FALSE
  /\ UNCHANGED <<row, queue, overlay, money, req, arrivals, fitting, faults>>

\* Mutant of VerifyRecord: any record will do.
VerifyRecordAny ==
  /\ pc \in {"gate", "review_gate"} /\ todo # {}
  /\ todo' = todo \ {First(todo)}
  /\ UNCHANGED <<row, queue, overlay, money, pc, gateFailed, req, arrivals, fitting, faults>>

\* record_for_export: the record is of the text that stands.
VerifyRecord ==
  /\ pc \in {"gate", "review_gate"} /\ todo # {}
  /\ LET s == First(todo)
         sound == record[s] # None /\ record[s] = text[s]
     IN  /\ issues' = IF sound THEN issues ELSE [issues EXCEPT ![s] = @ \cup {"gate"}]
         /\ gateFailed' = (gateFailed \/ ~sound)
         /\ todo' = todo \ {s}
  /\ UNCHANGED <<row, st, lease, overlay, money, pc, req, arrivals, fitting, faults>>

GateRefuses ==
  /\ pc \in {"gate", "review_gate"} /\ todo = {} /\ gateFailed
  /\ IF <<status, module>> \in {<<"running", "token_budget">>, <<"exporting", "export">>}
     THEN status' = "reviewing" /\ resume' = NoStatus /\ module' = "token_budget"
     ELSE UNCHANGED row
  /\ pc' = "idle"
  /\ UNCHANGED <<queue, overlay, money, todo, gateFailed, req, arrivals, fitting, faults>>

\* The review's turn to the export, unless it was cancelled meanwhile; _run asks again.
BeginExport ==
  /\ pc = "review_gate" /\ todo = {} /\ ~gateFailed
  /\ IF Reviewing
     THEN status' = "exporting" /\ resume' = NoStatus /\ module' = "export" /\ pc' = "check"
     ELSE pc' = "idle" /\ UNCHANGED row
  /\ UNCHANGED <<queue, overlay, money, todo, gateFailed, req, arrivals, fitting, faults>>

\* start_module: the export takes the samples over, if the job is still going.
StartExport ==
  /\ pc = "gate" /\ todo = {} /\ ~gateFailed
  /\ IF status \in {"running", "exporting"}
     THEN status' = "exporting" /\ module' = "export" /\ pc' = "exported"
     ELSE pc' = "idle" /\ UNCHANGED <<status, module>>
  /\ UNCHANGED <<resume, queue, overlay, money, todo, gateFailed, req, arrivals, fitting, faults>>

Thread ==
  \/ Claim \/ Yield \/ Finish \/ Exchange \/ SettleFailure \/ WriteRecord \/ StagePrepared
  \/ CommitPrepared \/ Complete \/ BatchSettled \/ CheckIssues \/ VerifyRecord \/ GateRefuses
  \/ BeginExport \/ StartExport

-----------------------------------------------------------------------------
(* TokenBudgetReviewService._job_and_layout: every request first recovers  *)
(* what an earlier apply left, or what a concurrent one is still doing.    *)

NoRequest ==
  [op |-> "none", stage |-> "idle", s |-> 1, v |-> 1, base |-> 0, rows |-> {},
   allowance |-> 0, charge |-> 0, paid |-> FALSE]

At(q, stage) == req[q].stage = stage
Goto(q, stage) == req' = [req EXCEPT ![q].stage = stage]
Done(q) == req' = [req EXCEPT ![q] = NoRequest]

RowsIn(state) == {<<s, lease[s]>> : s \in {t \in Samples : st[t] = state /\ Reviewed(t)}}
OneRow(q) == CHOOSE r \in req[q].rows : \A t \in req[q].rows : r[1] <= t[1]
NextRow(q, stage) ==
  req' = [req EXCEPT ![q].stage = stage, ![q].rows = @ \ {OneRow(q)}]

\* The version is the one the user's page showed.
Arrive(q, op, s) ==
  /\ At(q, "idle") /\ Reviewing
  /\ arrivals < MaxArrivals /\ arrivals' = arrivals + 1
  /\ "overflow" \in issues[s]
  /\ req' = [req EXCEPT ![q] =
       [NoRequest EXCEPT !.op = op, !.stage = "sweep", !.s = s, !.v = proposal[s].version,
                         !.rows = RowsIn("leased")]]
  /\ UNCHANGED <<row, queue, overlay, money, service, fitting, faults>>

\* _reset_prepared_apply_to_failed: by the lease id, whatever became of it since.
Reset(r) ==
  IF st[r[1]] \in {"leased", "prepared"} /\ lease[r[1]] = r[2]
  THEN Sample(r[1], "failed", 0) ELSE UNCHANGED <<st, lease>>

SweepLease(q) ==
  /\ At(q, "sweep") /\ req[q].rows # {}
  /\ Reset(OneRow(q)) /\ NextRow(q, "sweep")
  /\ UNCHANGED <<row, issues, overlay, money, service, arrivals, fitting, faults>>

LeasesSwept(q) ==
  /\ At(q, "sweep") /\ req[q].rows = {}
  /\ req' = [req EXCEPT ![q].stage = "prepared", ![q].rows = RowsIn("prepared")]
  /\ UNCHANGED <<row, queue, overlay, money, service, arrivals, fitting, faults>>

\* recover_prepared: the artifact is in its place, or is put there.
Recoverable(s, v) ==
  st[s] = "prepared" /\ lease[s] = v /\ (text[s] = v \/ v \in files[s])

Reinstate(s, v) ==
  text' = [text EXCEPT ![s] = v] /\ files' = [files EXCEPT ![s] = @ \ {v}]

RecoverApply(q) ==
  /\ At(q, "prepared") /\ req[q].rows # {}
  /\ LET r == OneRow(q)
     IN  IF Recoverable(r[1], r[2])
         THEN Reinstate(r[1], r[2]) /\ Goto(q, "verify")
         ELSE Goto(q, "reset") /\ UNCHANGED <<text, files>>
  /\ UNCHANGED <<row, queue, record, proposal, operation, money, service, arrivals, fitting, faults>>

ResetApply(q) ==
  /\ At(q, "reset")
  /\ Reset(OneRow(q)) /\ NextRow(q, "prepared")
  /\ UNCHANGED <<row, issues, overlay, money, service, arrivals, fitting, faults>>

\* _finalize_prepared_apply: the record is of this lease and of the text that stands.
VerifyApply(q) ==
  /\ At(q, "verify")
  /\ LET r == OneRow(q)
     IN  IF record[r[1]] = text[r[1]] /\ record[r[1]] = r[2]
         THEN Goto(q, "conclude") ELSE Goto(q, "reset")
  /\ UNCHANGED <<row, queue, overlay, money, service, arrivals, fitting, faults>>

Concluded(s, v) == "overflow" \in issues[s] /\ st[s] = "prepared" /\ lease[s] = v

Conclude(s) ==
  Sample(s, "export", 0) /\ issues' = [issues EXCEPT ![s] = @ \ {"overflow"}]

ConcludeApply(q) ==
  /\ At(q, "conclude")
  /\ LET r == OneRow(q)
     IN  IF Concluded(r[1], r[2])
         THEN Conclude(r[1]) /\ NextRow(q, "prepared")
         ELSE Goto(q, "reset") /\ UNCHANGED queue
  /\ UNCHANGED <<row, overlay, money, service, arrivals, fitting, faults>>

FirstStage(q) ==
  CASE req[q].op = "recount" -> "read"
    [] req[q].op = "apply" -> "lease"
    [] req[q].op = "rewrite" -> (IF req[q].paid THEN "read" ELSE "operation")
    [] OTHER -> "answer"

\* What a rewrite leaves behind when the recount after its paid request is refused.
Refuse(q, outcome) ==
  /\ Done(q)
  /\ operation' = IF req[q].paid THEN [operation EXCEPT ![req[q].s][req[q].v] = outcome]
                  ELSE operation

Recovered(q) ==
  /\ At(q, "prepared") /\ req[q].rows = {}
  /\ IF Reviewing
     THEN Goto(q, FirstStage(q)) /\ UNCHANGED operation
     ELSE Refuse(q, "outcome_unknown")
  /\ UNCHANGED <<row, queue, text, record, files, proposal, money,
                 service, arrivals, fitting, faults>>

\* page has nothing more to change.
AnswerPage(q) ==
  /\ At(q, "answer") /\ Done(q)
  /\ UNCHANGED <<row, queue, overlay, money, service, arrivals, fitting, faults>>

-----------------------------------------------------------------------------
(* recount                                                                 *)

\* A rewrite names the text its request was made from; a recount takes what stands.
ReadForRecount(q) ==
  /\ At(q, "read")
  /\ LET s == req[q].s
     IN  IF /\ proposal[s].version = req[q].v /\ "overflow" \in issues[s]
            /\ req[q].paid => text[s] = req[q].base
         THEN /\ req' = [req EXCEPT ![q].stage = "save", ![q].base = text[s]]
              /\ UNCHANGED operation
         ELSE Refuse(q, "conflict")
  /\ UNCHANGED <<row, queue, text, record, files, proposal, money,
                 service, arrivals, fitting, faults>>

\* The counter has answered; the transaction looks at everything again.
SaveProposal(q) ==
  /\ At(q, "save")
  /\ LET s == req[q].s
         v == req[q].v
     IN  IF /\ proposal[s].version = v /\ v < MaxVersion
            /\ "overflow" \in issues[s] /\ text[s] = req[q].base
         THEN \E fits \in BOOLEAN :
                /\ proposal' = [proposal EXCEPT ![s] =
                                  [version |-> v + 1, fits |-> fits, base |-> req[q].base]]
                /\ fitting' = IF fits THEN [fitting EXCEPT ![s] = @ \cup {v + 1}] ELSE fitting
                /\ Refuse(q, "completed")
         ELSE Refuse(q, "conflict") /\ UNCHANGED <<proposal, arrivals, fitting>>
  /\ UNCHANGED <<row, queue, text, record, files, money, service, arrivals, faults>>

-----------------------------------------------------------------------------
(* apply                                                                   *)

\* Mutant of LeaseApply: a sample may be in any state.
LeaseApplyAnyState(q) ==
  /\ At(q, "lease")
  /\ LET s == req[q].s
     IN  IF /\ proposal[s].version = req[q].v /\ proposal[s].fits
            /\ proposal[s].base = text[s]
         THEN Sample(s, "leased", req[q].v) /\ Goto(q, "file")
         ELSE Done(q) /\ UNCHANGED <<st, lease>>
  /\ UNCHANGED <<row, issues, overlay, money, service, arrivals, fitting, faults>>

\* What was read and counted before the transaction is what it compares again.
LeaseApply(q) ==
  /\ At(q, "lease")
  /\ LET s == req[q].s
     IN  IF /\ proposal[s].version = req[q].v /\ proposal[s].fits
            /\ proposal[s].base = text[s]
            /\ "overflow" \in issues[s] /\ st[s] = "failed"
         THEN Sample(s, "leased", req[q].v) /\ Goto(q, "file")
         ELSE Done(q) /\ UNCHANGED <<st, lease>>
  /\ UNCHANGED <<row, issues, overlay, money, service, arrivals, fitting, faults>>

WriteArtifact(q) ==
  /\ At(q, "file")
  /\ files' = [files EXCEPT ![req[q].s] = @ \cup {req[q].v}]
  /\ Goto(q, "record")
  /\ UNCHANGED <<row, queue, text, record, proposal, operation, money,
                 service, arrivals, fitting, faults>>

WriteApplyRecord(q) ==
  /\ At(q, "record")
  /\ record' = [record EXCEPT ![req[q].s] = req[q].v]
  /\ Goto(q, "stage")
  /\ UNCHANGED <<row, queue, text, files, proposal, operation, money,
                 service, arrivals, fitting, faults>>

\* stage_prepared_artifact refuses when the lease was swept away meanwhile.
StageApply(q) ==
  /\ At(q, "stage")
  /\ LET s == req[q].s
     IN  IF st[s] = "leased" /\ lease[s] = req[q].v
         THEN Sample(s, "prepared", req[q].v) /\ Goto(q, "commit")
         ELSE Done(q) /\ UNCHANGED <<st, lease>>
  /\ UNCHANGED <<row, issues, overlay, money, service, arrivals, fitting, faults>>

CommitApply(q) ==
  /\ At(q, "commit")
  /\ IF req[q].v \in files[req[q].s]
     THEN Reinstate(req[q].s, req[q].v) /\ Goto(q, "finalise")
     ELSE Done(q) /\ UNCHANGED <<text, files>>
  /\ UNCHANGED <<row, queue, record, proposal, operation, money, service, arrivals, fitting, faults>>

FinaliseApply(q) ==
  /\ At(q, "finalise")
  /\ LET s == req[q].s
     IN  IF record[s] = text[s] /\ record[s] = req[q].v
         THEN Goto(q, "resolve") ELSE Done(q)
  /\ UNCHANGED <<row, queue, overlay, money, service, arrivals, fitting, faults>>

ResolveApply(q) ==
  /\ At(q, "resolve")
  /\ IF Concluded(req[q].s, req[q].v) THEN Conclude(req[q].s) ELSE UNCHANGED queue
  /\ Done(q)
  /\ UNCHANGED <<row, overlay, money, service, arrivals, fitting, faults>>

-----------------------------------------------------------------------------
(* rewrite_short, for one selected sample                                  *)

\* A rewrite that was started before is replayed or refused, never sent again.
LookUpOperation(q) ==
  /\ At(q, "operation")
  /\ IF operation[req[q].s][req[q].v] = "absent" THEN Goto(q, "begin") ELSE Done(q)
  /\ UNCHANGED <<row, queue, overlay, money, service, arrivals, fitting, faults>>

BeginOperation(q) ==
  /\ At(q, "begin")
  /\ LET s == req[q].s
     IN  IF /\ "overflow" \in issues[s] /\ proposal[s].version = req[q].v
            /\ st[s] \in {"pending", "failed"}
         THEN /\ operation' = [operation EXCEPT ![s][req[q].v] = "request_started"]
              /\ req' = [req EXCEPT ![q].stage = "reserve", ![q].base = text[s]]
         ELSE Done(q) /\ UNCHANGED operation
  /\ UNCHANGED <<row, queue, text, record, files, proposal, money,
                 service, arrivals, fitting, faults>>

\* Mutant of Remaining: other requests' reservations are not counted.
RemainingUnreserved == Attempts - used

Remaining == Attempts - used - reserved

ReserveAttempts(q) ==
  /\ At(q, "reserve")
  /\ IF Remaining < 1
     THEN Done(q) /\ UNCHANGED reserved
     ELSE LET allowance == AtMost(Remaining, PerSample)
          IN  /\ reserved' = reserved + allowance
              /\ req' = [req EXCEPT ![q].stage = "call", ![q].allowance = allowance]
  /\ UNCHANGED <<row, queue, overlay, used, sent, service, arrivals, fitting, faults>>

\* An answer says how many attempts were made; without one all of them are charged.
CallRewriter(q) ==
  /\ At(q, "call")
  /\ \E n \in 0 .. req[q].allowance :
       /\ sent' = sent + n
       /\ \/ /\ n > 0
             /\ req' = [req EXCEPT ![q].stage = "charge", ![q].charge = n, ![q].paid = TRUE]
          \/ req' = [req EXCEPT ![q].stage = "charge", ![q].charge = req[q].allowance]
  /\ UNCHANGED <<row, queue, overlay, used, reserved, service, arrivals, fitting, faults>>

SettleAttempts(q) ==
  /\ At(q, "charge")
  /\ reserved >= req[q].allowance
  /\ reserved' = reserved - req[q].allowance /\ used' = used + req[q].charge
  /\ Goto(q, IF req[q].paid THEN "recheck" ELSE "unknown")
  /\ UNCHANGED <<row, queue, overlay, sent, service, arrivals, fitting, faults>>

OutcomeUnknown(q) ==
  /\ At(q, "unknown")
  /\ operation' = [operation EXCEPT ![req[q].s][req[q].v] = "outcome_unknown"]
  /\ Done(q)
  /\ UNCHANGED <<row, queue, text, record, files, proposal, money,
                 service, arrivals, fitting, faults>>

\* The recount of the new text goes through the recovery of applies once more.
Recheck(q) ==
  /\ At(q, "recheck")
  /\ IF text[req[q].s] = req[q].base
     THEN /\ req' = [req EXCEPT ![q].stage = "sweep", ![q].rows = RowsIn("leased")]
          /\ UNCHANGED operation
     ELSE Refuse(q, "conflict")
  /\ UNCHANGED <<row, queue, text, record, files, proposal, money,
                 service, arrivals, fitting, faults>>

Serve(q) ==
  \/ SweepLease(q) \/ LeasesSwept(q) \/ RecoverApply(q) \/ ResetApply(q) \/ VerifyApply(q)
  \/ ConcludeApply(q) \/ Recovered(q) \/ AnswerPage(q)
  \/ ReadForRecount(q) \/ SaveProposal(q)
  \/ LeaseApply(q) \/ WriteArtifact(q) \/ WriteApplyRecord(q) \/ StageApply(q) \/ CommitApply(q)
  \/ FinaliseApply(q) \/ ResolveApply(q)
  \/ LookUpOperation(q) \/ BeginOperation(q) \/ ReserveAttempts(q) \/ CallRewriter(q)
  \/ SettleAttempts(q) \/ OutcomeUnknown(q) \/ Recheck(q)

-----------------------------------------------------------------------------
(* Cancellation, crashes and the recovery of the job                       *)

Cancel ==
  /\ status \in Cancellable /\ pc # "exported"
  /\ resume' = ResumeAfterCancel(status, resume)
  /\ status' = IF InFlight = {} THEN "cancelled_recoverable" ELSE "cancelling"
  /\ UNCHANGED <<module, queue, overlay, money, service, req, arrivals, fitting, faults>>

Crash ==
  /\ pc # "exported" /\ Fault
  /\ IF status \in NonInterruptible
     THEN UNCHANGED <<status, resume>>
     ELSE status' = "interrupted" /\ resume' = ResumeAfterInterrupt(status, resume)
  /\ pc' = "idle" /\ todo' = {} /\ gateFailed' = FALSE
  /\ req' = [q \in Requests |-> NoRequest]
  /\ UNCHANGED <<module, queue, overlay, money, arrivals, fitting>>

\* recover_job: leases of the review go back to the failed samples they came from.
BeginRecovery ==
  /\ pc = "idle" /\ status \in {"interrupted", "cancelled_recoverable"}
  /\ module = "token_budget" /\ resume \in {"running", "reviewing"}
  /\ LET swept(s) == st[s] = "leased" /\ Reviewed(s)
     IN  /\ st' = [s \in Samples |-> IF swept(s) THEN "failed" ELSE st[s]]
         /\ lease' = [s \in Samples |-> IF swept(s) THEN 0 ELSE lease[s]]
  /\ pc' = "recover" /\ todo' = Samples
  /\ UNCHANGED <<row, issues, overlay, money, gateFailed, req, arrivals, fitting, faults>>

\* BoundedScheduler.recover: leases go back, a prepared count is completed or repeated, a
\* prepared apply is finalised or back with the review.
RecoverSample ==
  /\ pc = "recover" /\ todo # {}
  /\ LET s == First(todo)
         v == lease[s]
         back == Recoverable(s, v)
     IN  /\ todo' = todo \ {s}
         /\ IF st[s] = "prepared" /\ back
            THEN Reinstate(s, v) ELSE UNCHANGED <<text, files>>
         /\ CASE st[s] = "leased" -> Sample(s, "pending", 0) /\ UNCHANGED issues
              [] st[s] = "prepared" /\ ~Reviewed(s) ->
                   Sample(s, IF back THEN "completed" ELSE "pending", 0) /\ UNCHANGED issues
              [] st[s] = "prepared" /\ Reviewed(s) ->
                   IF back /\ record[s] = v /\ Concluded(s, v)
                   THEN Conclude(s) ELSE Sample(s, "failed", 0) /\ UNCHANGED issues
              [] OTHER -> UNCHANGED queue
  /\ UNCHANGED <<row, record, proposal, operation, money, pc, gateFailed,
                 req, arrivals, fitting, faults>>

\* The recovery target of this module is the review, whatever the job did before.
JobRecovered ==
  /\ pc = "recover" /\ todo = {}
  /\ status' = "reviewing" /\ resume' = NoStatus /\ pc' = "idle"
  /\ UNCHANGED <<module, queue, overlay, money, todo, gateFailed, req, arrivals, fitting, faults>>

-----------------------------------------------------------------------------
Init ==
  /\ status = "running" /\ resume = NoStatus /\ module = "token_budget"
  /\ st = [s \in Samples |-> "pending"] /\ lease = [s \in Samples |-> 0]
  /\ issues = [s \in Samples |-> {}]
  /\ text = [s \in Samples |-> 0] /\ record = [s \in Samples |-> None]
  /\ files = [s \in Samples |-> {}]
  /\ proposal = [s \in Samples |-> [version |-> 1, fits |-> FALSE, base |-> 0]]
  /\ operation = [s \in Samples |-> [v \in 1 .. MaxVersion |-> "absent"]]
  /\ used = 0 /\ reserved = 0 /\ sent = 0
  /\ pc = "run" /\ todo = {} /\ gateFailed = FALSE
  /\ req = [q \in Requests |-> NoRequest] /\ arrivals = 0
  /\ fitting = [s \in Samples |-> {}] /\ faults = 0

Operations == {"page", "recount", "apply", "rewrite"}

Next ==
  \/ Thread \/ RunnerError \/ Resume \/ Cancel \/ Crash
  \/ BeginRecovery \/ RecoverSample \/ JobRecovered
  \/ \E q \in Requests : Serve(q) \/ \E op \in Operations, s \in Samples : Arrive(q, op, s)

Spec == Init /\ [][Next]_vars

-----------------------------------------------------------------------------
(* Properties                                                              *)

\* Whatever was recovered, applied twice or reset half-way: the export starts only from
\* texts that were counted within maxTokens (_token_budget_export_gate).
ExportsWithinBudget ==
  pc = "exported" => \A s \in Samples : text[s] \in fitting[s]

\* The attempts that were made never exceed the budget, over concurrent rewrites, lost
\* answers and crashes (_reserve_short_rewrite_attempts, _settle_short_rewrite_attempts).
AttemptsWithinBudget == sent <= used + reserved /\ used + reserved <= Attempts

\* A sample whose apply was settled is never taken back into the review, by no second
\* apply, late reset or recovery (_require_open_overflow, _reset_prepared_apply_to_failed).
SettledStays == [][\A s \in Samples : st[s] = "export" => st'[s] = "export"]_vars
=============================================================================

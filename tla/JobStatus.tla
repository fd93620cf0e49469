------------------------------ MODULE JobStatus ------------------------------
(***************************************************************************)
(* The status vocabulary of the control plane: the transition tables of    *)
(* state_machine.py and the predicates the database code filters rows      *)
(* with.  Every stateful module of the project builds on these constants.  *)
(***************************************************************************)
JobStatuses ==
  {"draft", "preflighting", "ready", "preparing_workspace", "running", "paused",
   "interrupted", "reviewing", "exporting", "committing", "cancelling",
   "cancelled_recoverable", "succeeded", "failed", "discarded"}

\* resume_status holds a job status, or NULL.
NoStatus == "none"

JobTransitions ==
  [s \in JobStatuses |->
    CASE s = "draft" -> {"preflighting", "discarded"}
      [] s = "preflighting" ->
           {"draft", "ready", "preparing_workspace", "failed", "interrupted"}
      [] s = "ready" ->
           {"preparing_workspace", "running", "cancelling", "failed", "discarded"}
      [] s = "preparing_workspace" -> {"running", "cancelling", "failed", "interrupted"}
      [] s = "running" ->
           {"paused", "reviewing", "exporting", "cancelling", "failed", "interrupted"}
      [] s = "paused" -> {"running", "exporting", "cancelling", "interrupted", "failed"}
      [] s = "interrupted" ->
           {"preparing_workspace", "running", "reviewing", "exporting", "cancelling",
            "succeeded", "failed", "discarded"}
      [] s = "reviewing" ->
           {"running", "exporting", "cancelling", "failed", "discarded", "interrupted"}
      [] s = "exporting" ->
           {"paused", "committing", "reviewing", "cancelling", "failed", "interrupted"}
      [] s = "committing" -> {"succeeded", "cancelled_recoverable", "failed", "interrupted"}
      [] s = "cancelling" -> {"cancelled_recoverable", "succeeded", "failed", "interrupted"}
      [] s = "cancelled_recoverable" ->
           {"preparing_workspace", "running", "reviewing", "exporting", "interrupted",
            "discarded"}
      [] s = "failed" -> {"preparing_workspace", "running", "reviewing", "discarded"}
      [] OTHER -> {}]

\* set_job_status lets a job keep its status and otherwise asks the table.
MaySetStatus(current, target) ==
  target = current \/ target \in JobTransitions[current]

ModuleStatuses ==
  {"pending", "running", "paused", "completed", "completed_with_issues", "failed",
   "skipped", "skipped_not_available"}

ModuleTransitions ==
  [s \in ModuleStatuses |->
    CASE s = "pending" -> {"running", "paused", "skipped", "skipped_not_available", "failed"}
      [] s = "running" -> {"paused", "completed", "completed_with_issues", "failed", "skipped"}
      [] s = "paused" -> {"running", "failed", "skipped"}
      [] s \in {"completed_with_issues", "failed"} -> {"running"}
      [] OTHER -> {}]

TerminalStatuses == {"succeeded", "failed", "discarded", "cancelled_recoverable"}

\* Startup freezes every job but these.
NonInterruptible == TerminalStatuses \cup {"draft", "ready", "interrupted", "cancelling"}

\* Mutant of Cancellable: a commit may be cancelled half-way.
CancellableCommit ==
  {"preparing_workspace", "running", "paused", "reviewing", "exporting", "committing",
   "cancelling"}

\* The statuses begin_cancellation's UPDATE matches.
Cancellable ==
  {"preparing_workspace", "running", "paused", "reviewing", "exporting", "cancelling"}

\* What mark_interrupted leaves in resume_status.
ResumeAfterInterrupt(status, resume) ==
  IF status = "paused" THEN (IF resume = NoStatus THEN "running" ELSE resume) ELSE status

\* What begin_cancellation leaves in resume_status.
ResumeAfterCancel(status, resume) ==
  IF status = "cancelling" THEN resume ELSE ResumeAfterInterrupt(status, resume)

JournalStates ==
  {"prepared", "backup_verified", "rollback_created", "committed",
   "rollback_required", "rolled_back"}

NoJournal == "none"

ResolvedJournals == {"committed", "rolled_back"}

HasUnresolvedJournal(journal) == journal \in JournalStates \ ResolvedJournals

CanDiscard(status, journal) ==
  /\ ~HasUnresolvedJournal(journal)
  /\ status \in {"draft", "ready", "interrupted", "reviewing", "cancelled_recoverable", "failed"}
=============================================================================

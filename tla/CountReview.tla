----------------------------- MODULE CountReview -----------------------------
(***************************************************************************)
(* The review of how many characters an image shows.  Classify and the     *)
(* vision model each have an opinion; where they agree and nothing warns   *)
(* the count is decided, otherwise the job waits for the user, who edits   *)
(* the decisions, one or many at a time, and confirms them.  The runner    *)
(* then writes the final counts into the annotations.                      *)
(*                                                                         *)
(* Clients that edit interleave with the runner's thread, with pauses,     *)
(* cancellations and a crash, and with the recovery, which brings the job  *)
(* back into the review.  A transaction is one step.                       *)
(***************************************************************************)
EXTENDS JobStatus, Integers, FiniteSets

CONSTANTS
  NumSamples,  \* the samples that reach the module
  Counts,      \* FINAL_COUNT_VALUES
  Clients,     \* browsers with the review open
  Inputs,      \* pairs of a classify evidence and an observation that samples have
  PageSize,    \* decisions inserted by one transaction, and samples of one claim
  MaxVersion,  \* the last version of a decision (bound)
  MaxFaults    \* crashes and errors of a behaviour (bound)

ASSUME CountReviewAssumption ==
  /\ NumSamples \in Nat /\ PageSize \in Nat \ {0} /\ MaxVersion \in Nat /\ MaxFaults \in Nat
  /\ Counts \cap {"none", "unknown", "invalid", "not_requested"} = {}
  /\ Inputs \subseteq [classify : [value : Counts \cup {"none"}, warned : BOOLEAN],
                      vlm : Counts \cup {"unknown", "invalid", "not_requested"}]

Samples == 1 .. NumSamples
NoCount == "none"

VARIABLES
  status, resume, current,  \* columns of the jobs row
  summary,                  \* module_summary.status of count_review
  input,                    \* count_evidence and count_observations, by sample
  decision,                 \* count_review_decisions, or Undecided
  st,                       \* sample_state in count_review
  text, prepared,           \* the annotation's count, and the prepared artifact's
  pc, todo,                 \* the pipeline thread or a recovery, and the leases it holds
  update,                   \* a set_job_status between its read and its write
  seen,                     \* the decisions a client's page shows
  faults

row == <<status, resume, current, summary>>
queue == <<st, text, prepared>>
thread == <<pc, todo, update>>
vars == <<row, input, decision, queue, thread, seen, faults>>

Fault == faults < MaxFaults /\ faults' = faults + 1
Lowest(S, n) == {s \in S : Cardinality({t \in S : t <= s}) <= n}
First(S) == CHOOSE s \in S : \A t \in S : s <= t
InState(S) == {s \in Samples : st[s] \in S}
InFlight == InState({"leased", "prepared"})

-----------------------------------------------------------------------------
(* initial_count_review_decision                                           *)

\* A warning of classify asks for a review by itself.
Reasons(i) ==
  (IF i.classify.warned THEN {"classify_warning"} ELSE {})
    \cup (IF i.vlm = "invalid" THEN {"count_observation_invalid"} ELSE {})
    \cup (IF i.vlm = "unknown" \/ (i.vlm = "not_requested" /\ i.classify.value = NoCount)
          THEN {"count_observation_unknown"} ELSE {})
    \cup (IF /\ i.classify.value \in Counts /\ i.vlm \in Counts
             /\ i.classify.value # i.vlm
          THEN {"count_observation_mismatch"} ELSE {})

Undecided == [status |-> "undecided", final |-> NoCount, version |-> 0, applied |-> FALSE]

InitialDecision(i) ==
  [status |-> IF Reasons(i) # {} THEN "pending" ELSE "auto_resolved",
   final |-> IF Reasons(i) # {} THEN NoCount
             ELSE IF i.classify.value \in Counts THEN i.classify.value ELSE i.vlm,
   version |-> 1, applied |-> FALSE]

Pending == {s \in Samples : decision[s].status = "pending"}
Decided == {s \in Samples : decision[s] # Undecided}

-----------------------------------------------------------------------------
(* set_job_status reads the row, and overwrites it in a statement of its own. *)

NoUpdate == [to |-> "failed", module |-> "count_review", next |-> "idle"]

BeginUpdate(target, module, next, rejected) ==
  IF MaySetStatus(status, target)
  THEN pc' = "update" /\ update' = [to |-> target, module |-> module, next |-> next]
  ELSE pc' = rejected /\ UNCHANGED update

CompleteUpdate ==
  /\ pc = "update"
  /\ status' = update.to /\ current' = update.module /\ resume' = NoStatus
  /\ pc' = update.next /\ update' = NoUpdate
  /\ UNCHANGED <<summary, input, decision, queue, todo, seen, faults>>

-----------------------------------------------------------------------------
(* CountReviewRunner.run                                                   *)

\* start_module, for a thread that resumes: only a summary that still runs may go on.
StartModule ==
  /\ pc = "start"
  /\ pc' = IF summary = "running" /\ status = "running" THEN "enter" ELSE "raise"
  /\ UNCHANGED <<row, input, decision, queue, todo, update, seen, faults>>

Enter ==
  /\ pc = "enter"
  /\ IF status \in {"cancelling", "paused"}
     THEN pc' = "returned" /\ UNCHANGED todo
     ELSE pc' = "initialise" /\ todo' = Samples
  /\ UNCHANGED <<row, input, decision, queue, update, seen, faults>>

\* Mutant of InitialisePage: what the user saved is replaced.
InitialisePageAnew ==
  /\ pc = "initialise" /\ todo # {}
  /\ LET page == Lowest(todo, PageSize)
     IN  /\ todo' = todo \ page
         /\ decision' = [s \in Samples |->
                           IF s \in page THEN InitialDecision(input[s]) ELSE decision[s]]
  /\ UNCHANGED <<row, input, queue, pc, update, seen, faults>>

\* INSERT OR IGNORE keeps what an earlier run or the user decided.
InitialisePage ==
  /\ pc = "initialise" /\ todo # {}
  /\ LET page == Lowest(todo, PageSize)
     IN  /\ todo' = todo \ page
         /\ decision' = [s \in Samples |->
                           IF s \in page \ Decided THEN InitialDecision(input[s])
                           ELSE decision[s]]
  /\ UNCHANGED <<row, input, queue, pc, update, seen, faults>>

\* Mutant of Initialised: an application goes on without the user.
InitialisedUnasked ==
  /\ pc = "initialise" /\ todo = {}
  /\ IF status \in {"cancelling", "paused"}
     THEN pc' = "returned" ELSE pc' = "poll"
  /\ UNCHANGED <<row, input, decision, queue, todo, update, seen, faults>>

Initialised ==
  /\ pc = "initialise" /\ todo = {}
  /\ CASE status \in {"cancelling", "paused"} -> pc' = "returned" /\ UNCHANGED update
       [] status = "running" /\ Pending # {} ->
            BeginUpdate("reviewing", "count_review", "idle", "raise")
       [] OTHER -> pc' = "poll" /\ UNCHANGED update
  /\ UNCHANGED <<row, input, decision, queue, todo, seen, faults>>

Poll ==
  /\ pc = "poll"
  /\ pc' = CASE status \in {"cancelling", "paused"} -> "returned"
             [] status = "running" -> "claim"
             [] OTHER -> "raise"
  /\ UNCHANGED <<row, input, decision, queue, todo, update, seen, faults>>

\* claim_batch finds nothing when the job was paused or cancelled meanwhile.
Claim ==
  /\ pc = "claim"
  /\ LET batch == IF status = "running" THEN Lowest(InState({"pending"}), PageSize) ELSE {}
     IN  /\ st' = [s \in Samples |-> IF s \in batch THEN "leased" ELSE st[s]]
         /\ todo' = batch
         /\ pc' = CASE batch # {} -> "write"
                    [] batch = {} /\ InState({"pending", "leased", "prepared"}) # {} -> "raise"
                    [] OTHER -> "finish"
  /\ UNCHANGED <<row, input, decision, text, prepared, update, seen, faults>>

\* The decision is read, and the annotation with its count is written aside.
WritePrepared ==
  /\ pc = "write" /\ todo # {}
  /\ LET s == First(todo)
         d == decision[s]
     IN  IF d.status \in {"auto_resolved", "manual_resolved"} /\ ~d.applied
         THEN prepared' = [prepared EXCEPT ![s] = d.final] /\ pc' = "stage"
         ELSE pc' = "raise" /\ UNCHANGED prepared
  /\ UNCHANGED <<row, input, decision, st, text, todo, update, seen, faults>>

StagePrepared ==
  /\ pc = "stage"
  /\ st' = [st EXCEPT ![First(todo)] = "prepared"]
  /\ pc' = "commit"
  /\ UNCHANGED <<row, input, decision, text, prepared, todo, update, seen, faults>>

Commit(s) ==
  /\ text' = [text EXCEPT ![s] = prepared[s]]
  /\ prepared' = [prepared EXCEPT ![s] = NoCount]

CommitPrepared ==
  /\ pc = "commit"
  /\ Commit(First(todo))
  /\ pc' = "complete"
  /\ UNCHANGED <<row, input, decision, st, todo, update, seen, faults>>

\* complete_leased_sample_and_count: the sample and applied_at in one transaction.
Settle(s) ==
  /\ st' = [st EXCEPT ![s] = "completed"]
  /\ decision' = [decision EXCEPT ![s].applied = TRUE]

Complete ==
  /\ pc = "complete"
  /\ Settle(First(todo))
  /\ todo' = todo \ {First(todo)} /\ pc' = "write"
  /\ UNCHANGED <<row, input, text, prepared, update, seen, faults>>

BatchApplied ==
  /\ pc = "write" /\ todo = {}
  /\ pc' = "poll"
  /\ UNCHANGED <<row, input, decision, queue, todo, update, seen, faults>>

\* finish_module
Finish ==
  /\ pc = "finish"
  /\ IF status \in {"paused", "cancelling"}
     THEN pc' = "returned" /\ UNCHANGED summary
     ELSE pc' = "next" /\ summary' = "completed"
  /\ UNCHANGED <<status, resume, current, input, decision, queue, todo, update, seen, faults>>

\* The next module of the pipeline takes over, if the job is still going.
NextModule ==
  /\ pc = "next"
  /\ IF status = "running"
     THEN BeginUpdate("running", "dropout", "beyond", "raise")
     ELSE pc' = "raise" /\ UNCHANGED update
  /\ UNCHANGED <<row, input, decision, queue, todo, seen, faults>>

Returned ==
  /\ pc = "returned"
  /\ status' = IF status = "cancelling" /\ InFlight = {} THEN "cancelled_recoverable" ELSE status
  /\ pc' = "idle"
  /\ UNCHANGED <<resume, current, summary, input, decision, queue, todo, update, seen, faults>>

\* An annotation that cannot be read or written; nothing returns the leases.
WriteFails ==
  /\ pc \in {"write", "stage", "commit"} /\ todo # {} /\ Fault
  /\ pc' = "raise"
  /\ UNCHANGED <<row, input, decision, queue, todo, update, seen>>

FailRun ==
  /\ pc = "raise"
  /\ todo' = {}
  /\ IF status \in {"cancelled_recoverable", "failed", "succeeded"}
     THEN pc' = "idle" /\ UNCHANGED update
     ELSE BeginUpdate("failed", current, "idle", "idle")
  /\ UNCHANGED <<row, input, decision, queue, seen, faults>>

Thread ==
  \/ CompleteUpdate \/ StartModule \/ Enter \/ InitialisePage \/ Initialised \/ Poll \/ Claim
  \/ WritePrepared \/ StagePrepared \/ CommitPrepared \/ Complete \/ BatchApplied \/ Finish
  \/ NextModule \/ Returned \/ WriteFails \/ FailRun

-----------------------------------------------------------------------------
(* The review: pages, edits and the confirmation                           *)

Reviewing == status = "reviewing" /\ current = "count_review"

\* The page of the review is open while the job is reviewed.
ReadPage(c) ==
  /\ Reviewing
  /\ seen' = [seen EXCEPT ![c] = decision]
  /\ UNCHANGED <<row, input, decision, queue, thread, faults>>

\* Mutant of Editable: a decision that was applied may still be edited.
EditableApplied(c, s) ==
  /\ decision[s].version = seen[c][s].version
  /\ decision[s].status \in {"pending", "manual_resolved"}

\* What the update of one decision asks for: the version the client saw, and no application.
Editable(c, s) ==
  /\ decision[s].version = seen[c][s].version
  /\ decision[s].status \in {"pending", "manual_resolved"} /\ ~decision[s].applied

\* update_count_review_decisions: all of a batch or nothing, each with the count of a source
\* or one of the user's own.
EditBatch(c, batch) ==
  /\ Reviewing
  /\ batch # {} /\ \A s \in batch : Editable(c, s) /\ decision[s].version < MaxVersion
  /\ \E final \in [batch -> Counts] :
       decision' = [s \in Samples |->
            IF s \in batch
            THEN [decision[s] EXCEPT !.status = "manual_resolved", !.final = final[s],
                                     !.version = @ + 1]
            ELSE decision[s]]
  /\ UNCHANGED <<row, input, queue, thread, seen, faults>>

\* confirm_count_review's gate, in one transaction with the new status.
Gate == Reviewing /\ Decided = Samples /\ Pending = {}

\* Refused while a thread is settling.
Confirm ==
  /\ pc = "idle" /\ Gate
  /\ status' = "running" /\ resume' = NoStatus
  /\ pc' = "start"
  /\ UNCHANGED <<current, summary, input, decision, queue, todo, update, seen, faults>>

-----------------------------------------------------------------------------
(* Pauses, cancellations, crashes and the recovery                         *)

Pause ==
  /\ pc \notin {"idle", "recover", "beyond"} /\ current = "count_review"
  /\ status = "running" /\ summary = "running"
  /\ status' = "paused" /\ resume' = "running" /\ summary' = "paused"
  /\ UNCHANGED <<current, input, decision, queue, thread, seen, faults>>

Resume ==
  /\ pc = "idle" /\ status = "paused" /\ summary = "paused" /\ resume = "running"
  /\ status' = "running" /\ resume' = NoStatus /\ summary' = "running"
  /\ pc' = "start"
  /\ UNCHANGED <<current, input, decision, queue, todo, update, seen, faults>>

Cancel ==
  /\ status \in Cancellable /\ current = "count_review"
  /\ resume' = ResumeAfterCancel(status, resume)
  /\ status' = IF InFlight = {} THEN "cancelled_recoverable" ELSE "cancelling"
  /\ UNCHANGED <<current, summary, input, decision, queue, thread, seen, faults>>

Crash ==
  /\ pc # "beyond" /\ Fault
  /\ IF status \in NonInterruptible
     THEN UNCHANGED <<status, resume>>
     ELSE status' = "interrupted" /\ resume' = ResumeAfterInterrupt(status, resume)
  /\ pc' = "idle" /\ todo' = {} /\ update' = NoUpdate
  /\ UNCHANGED <<current, summary, input, decision, queue, seen>>

BeginRecovery ==
  /\ pc = "idle" /\ status \in {"interrupted", "cancelled_recoverable"}
  /\ current = "count_review" /\ resume \in {"running", "reviewing"}
  /\ pc' = "recover" /\ todo' = Samples
  /\ UNCHANGED <<row, input, decision, queue, update, seen, faults>>

\* A lease goes back; a prepared sample is in the annotation, or is put there, and settled.
RecoverSample ==
  /\ pc = "recover" /\ todo # {}
  /\ LET s == First(todo)
     IN  /\ todo' = todo \ {s}
         /\ CASE st[s] = "leased" ->
                   st' = [st EXCEPT ![s] = "pending"] /\ UNCHANGED <<decision, text, prepared>>
              [] st[s] = "prepared" /\ prepared[s] # NoCount -> Commit(s) /\ Settle(s)
              [] st[s] = "prepared" /\ prepared[s] = NoCount ->
                   Settle(s) /\ UNCHANGED <<text, prepared>>
              [] OTHER -> UNCHANGED <<decision, queue>>
  /\ UNCHANGED <<row, input, pc, update, seen, faults>>

\* The recovery target of this module is the review, whatever the job did before.
JobRecovered ==
  /\ pc = "recover" /\ todo = {}
  /\ status' = "reviewing" /\ resume' = NoStatus /\ pc' = "idle"
  /\ UNCHANGED <<current, summary, input, decision, queue, todo, update, seen, faults>>

-----------------------------------------------------------------------------
Init ==
  /\ status = "running" /\ resume = NoStatus /\ current = "count_review"
  /\ summary = "running"
  /\ input \in [Samples -> Inputs]
  /\ decision = [s \in Samples |-> Undecided]
  /\ st = [s \in Samples |-> "pending"]
  /\ text = [s \in Samples |-> input[s].classify.value]
  /\ prepared = [s \in Samples |-> NoCount]
  /\ pc = "enter" /\ todo = {} /\ update = NoUpdate
  /\ seen = [c \in Clients |-> decision] /\ faults = 0

Next ==
  \/ Thread \/ Confirm \/ Pause \/ Resume \/ Cancel \/ Crash
  \/ BeginRecovery \/ RecoverSample \/ JobRecovered
  \/ \E c \in Clients : ReadPage(c) \/ \E batch \in SUBSET Samples : EditBatch(c, batch)

Spec == Init /\ [][Next]_vars

-----------------------------------------------------------------------------
(* Properties                                                              *)

\* An applied decision is the count of the annotation, through every crash, recovery and
\* edit in between (complete_leased_sample_and_count, recover_prepared).
AppliedAsDecided ==
  \A s \in Samples : decision[s].applied => text[s] = decision[s].final

\* A count is written only when nothing of the job waits for the user any more, and one
\* that was in doubt only by the user's decision (confirm_count_review, CountReviewRunner).
ReviewedBeforeApplied ==
  \A s \in Samples : st[s] # "pending" =>
    Pending = {} /\ (Reasons(input[s]) # {} => decision[s].status = "manual_resolved")

\* A saved decision is replaced only by a client that saw it: not by a restart, a
\* recovery, or a client with an older page (insert_initial_count_review_decisions,
\* _resolve_count_review_decision_in_transaction).
NoDecisionLost ==
  [][\A s \in Samples :
       decision[s] # Undecided /\ decision'[s].final # decision[s].final
         => \E c \in Clients : seen[c][s] = decision[s]]_vars
=============================================================================

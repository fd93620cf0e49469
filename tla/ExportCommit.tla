---------------------------- MODULE ExportCommit ----------------------------
(***************************************************************************)
(* Publishing an export: one job whose export module is running, the       *)
(* pipeline thread that stages the new annotations next to the dataset and *)
(* switches the two directories under a commit journal, the API calls that *)
(* may arrive meanwhile, and the backend restarts that resolve whatever    *)
(* journal a crash left behind.                                            *)
(*                                                                         *)
(* Directories and the journal file survive a crash, and so do the columns *)
(* of the jobs row; the program counters and the locals of commit() do     *)
(* not.  A directory is abstracted to what it holds: the annotations from  *)
(* before the job ("old"), the complete export ("new"), or a tree that is  *)
(* only partly there.                                                      *)
(***************************************************************************)
EXTENDS JobStatus, Naturals

CONSTANT MaxFaults  \* how many crashes and failing file operations a behaviour has

ASSUME FaultsAssumption == MaxFaults \in Nat

VARIABLES
  dataset,          \* what the dataset path holds: "absent", "old", "new" or "torn"
  staging,          \* the hard-link mirror: "absent", "partial" or "complete"
  rollback,         \* the directory renamed away: "absent", "old" or "partial"
  backup,           \* the verified ZIP of the original annotations exists
  overlay,          \* the task workspace: "intact", "unmarked" (no marker file), "absent"
  journal,          \* state recorded in the overlay's commit/journal.json
  status, resume, overlayRoot, cancelRequested,  \* columns of the jobs row
  summary,          \* module_summary.status of the export module
  core,             \* the backend: "down", a stage of its startup recovery, or "up"
  verdict,          \* what ExportCommitCoordinator.recover is about to return
  pc,               \* the pipeline thread of this job
  update,           \* a set_job_status that has read the row and not yet written it
  rollbackCreated, stagingPromoted, restored,    \* locals of commit()
  outcome,          \* the journal state commit()'s handler wrote
  cancel,           \* the cancel request being served
  discard,          \* the discard request being served: what it has read of the overlay
  faults            \* faults so far

disk == <<dataset, staging, rollback, backup, overlay, journal>>
row == <<status, resume, overlayRoot, cancelRequested, summary>>
locals == <<rollbackCreated, stagingPromoted, restored, outcome>>
startup == <<core, verdict>>
thread == <<pc, update, locals>>
api == <<cancel, discard>>
vars == <<disk, row, startup, thread, api, faults>>

ThreadStages ==
  {"idle", "start", "reset", "runner", "review", "settle", "configure", "prepare",
   "link", "fill", "baseline", "backup", "journal_prepared", "journal_backup",
   "committing", "swap_out", "journal_rollback", "reveal", "swap_in",
   "journal_committed", "drop_rollback", "drop_overlay", "forget_overlay", "succeed",
   "restore", "outcome", "clean", "mark", "raise", "update"}

StartupStages ==
  {"scan", "sweep_staging", "sweep_rollback", "restore", "drop_staging", "record",
   "promote", "drop_rollback", "record_committed", "conclude"}

NoUpdate == [to |-> "failed", next |-> "idle"]

\* A file operation that fails, or a crash, spends one unit of the budget.
Fault == faults < MaxFaults /\ faults' = faults + 1
NoFault == UNCHANGED faults

\* Renaming a staging tree into place publishes exactly what it holds.
Promoted(tree) == IF tree = "complete" THEN "new" ELSE "torn"
Reinstated(tree) == IF tree = "old" THEN "old" ELSE "torn"

-----------------------------------------------------------------------------
(* The row and the thread's control flow                                   *)

\* set_job_status first reads the row and checks the transition ...
BeginUpdate(target, next, rejected) ==
  IF MaySetStatus(status, target)
  THEN pc' = "update" /\ update' = [to |-> target, next |-> next]
  ELSE pc' = rejected /\ UNCHANGED update

\* ... and then overwrites it, whatever it holds by then.  Discarding a job also
\* deletes its row, which is what "discarded" stands for: nothing writes it again.
CompleteUpdate ==
  /\ pc = "update"
  /\ status' = IF status = "discarded" THEN status ELSE update.to
  /\ resume' = NoStatus
  /\ pc' = update.next
  /\ update' = NoUpdate
  /\ UNCHANGED <<overlayRoot, cancelRequested, summary, disk, startup, locals, api, faults>>

\* A step of commit()'s try block that raises enters its handler.
Raise == pc' = "restore"

\* A step of the try block at p: it may fail without an effect on the disk.
FailAt(p) ==
  /\ pc = p
  /\ Fault
  /\ Raise
  /\ UNCHANGED <<disk, row, startup, update, locals, api>>

Advance(p, q) == pc = p /\ pc' = q /\ UNCHANGED <<row, startup, update, api>>

-----------------------------------------------------------------------------
(* From the recovered thread to the end of the export module               *)

\* start_module: only a module that is not settled can run (again).
StartModule ==
  /\ pc = "start"
  /\ pc' = IF status # "exporting" THEN "raise"
           ELSE IF summary = "running" THEN "runner"
           ELSE IF "running" \in ModuleTransitions[summary] THEN "reset"
           ELSE "raise"
  /\ UNCHANGED <<update, row, disk, startup, locals, api, faults>>

\* Past the page resets: the summary first, the job row second.
ActivateModule ==
  /\ pc = "reset"
  /\ summary' = "running"
  /\ BeginUpdate("exporting", "runner", "raise")
  /\ UNCHANGED <<status, resume, overlayRoot, cancelRequested, disk, startup, locals, api, faults>>

\* The runner's poll once no sample is left: finish, yield to a cancellation,
\* or fail the module because the job is no longer active.
PollRunner ==
  /\ pc = "runner"
  /\ CASE status = "exporting" ->
            \/ summary' = "completed" /\ pc' = "configure"
            \/ summary' = "completed_with_issues" /\ pc' = "review"
       [] status = "cancelling" ->
            \/ pc' = "settle" /\ UNCHANGED summary
            \/ summary' = "failed" /\ pc' = "raise"
       [] OTHER -> summary' = "failed" /\ pc' = "raise"
  /\ UNCHANGED <<status, resume, overlayRoot, cancelRequested, update, disk, startup, locals,
                 api, faults>>

\* A worker or protocol error while samples are left.
FailRunner ==
  /\ pc = "runner"
  /\ Fault
  /\ summary' = "failed"
  /\ pc' = "raise"
  /\ UNCHANGED <<status, resume, overlayRoot, cancelRequested, update, disk, startup, locals, api>>

ReviewIssues ==
  /\ pc = "review"
  /\ BeginUpdate("reviewing", "idle", "raise")
  /\ UNCHANGED <<row, disk, startup, locals, api, faults>>

\* The pipeline settles the cancellation its runner returned with.
SettleReturned ==
  /\ pc = "settle"
  /\ status' = IF status = "cancelling" THEN "cancelled_recoverable" ELSE status
  /\ pc' = IF status = "cancelling" THEN "idle" ELSE "raise"
  /\ UNCHANGED <<resume, overlayRoot, cancelRequested, summary, update, disk, startup, locals,
                 api, faults>>

-----------------------------------------------------------------------------
(* ExportCommitCoordinator.commit, before the directories move             *)

\* The overlay is opened, and the job must still be exporting.
Configure ==
  /\ pc = "configure"
  /\ pc' = IF overlay = "intact" /\ status = "exporting" THEN "prepare" ELSE "raise"
  /\ UNCHANGED <<update, row, disk, startup, locals, api, faults>>

\* No leftovers of an earlier commit, hard links work, there is room.  These
\* checks precede the try block.
Prepare ==
  /\ pc = "prepare"
  /\ \/ /\ NoFault
        /\ pc' = IF staging = "absent" /\ rollback = "absent" /\ ~backup THEN "link" ELSE "raise"
     \/ Fault /\ pc' = "raise"
  /\ UNCHANGED <<update, row, disk, startup, locals, api>>

CreateStaging ==
  /\ Advance("link", "fill")
  /\ staging' = "partial"
  /\ NoFault
  /\ UNCHANGED <<dataset, rollback, backup, overlay, journal, locals>>

\* Links every file, then replaces annotations, sidecars and the provenance
\* database from the overlay.  A failing link removes the tree, ignoring errors.
FillStaging ==
  /\ pc = "fill"
  /\ \/ overlay # "absent" /\ staging' = "complete" /\ pc' = "baseline" /\ NoFault
     \/ overlay # "intact" /\ UNCHANGED staging /\ Raise /\ NoFault
     \/ Fault /\ staging' \in {"partial", "absent"} /\ Raise
  /\ UNCHANGED <<dataset, rollback, backup, overlay, journal, row, startup, update, locals, api>>

VerifyBaseline ==
  /\ Advance("baseline", "backup")
  /\ NoFault
  /\ UNCHANGED <<disk, locals>>

\* Mutant of WriteBackup: the archive is left under its partial name.
WriteBackupUnrenamed ==
  /\ Advance("backup", "journal_prepared")
  /\ NoFault
  /\ UNCHANGED <<disk, locals>>

\* write_backup verifies a partial archive and renames it into place.
WriteBackup ==
  /\ Advance("backup", "journal_prepared")
  /\ backup' = TRUE
  /\ NoFault
  /\ UNCHANGED <<dataset, staging, rollback, overlay, journal, locals>>

\* The journal is replaced atomically inside the overlay directory.
WriteJournal(p, state, q) ==
  /\ pc = p
  /\ IF overlay = "absent"
     THEN Raise /\ UNCHANGED journal
     ELSE journal' = state /\ pc' = q
  /\ NoFault
  /\ UNCHANGED <<dataset, staging, rollback, backup, overlay, row, startup, update, locals, api>>

EnterCommitting ==
  /\ pc = "committing"
  /\ BeginUpdate("committing", "swap_out", "restore")
  /\ UNCHANGED <<disk, row, startup, locals, api, faults>>

-----------------------------------------------------------------------------
(* The directory switch                                                    *)

\* Mutant of SwapOut: the two rename sources are swapped.
SwapOutWrongTree ==
  /\ Advance("swap_out", "journal_rollback")
  /\ dataset' = "absent"
  /\ rollback' = staging
  /\ rollbackCreated' = TRUE
  /\ NoFault
  /\ UNCHANGED <<staging, backup, overlay, journal, stagingPromoted, restored, outcome>>

\* os.replace(dataset, rollback)
SwapOut ==
  /\ Advance("swap_out", "journal_rollback")
  /\ dataset' = "absent"
  /\ rollback' = dataset
  /\ rollbackCreated' = TRUE
  /\ NoFault
  /\ UNCHANGED <<staging, backup, overlay, journal, stagingPromoted, restored, outcome>>

RevealStaging ==
  /\ Advance("reveal", "swap_in")
  /\ NoFault
  /\ UNCHANGED <<disk, locals>>

\* os.replace(staging, dataset)
SwapIn ==
  /\ Advance("swap_in", "journal_committed")
  /\ dataset' = Promoted(staging)
  /\ staging' = "absent"
  /\ stagingPromoted' = TRUE
  /\ NoFault
  /\ UNCHANGED <<rollback, backup, overlay, journal, rollbackCreated, restored, outcome>>

\* shutil.rmtree(rollback) deletes file by file.
DropRollback ==
  /\ pc = "drop_rollback"
  /\ \/ rollback' = "partial" /\ UNCHANGED pc
     \/ rollback' = "absent" /\ pc' = "drop_overlay"
  /\ NoFault
  /\ UNCHANGED <<dataset, staging, backup, overlay, journal, row, startup, update, locals, api>>

\* layout.discard(): a resolved journal, then shutil.rmtree over the workspace.
DropOverlay ==
  /\ pc = "drop_overlay"
  /\ \/ /\ overlay' \in {overlay, "unmarked"}
        /\ journal' \in {journal, NoJournal}
        /\ UNCHANGED pc
     \/ overlay' = "absent" /\ journal' = NoJournal /\ pc' = "forget_overlay"
  /\ NoFault
  /\ UNCHANGED <<dataset, staging, rollback, backup, row, startup, update, locals, api>>

ForgetOverlay ==
  /\ pc = "forget_overlay"
  /\ overlayRoot' = FALSE
  /\ pc' = "succeed"
  /\ UNCHANGED <<status, resume, cancelRequested, summary, disk, startup, update, locals, api, faults>>

Succeed ==
  /\ pc = "succeed"
  /\ BeginUpdate("succeeded", "idle", "restore")
  /\ UNCHANGED <<disk, row, startup, locals, api, faults>>

-----------------------------------------------------------------------------
(* commit()'s exception handler, and the pipeline's own                    *)

\* Mutant of RestoreRollback: the check that the dataset path is free is gone.
RestoreRollbackUnguarded ==
  /\ pc = "restore"
  /\ pc' = "outcome"
  /\ IF rollback # "absent"
     THEN dataset' = Reinstated(rollback) /\ rollback' = "absent" /\ restored' = TRUE
     ELSE UNCHANGED <<dataset, rollback, restored>>
  /\ NoFault
  /\ UNCHANGED <<staging, backup, overlay, journal, row, startup, update, rollbackCreated,
                 stagingPromoted, outcome, api>>

\* restore_rollback renames the old directory back, unless the path is taken.
RestoreRollback ==
  /\ pc = "restore"
  /\ pc' = "outcome"
  /\ IF dataset = "absent" /\ rollback # "absent"
     THEN \/ /\ dataset' = Reinstated(rollback)
             /\ rollback' = "absent"
             /\ restored' = TRUE
             /\ NoFault
          \/ Fault /\ UNCHANGED <<dataset, rollback, restored>>
     ELSE NoFault /\ UNCHANGED <<dataset, rollback, restored>>
  /\ UNCHANGED <<staging, backup, overlay, journal, row, startup, update, rollbackCreated,
                 stagingPromoted, outcome, api>>

\* Mutant of HandlerVerdict: it trusts the first rename.
HandlerVerdictFirstRename ==
  IF rollbackCreated THEN "committed" ELSE "rollback_required"

\* What the handler claims about the switch.
HandlerVerdict ==
  IF stagingPromoted THEN "committed"
  ELSE IF \/ restored
          \/ /\ rollbackCreated
             /\ dataset # "absent"
             /\ rollback = "absent"
             /\ staging # "absent"
  THEN "rolled_back"
  ELSE "rollback_required"

\* An unreadable or unwritable journal is remembered as "unwritten".
RecordOutcome ==
  /\ pc = "outcome"
  /\ pc' = "clean"
  /\ IF journal = NoJournal
     THEN NoFault /\ UNCHANGED <<journal, outcome>>
     ELSE \/ NoFault /\ journal' = HandlerVerdict /\ outcome' = HandlerVerdict
          \/ Fault /\ UNCHANGED journal /\ outcome' = "unwritten"
  /\ UNCHANGED <<dataset, staging, rollback, backup, overlay, row, startup, update,
                 rollbackCreated, stagingPromoted, restored, api>>

\* shutil.rmtree(staging, ignore_errors=True)
CleanStaging ==
  /\ pc = "clean"
  /\ pc' = "mark"
  /\ IF /\ outcome \notin {"unwritten", "rollback_required"}
        /\ dataset # "absent"
        /\ staging # "absent"
     THEN \/ staging' = "absent" /\ NoFault
          \/ staging' = "partial" /\ Fault
     ELSE UNCHANGED staging /\ NoFault
  /\ UNCHANGED <<dataset, rollback, backup, overlay, journal, row, startup, update, locals, api>>

MarkFailed ==
  /\ pc = "mark"
  /\ IF status \in {"exporting", "committing"}
     THEN BeginUpdate("failed", "raise", "raise")
     ELSE pc' = "raise" /\ UNCHANGED update
  /\ UNCHANGED <<disk, row, startup, locals, api, faults>>

\* PipelineService._run turns any escaping exception into a failed job.
FailRun ==
  /\ pc = "raise"
  /\ IF status \in {"cancelled_recoverable", "failed", "succeeded"}
     THEN pc' = "idle" /\ UNCHANGED update
     ELSE BeginUpdate("failed", "idle", "idle")
  /\ UNCHANGED <<disk, row, startup, locals, api, faults>>

Fallible ==
  {"link", "baseline", "backup", "journal_prepared", "journal_backup", "swap_out",
   "journal_rollback", "reveal", "swap_in", "journal_committed", "drop_rollback",
   "drop_overlay"}

Pipeline ==
  \/ StartModule \/ ActivateModule \/ PollRunner \/ ReviewIssues \/ SettleReturned
  \/ CompleteUpdate
  \/ Configure \/ Prepare \/ CreateStaging \/ FillStaging \/ VerifyBaseline \/ WriteBackup
  \/ WriteJournal("journal_prepared", "prepared", "journal_backup")
  \/ WriteJournal("journal_backup", "backup_verified", "committing")
  \/ EnterCommitting
  \/ SwapOut
  \/ WriteJournal("journal_rollback", "rollback_created", "reveal")
  \/ RevealStaging
  \/ SwapIn
  \/ WriteJournal("journal_committed", "committed", "drop_rollback")
  \/ DropRollback \/ DropOverlay \/ ForgetOverlay \/ Succeed
  \/ RestoreRollback \/ RecordOutcome \/ CleanStaging \/ MarkFailed \/ FailRun

-----------------------------------------------------------------------------
(* API calls                                                               *)

BeginCancellation ==
  /\ core = "up"
  /\ cancel = "idle"
  /\ status \in Cancellable
  /\ status' = "cancelling"
  /\ resume' = ResumeAfterCancel(status, resume)
  /\ cancelRequested' = TRUE
  /\ cancel' = "settle"
  /\ UNCHANGED <<overlayRoot, summary, disk, startup, thread, discard, faults>>

\* No sample is leased while the export commits, so the request settles at once.
SettleCancellation ==
  /\ cancel = "settle"
  /\ cancel' = "idle"
  /\ status' = IF status = "cancelling" THEN "cancelled_recoverable" ELSE status
  /\ UNCHANGED <<resume, overlayRoot, cancelRequested, summary, disk, startup, thread, discard,
                 faults>>

\* recover_job restarts the thread of a frozen or cancelled job.  It runs under
\* the service lock and is one step here.
RecoverJob ==
  /\ core = "up"
  /\ pc = "idle"
  /\ status \in {"interrupted", "cancelled_recoverable"}
  /\ resume = "exporting"
  /\ overlayRoot /\ overlay = "intact" /\ dataset # "absent"
  /\ status' = "exporting"
  /\ resume' = NoStatus
  /\ cancelRequested' = (status = "interrupted" /\ cancelRequested)
  /\ pc' = "start"
  /\ rollbackCreated' = FALSE /\ stagingPromoted' = FALSE /\ restored' = FALSE
  /\ outcome' = NoJournal
  /\ UNCHANGED <<overlayRoot, summary, disk, startup, update, api, faults>>

\* Before its transaction a discard opens the overlay and reads the journal's state.
InspectDiscard ==
  /\ core = "up"
  /\ discard = "idle" /\ status # "discarded"
  /\ overlayRoot /\ overlay # "absent" => overlay = "intact" /\ dataset # "absent"
  /\ discard' = IF overlayRoot /\ overlay # "absent" THEN journal ELSE "no_overlay"
  /\ UNCHANGED <<row, disk, startup, thread, cancel, faults>>

\* Mutant of MayRemove: the journal is not looked at again.
MayRemoveAnyJournal == overlay = "intact" /\ dataset # "absent"

\* OverlayLayout.discard opens the overlay once more and reads its journal afresh.
MayRemove == overlay = "intact" /\ dataset # "absent" /\ ~HasUnresolvedJournal(journal)

\* The transaction retires the row and removes the overlay inspected before.  It raises
\* if the status, the journal read before or the overlay now forbid it; if the removal
\* or the commit fails, the row is rolled back and what is gone stays gone.
\* One step: the transaction keeps status updates out, and with a status that allows the
\* discard the thread is at no step that moves the dataset.
DiscardJob ==
  /\ discard # "idle" /\ discard' = "idle"
  /\ LET inspected == discard # "no_overlay"
         refused == \/ ~CanDiscard(status, IF inspected THEN discard ELSE NoJournal)
                    \/ inspected /\ ~MayRemove
     IN  \/ refused /\ NoFault /\ UNCHANGED <<row, overlay, journal>>
         \/ /\ ~refused /\ NoFault
            /\ status' = "discarded" /\ resume' = NoStatus /\ overlayRoot' = FALSE
            /\ overlay' = IF inspected THEN "absent" ELSE overlay
            /\ journal' = IF inspected THEN NoJournal ELSE journal
            /\ UNCHANGED <<cancelRequested, summary>>
         \/ /\ ~refused /\ Fault
            /\ IF inspected
               THEN \/ overlay' \in {"intact", "unmarked"} /\ journal' \in {journal, NoJournal}
                    \/ overlay' = "absent" /\ journal' = NoJournal
               ELSE UNCHANGED <<overlay, journal>>
            /\ UNCHANGED row
  /\ UNCHANGED <<dataset, staging, rollback, backup, startup, thread, cancel>>

-----------------------------------------------------------------------------
(* Crash, restart and startup recovery                                     *)

ThreadGone ==
  /\ pc' = "idle"
  /\ update' = NoUpdate
  /\ rollbackCreated' = FALSE /\ stagingPromoted' = FALSE /\ restored' = FALSE
  /\ outcome' = NoJournal

Crash ==
  /\ core # "down"
  /\ Fault
  /\ core' = "down" /\ verdict' = NoJournal
  /\ ThreadGone
  /\ cancel' = "idle" /\ discard' = "idle"
  /\ UNCHANGED <<disk, row>>

\* An orderly exit while no pipeline thread is alive.
Stop ==
  /\ core = "up" /\ pc = "idle" /\ cancel = "idle" /\ discard = "idle"
  /\ core' = "down"
  /\ UNCHANGED <<disk, row, verdict, thread, api, faults>>

\* mark_interrupted over page_active_jobs.
Boot ==
  /\ core = "down"
  /\ core' = "scan"
  /\ IF status \in NonInterruptible
     THEN UNCHANGED <<status, resume>>
     ELSE status' = "interrupted" /\ resume' = ResumeAfterInterrupt(status, resume)
  /\ UNCHANGED <<overlayRoot, cancelRequested, summary, disk, verdict, thread, api, faults>>

\* An exception in startup_recovery ends the process: the API is never served.
Abort == core' = "down" /\ verdict' = NoJournal

\* recover_pending_commits finds the overlay and reads its journal.
ScanOverlay ==
  /\ core = "scan"
  /\ CASE ~overlayRoot -> core' = "up" /\ UNCHANGED <<overlayRoot, verdict>>
       [] overlayRoot /\ overlay = "absent" ->
            core' = "up" /\ overlayRoot' = FALSE /\ UNCHANGED verdict
       [] overlayRoot /\ overlay = "unmarked" -> Abort /\ UNCHANGED overlayRoot
       [] OTHER ->
            /\ UNCHANGED overlayRoot
            /\ verdict' = IF journal \in ResolvedJournals THEN journal ELSE NoJournal
            /\ core' = CASE journal = NoJournal -> "up"
                         [] journal \in ResolvedJournals -> "sweep_staging"
                         [] journal = "rollback_created" ->
                              IF dataset # "absent" /\ rollback = "absent" /\ staging # "absent"
                              THEN "drop_staging" ELSE "promote"
                         [] OTHER -> "restore"
  /\ UNCHANGED <<status, resume, cancelRequested, summary, disk, thread, api, faults>>

\* A stage of recover(): its disk effect, then the next stage.
Recovering(stage) ==
  /\ core = stage
  /\ UNCHANGED <<backup, overlay, row, thread, api>>

SweepStaging ==
  /\ Recovering("sweep_staging")
  /\ core' = "sweep_rollback"
  /\ IF dataset # "absent" /\ staging # "absent"
     THEN \/ staging' = "absent" /\ NoFault
          \/ staging' = "partial" /\ Fault
     ELSE UNCHANGED staging /\ NoFault
  /\ UNCHANGED <<dataset, rollback, journal, verdict>>

SweepRollback ==
  /\ Recovering("sweep_rollback")
  /\ IF verdict = "committed" /\ dataset # "absent" /\ rollback # "absent"
     THEN \/ rollback' = "partial" /\ UNCHANGED <<core, verdict>> /\ NoFault
          \/ rollback' = "absent" /\ core' = "conclude" /\ UNCHANGED verdict /\ NoFault
          \/ Abort /\ Fault /\ UNCHANGED rollback
     ELSE core' = "conclude" /\ NoFault /\ UNCHANGED <<rollback, verdict>>
  /\ UNCHANGED <<dataset, staging, journal>>

\* Mutant of RecoverDataset: the rollback directory is not renamed back.
RecoverDatasetSkipped ==
  /\ Recovering("restore")
  /\ core' = "drop_staging" /\ NoFault
  /\ UNCHANGED <<dataset, staging, rollback, journal, verdict>>

RecoverDataset ==
  /\ Recovering("restore")
  /\ IF dataset = "absent" /\ rollback # "absent"
     THEN \/ /\ dataset' = Reinstated(rollback) /\ rollback' = "absent"
             /\ core' = "drop_staging" /\ UNCHANGED verdict /\ NoFault
          \/ Abort /\ Fault /\ UNCHANGED <<dataset, rollback>>
     ELSE core' = "drop_staging" /\ NoFault /\ UNCHANGED <<dataset, rollback, verdict>>
  /\ UNCHANGED <<staging, journal>>

DropStaging ==
  /\ Recovering("drop_staging")
  /\ \/ staging = "absent" /\ core' = "record" /\ UNCHANGED <<staging, verdict>> /\ NoFault
     \/ /\ staging # "absent"
        /\ \/ staging' = "partial" /\ UNCHANGED <<core, verdict>> /\ NoFault
           \/ staging' = "absent" /\ core' = "record" /\ UNCHANGED verdict /\ NoFault
           \/ Abort /\ Fault /\ UNCHANGED staging
  /\ UNCHANGED <<dataset, rollback, journal>>

\* Mutant of RecordVerdict: the journal is not rewritten.
RecordVerdictUnwritten(stage, state) ==
  /\ Recovering(stage)
  /\ verdict' = state /\ core' = "conclude" /\ NoFault
  /\ UNCHANGED <<dataset, staging, rollback, journal>>

RecordVerdict(stage, state) ==
  /\ Recovering(stage)
  /\ \/ journal' = state /\ verdict' = state /\ core' = "conclude" /\ NoFault
     \/ Abort /\ Fault /\ UNCHANGED journal
  /\ UNCHANGED <<dataset, staging, rollback>>

\* Mutant of PromoteStaging: the rollback is dropped without the second rename.
PromoteStagingSkipped ==
  /\ Recovering("promote")
  /\ core' = "drop_rollback" /\ NoFault
  /\ UNCHANGED <<dataset, staging, rollback, journal, verdict>>

\* The first rename was journaled: go forward if the dataset path is free.
PromoteStaging ==
  /\ Recovering("promote")
  /\ IF dataset = "absent" /\ staging # "absent"
     THEN \/ /\ dataset' = Promoted(staging) /\ staging' = "absent"
             /\ core' = "drop_rollback" /\ UNCHANGED verdict /\ NoFault
          \/ Abort /\ Fault /\ UNCHANGED <<dataset, staging>>
     ELSE /\ IF dataset = "absent" THEN Abort ELSE core' = "drop_rollback" /\ UNCHANGED verdict
          /\ NoFault
          /\ UNCHANGED <<dataset, staging>>
  /\ UNCHANGED <<rollback, journal>>

RecoverDropRollback ==
  /\ Recovering("drop_rollback")
  /\ \/ rollback = "absent" /\ core' = "record_committed" /\ UNCHANGED <<rollback, verdict>> /\ NoFault
     \/ /\ rollback # "absent"
        /\ \/ rollback' = "partial" /\ UNCHANGED <<core, verdict>> /\ NoFault
           \/ rollback' = "absent" /\ core' = "record_committed" /\ UNCHANGED verdict /\ NoFault
           \/ Abort /\ Fault /\ UNCHANGED rollback
  /\ UNCHANGED <<dataset, staging, journal>>

\* The job's fate follows from the verdict and the status it was frozen in.
Conclude ==
  /\ core = "conclude"
  /\ LET was == IF status = "interrupted" /\ resume # NoStatus THEN resume ELSE status
         fate == IF verdict = "committed" /\ was = "committing" THEN "succeeded"
                 ELSE IF verdict = "rolled_back" /\ was \in {"exporting", "committing", "cancelling"}
                 THEN "failed" ELSE status
     IN  /\ status' = fate
         /\ resume' = IF fate = status THEN resume ELSE NoStatus
  /\ core' = "up" /\ verdict' = NoJournal
  /\ UNCHANGED <<overlayRoot, cancelRequested, summary, disk, thread, api, faults>>

Recovery ==
  \/ ScanOverlay \/ SweepStaging \/ SweepRollback \/ RecoverDataset \/ DropStaging
  \/ RecordVerdict("record", "rolled_back")
  \/ PromoteStaging \/ RecoverDropRollback
  \/ RecordVerdict("record_committed", "committed")
  \/ Conclude

-----------------------------------------------------------------------------
(* The export module has started and the runner is at work on its samples. *)
Init ==
  /\ dataset = "old" /\ staging = "absent" /\ rollback = "absent" /\ backup = FALSE
  /\ overlay = "intact" /\ journal = NoJournal
  /\ status = "exporting" /\ resume = NoStatus /\ overlayRoot = TRUE
  /\ cancelRequested = FALSE /\ summary = "running"
  /\ core = "up" /\ verdict = NoJournal
  /\ pc = "runner" /\ update = NoUpdate
  /\ rollbackCreated = FALSE /\ stagingPromoted = FALSE /\ restored = FALSE
  /\ outcome = NoJournal
  /\ cancel = "idle" /\ discard = "idle" /\ faults = 0

Failing == FailRunner \/ \E p \in Fallible : FailAt(p)

User == BeginCancellation \/ SettleCancellation \/ RecoverJob \/ InspectDiscard \/ DiscardJob

Next == Pipeline \/ Failing \/ User \/ Crash \/ Stop \/ Boot \/ Recovery

\* The thread, the requests being served and the startup scan run on; an operator
\* keeps restarting the backend.
Fairness ==
  /\ WF_vars(Pipeline) /\ WF_vars(SettleCancellation) /\ WF_vars(DiscardJob)
  /\ WF_vars(Recovery) /\ WF_vars(Boot) /\ WF_vars(Stop)

Spec == Init /\ [][Next]_vars /\ Fairness

-----------------------------------------------------------------------------
(* Properties                                                              *)

TypeOK ==
  /\ dataset \in {"absent", "old", "new", "torn"}
  /\ staging \in {"absent", "partial", "complete"}
  /\ rollback \in {"absent", "old", "partial"}
  /\ backup \in BOOLEAN
  /\ overlay \in {"intact", "unmarked", "absent"}
  /\ journal \in JournalStates \cup {NoJournal}
  /\ status \in JobStatuses /\ resume \in JobStatuses \cup {NoStatus}
  /\ overlayRoot \in BOOLEAN /\ cancelRequested \in BOOLEAN
  /\ summary \in ModuleStatuses
  /\ core \in {"down", "up"} \cup StartupStages
  /\ verdict \in ResolvedJournals \cup {NoJournal}
  /\ pc \in ThreadStages
  /\ update \in [to : JobStatuses, next : ThreadStages]
  /\ rollbackCreated \in BOOLEAN /\ stagingPromoted \in BOOLEAN /\ restored \in BOOLEAN
  /\ outcome \in JournalStates \cup {NoJournal, "unwritten"}
  /\ cancel \in {"idle", "settle"}
  /\ discard \in JournalStates \cup {NoJournal, "idle", "no_overlay"}
  /\ faults \in 0 .. MaxFaults

\* Whatever crashes or fails, and wherever: the dataset path holds one whole version,
\* or it is absent and the original still lies complete next to it (commit, recover).
DatasetSurvives ==
  \/ dataset \in {"old", "new"}
  \/ dataset = "absent" /\ rollback = "old"

\* Until the verified backup exists the original annotations are never touched (commit
\* writes the ZIP before either rename).
OriginalRecoverable == dataset = "old" \/ backup

\* Only a job that entered `committing` ever moves its dataset: a cancelled, reviewed
\* or merely exporting job still has the original at its path, so that recover_job and
\* a new export start from it.
OnlyCommitMovesDataset ==
  dataset # "old" =>
    \/ status \in {"committing", "succeeded", "failed", "discarded"}
    \/ status = "interrupted" /\ resume = "committing"

\* While the dataset is missing from its path, what startup needs to bring it back is
\* on disk and reachable from the jobs row: no failure path and no discard loses it.
AbsentDatasetIsJournaled ==
  dataset = "absent" =>
    /\ journal \in {"backup_verified", "rollback_created", "rollback_required"}
    /\ overlay = "intact" /\ overlayRoot

\* A startup that gets as far as serving the API leaves a dataset at its path and no
\* journal to resolve, so recover_job never meets a half-done switch
\* (startup_recovery: "resolves persisted commit journals").
StartupResolves ==
  [][core # "up" /\ core' = "up"
       => /\ dataset' # "absent"
          /\ journal' \in {NoJournal, "committed", "rolled_back"}]_vars

\* A dataset that left its path is put back, by the handler or after restarts.
DatasetReturns == dataset = "absent" ~> dataset # "absent"

\* commit() implements the switch of DatasetSwitch, recovery included.
Switch == INSTANCE DatasetSwitch WITH
  content <- IF dataset \in {"new", "torn"} THEN dataset ELSE "old",
  visible <- dataset # "absent",
  saved <- backup
SwitchSpec == Switch!Spec

\* A resolved journal tells the truth about the dataset, and so does the job's success.
JournalTruthful ==
  /\ journal = "committed" \/ status = "succeeded" => dataset = "new"
  /\ journal = "rolled_back" => dataset = "old"

\* It does as long as no third fault strikes; MCExportCommit shows what a third one does.
TruthfulWithinTwoFaults == faults <= 2 => JournalTruthful
=============================================================================

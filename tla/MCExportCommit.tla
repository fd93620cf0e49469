--------------------------- MODULE MCExportCommit ---------------------------
(***************************************************************************)
(* What happens to a dataset, for TLC: the directory switch of a commit    *)
(* (ExportCommit), with the number of faults that a question needs, the    *)
(* restorations that switch the same directories (AnnotationRestore), and  *)
(* what one of its samples goes through from job to job (SampleText).  A   *)
(* behaviour is of one of the three.                                       *)
(***************************************************************************)
EXTENDS ExportCommit

CONSTANTS
  Restores, Exports,
  Configs, Counts, UserTexts, UserShapes, Indexes, MaxJobs, MaxCrashes

VARIABLES
  promoted, up, overlapped,
  txt, json, record, phase, config, start, repair, original, jobs, at, sample, issue, staged, file, ovTxt, ovJson,
  mark, step, out, crashes

\* It shares the directories, overlay, journal, pc and faults.
Restore == INSTANCE AnnotationRestore
Sample == INSTANCE SampleText
commitVars == <<backup, row, startup, update, locals, api>>
switchVars == <<promoted, up, overlapped>>
textVars ==
  <<txt, json, record, phase, config, start, repair, original, jobs, at, sample, issue, staged, file, ovTxt, ovJson,
    mark, step, out, crashes>>

\* Everything, replace alone, everything but replace; incremental and anew.
TextJob(mode, enabled, fresh, format) ==
  [mode |-> mode, fallback |-> TRUE, enabled |-> enabled, fresh |-> fresh, format |-> format, index |-> "i"]
AllOn == {"caption", "classify", "replace", "dropout"}
MCConfigs ==
  {TextJob("tag", AllOn, FALSE, "both"), TextJob("tag", {"replace", "dropout"}, FALSE, "json"),
   TextJob("nl", AllOn \ {"replace"}, TRUE, "flat_txt")}
MCUserTexts == {{}, {[kind |-> "source", rounds |-> [i \in Indexes |-> 0]]}}

ASSUME RestoreAssumption == Restore!Distinct
ASSUME SampleAssumption == Sample!TextAssumption

\* What the programs that do not run have.
NoSwitches == promoted = {} /\ up = "off" /\ overlapped = FALSE
NoCommit ==
  /\ backup = FALSE /\ status = "succeeded" /\ resume = NoStatus /\ overlayRoot = FALSE
  /\ cancelRequested = FALSE /\ summary = "completed" /\ core = "off" /\ verdict = NoJournal
  /\ update = NoUpdate /\ rollbackCreated = FALSE /\ stagingPromoted = FALSE /\ restored = FALSE
  /\ outcome = NoJournal /\ cancel = "off" /\ discard = "off"
NoSample ==
  /\ txt = {} /\ json = {} /\ record = {} /\ phase = "none" /\ config = {} /\ start = "caption" /\ repair = FALSE
  /\ original = "missing_or_blank" /\ jobs = 0 /\ at = "workspace" /\ sample = "completed" /\ issue = "none"
  /\ staged = {} /\ file = {} /\ ovTxt = {} /\ ovJson = {} /\ mark = {} /\ step = "none" /\ out = {} /\ crashes = 0

CommitInit == Init /\ NoSwitches /\ NoSample
CommitSpec ==
  /\ CommitInit
  /\ [][Next /\ UNCHANGED <<switchVars, textVars>>]_<<vars, switchVars, textVars>> /\ Fairness
RestoreInit == Restore!Init /\ NoCommit /\ NoSample
RestoreSpec ==
  /\ RestoreInit
  /\ [][Restore!Next /\ UNCHANGED <<commitVars, textVars>>]_<<vars, switchVars, textVars>>
SampleInit == Sample!Init /\ Init /\ NoSwitches
SampleSpec ==
  /\ SampleInit
  /\ [][Sample!Next /\ UNCHANGED <<vars, switchVars>>]_<<vars, switchVars, textVars>>

\* Whoever switches the dataset at a time, and wherever one step fails or the process dies
\* once (several, when switches do not overlap), a whole copy of it stands beside the path
\* when none stands at it: the user can always put it back (AnnotationRestoreCoordinator.restore,
\* ExportCommitCoordinator.commit).
WholeTreeStands == Restore!WholeTreeStands

\* What an ordinary job publishes is the work it was asked for: the JSON went through every
\* enabled module, in order and once, whatever was paused, killed and recovered in between;
\* only a replacement that the dataset's record vouches for is left out (the runners, their
\* overlays, BoundedScheduler.recover).
WorkPublished == Sample!WorkPublished

\* The record of a replacement never vouches for a JSON that was not replaced: a later job
\* that trusts it and skips the sample is right to do so (replace_provenance.py).
MatchMeansReplaced == Sample!MatchMeansReplaced

-----------------------------------------------------------------------------
(* What comments, tests and the lifecycle design say of the commit, each   *)
(* checked against what the code does.                                     *)

\* export_commit.py:306: "A failed commit must not leave a full hard-link mirror of
\* the dataset behind; only a rollback that still needs recovery keeps its staging
\* tree".  Without a rollback directory nothing needs recovery.
FailedCommitLeavesNoMirror ==
  /\ status = "failed" /\ pc = "idle" /\ core = "up"
  /\ journal # NoJournal /\ staging = "complete"
  => rollback = "old"

\* pipeline_recovery.py:168: a job whose overlay is gone is "a resolved terminal state;
\* only the stale pointer is left".
PrunedOverlayIsTerminal ==
  core = "up" /\ pc = "idle" /\ ~overlayRoot => status \in TerminalStatuses

\* test_pipeline.py:711: "A pruned overlay used to abort the whole startup scan."  No
\* overlay may: restarts bring the backend up again and again.
BackendBoots == []<>(core = "up")

\* 2026-08-16-job-lifecycle-controls-design.md:46: a cancellation writes a barrier, no
\* new work is taken up after it.  The directory switch is new work.
CancellationBarrier ==
  [][(status \in {"cancelling", "cancelled_recoverable"}
       => status' \notin {"committing", "succeeded"})]_vars

\* 2026-08-16-job-lifecycle-controls-design.md:34: a cancelled job stays recoverable.
\* With no fault at all no job should come to fail.
CancelledStaysRecoverable == status # "failed"
=============================================================================

# Verification of the Anima IDG control plane

Anima IDG turns a directory of images and annotations into an annotated training
dataset. A local backend (`src/core/src/anima_core`) keeps every job in one SQLite
database, runs a job's modules (caption, classify, replace, ocr, nl, count review,
dropout, token budget, export) one after the other on a pipeline thread that leases
samples to worker processes, and publishes the result by switching two directories
under a commit journal. A browser client polls the API and pauses, cancels, resumes,
recovers, discards and repairs jobs.

This directory holds TLA+ models of that backend, the TLC configurations that check
them, and TLAPS proofs. `PROJECT.json` lists for every modelled definition the source
lines it stands for, every run, every property with a mutant of the code that breaks
it, the hazards and the findings.

## The system

| Component | State | Operations | Talks to |
|---|---|---|---|
| Status vocabulary (`state_machine.py`, `db_schema.py`, `db_primitives.py`) | `jobs.status`, `resume_status`, `current_module_id`, `module_summary.status` | `set_job_status`, `transition_*`, the status sets of startup, cancel, discard | every other component |
| Pipeline service (`pipeline.py`, `pipeline_dispatch.py`, `pipeline_recovery.py`) | one thread per job, a thread table under a lock | start, pause, pre-pause, resume, recover, shutdown, startup recovery | scheduler, runners, export commit |
| Scheduler and queue (`scheduler.py`, `db_scheduler.py`) | `sample_state` rows with leases, module summaries | start/finish module, claim, heartbeat, complete, fail, release, reclaim, recover | database, runners |
| Runners and overlay writers (`*_runner.py`, `*_overlay.py`) | leases of the current batch, staged artifacts | hello, process_batch, settle one sample | worker process over stdio, scheduler, overlay |
| Workers of the pure modules (`src/workers/*`) | none between two batches | caption, classify, replace, normalise: one outcome per item | the runner that started them |
| OCR runner and worker (`ocr_runner.py`, `ocr_protocol.py`, `workers/ocr`) | the job's runtime binding, sidecars | bind, reuse, detect, commit, recover | the machine's cards, parent jobs |
| Export commit (`export_commit.py`, `export_staging.py`, `annotation_backup.py`, `commit_journal.py`) | dataset, staging, rollback directory, backup ZIP, journal | `commit`, `recover` | file system, overlay, jobs row |
| Annotation restore (`annotation_restore.py`) | the same directories under a one-shot overlay | restore the original annotations | directory switch |
| NL requests (`nl_runner.py`, `nl_overlay.py`, `db_nl_export.py`) | `request_started`, `response_staged`, staged answers, attempt counters | paid API calls, confirmation of unknown outcomes | external API |
| Count review (`count_review_*`, `db_count_review.py`) | evidence, decisions with versions | initialise, edit, bulk edit, confirm, apply | classify, NL answers, overlay |
| Token budget (`token_budget_*`) | records, proposals, rewrite operations, review leases | count, recount, apply, rewrite, gate | overlay, scheduler, external API |
| Preflight, claims, retention (`job_preflight.py`, `locks.py`, `workspace.py`, `retention.py`) | claim rows, lock files, overlay directories | confirm, claim, discard, prune | file system |
| Resource library (`resource_catalog*.py`, `classify_resource.py`, `custom_*.py`, workers' `resource.py`) | packages on disk, defaults, hash and compatibility caches, the references frozen in `config_json`, copies in the overlay | scan, resolve, freeze, select, load | preflight, pipeline, runners, workers |
| Repair jobs (`repair.py`) | parent/child links | derive a job from issues, take over its claim and binding | claims, pipeline |
| Installer (`packaging/installer/*.py`) | component trees, transaction journal, install state | download, assemble, probe, publish, roll back | file system, download hosts |
| Publication scripts (`packaging/scripts/ocr_*.py`, `tokenizer_resource.py`) | runtimes, locks, wheelhouses, manifests, packages; no journal | import, install, reset | file system, the installed runtimes |

What is hard here: every API call runs on its own thread with its own database
connection and races the pipeline thread between any two statements; the process can be
killed between any two file operations or statements; `set_job_status` reads, checks and
writes without a transaction; worker processes die in the middle of a batch; paid answers
get lost; the resources a job was shown at the preflight change before its modules load
them; the files that one worker writes are read back by the next one, by a later job
or by a repair; and recovery has to interpret whatever combination of rows, journal and
directories is left.

What makes each component correct is stated by the properties under **Runs**;
`PROJECT.json` relates them to the hazards, line by line.

## Modules

| Module | What it is |
|---|---|
| `JobStatus` | the two transition tables and the predicates rows are filtered with; every model of a job extends it |
| `DatasetSwitch` | abstract: a dataset that is old or new, may be out of sight for a moment, and changes only after its backup exists |
| `ExportCommit` | the end of the export module, `commit()` step by step, its handler, cancel / recover / discard, crash, restart, startup scan and `recover()` |
| `AnnotationRestore` | restore-original requests and a commit that switch the same directory |
| `SampleFlow` | abstract: samples go through modules one by one, each finished or given up once, and none enters a module while another has work in the one before |
| `ModuleRun` | the pipeline thread from module to module, the batch runner, leases, worker restarts, pause, pre-pause, resume, cancel, recover, crash |
| `NlRequests` | the NL runner: requests with unknown outcome, attempt budget, circuit breaker, staged answers, confirmation |
| `CountReview` | the count review: decisions of several clients against the runner, pauses, recovery |
| `TokenBudget` | the token budget module, its review requests, leases and sweeps, the export gate |
| `OcrRun` | one OCR batch under the job's runtime binding, on a machine that changes |
| `DatasetClaim` | lock file, claim row and overlay of the jobs of one dataset, repairs, discard, startup and retention |
| `SampleText` | one sample's annotation through caption, classify, replace, dropout and export of several jobs and their repairs |
| `CountRules` | the subject count of classify as pure operators |
| `Annotations` | caption text, classification, replacement, dropout and normalisation as pure operators |
| `Exchange` | the batches of caption, classify, replace, dropout and export: items, one exchange with the worker, settling |
| `Install` | a run of the installer under its transaction journal |
| `Download` | the download loop of one artifact |
| `Publication` | the scripts that import or install OCR and tokenizer artifacts: presence, staging, publication with its undo, clean-up |
| `Manifests` | what the core accepts as a resource package, a classification index, a custom CSV: pure operators |
| `WorkerManifests` | what each worker accepts as its resource, by rules of its own |
| `Resources` | one job's resources from the preflight to the worker, over a library that changes |
| `MC*` | the constants of the runs and, in `MCExportCommit` and `MCModuleRun`, statements of docs, comments and tests that the code does not keep. `MCExportCommit` also hosts `AnnotationRestore` and `SampleText`, `MCModelRuns` hosts `OcrRun` and `NlRequests`, `MCExchange` hosts `Exchange` and `Resources`: a behaviour of these is of one of the programs, the variables of the others stand still |
| `ExportCommit_proofs`, `ModuleRun_proofs`, `ModelRuns_proofs`, `Exchange_proofs`, `Install_proofs`, `CountReview_proofs`, `TokenBudget_proofs`, `DatasetClaim_proofs` | theorems |

The components meet through the job's status and the overlay. `ModuleRun` is the frame:
`NlRequests`, `CountReview`, `TokenBudget` and `OcrRun` each replace its generic module by
one that keeps more state, and say in their header what of the frame they leave out;
`ExportCommit` continues where a module run has ended; `Exchange` and `SampleText` open the
step that `ModuleRun` takes from a leased to a completed sample; `DatasetClaim` reduces a
run to its status and has what is around it; `Resources` reduces a module to the resource it
loads.

### ExportCommit

`pc` is the pipeline thread: every value is a place in `_run`, `start_module`,
`ExportRunner.run`, `commit()` or its handler from which one file operation or one SQL
statement follows. `core` is the backend: `down`, `up` or a stage of
`recover_pending_commits` / `recover()`. The directories are abstracted to what they
hold (`old`, `new`, `torn`, `partial`, `absent`); file contents, path safety and
capacity arithmetic are left out, their failures are not: every step of `commit()` and
`recover()` that can raise has a failing alternative that costs one unit of `MaxFaults`,
and so does a crash. `BeginUpdate` and `CompleteUpdate` are the two halves of
`set_job_status`. `rmtree` may stop half-way, which leaves `partial` or `unmarked` trees.
`cancel` and `discard` are the two requests that take more than one step. `InspectDiscard`
reads the overlay and its journal before the transaction, `DiscardJob` is the transaction: it
decides with the journal read before, and removes the overlay if the journal it finds then
(`MayRemove`) allows it. The second read and the removal are one step: the transaction keeps
every status update out, and with a status it accepts the thread is at no step from the first
rename on (in every state of the run). A removal or a COMMIT that fails leaves the row and what
is left of the overlay.
Pausing the export module is not part of this model.

### AnnotationRestore

`pc[a]` is the step a restoration (`restore_original_annotations`) or a commit is at; a
tree is absent, partial, or whole and then named for whoever made it, so that a switch that
throws away another's tree is seen. A failing step goes to the handler, which puts the
rollback directory back; a crash leaves everything, and the next startup recovers the
commit's journal only. `overlapped` is a history: it delimits where the property about single
switches applies.

### ModuleRun

`sample[s]`, `at[s]` are a `sample_state` row, `summary`, `started`, `completed`,
`failed`, `restarts` the `module_summary` rows, `written[s]` the last module whose
artifact the overlay holds. `held` is the runner's `active` list and `todo` the part of
it whose input is still to be read. A SQL statement or an immediate transaction is one
action; `start_module`, the batch loop of `ClassifyRunner.run` and the `write`/`complete`
pair are split where other threads can come between. Releasing several leases in a row is
one action, because the only reader of the intermediate states counts them, and sees
"some" either way. Every module is enabled, the first one has been started over its
pending samples (`Init`), and the job leaves the model when it is `exporting` or
`reviewing`. One cancel request is served at a time. A lease may expire at any claim;
in `recover` a prepared artifact may turn out to be gone or altered (a fault).

### NlRequests

`sample[s]` walks through `leased`, `request_started`, `response_staged`, `prepared`; a
request is "unknown" (history) from the moment the worker has the batch until the core has
its outcome. `attempts`, `extra`, `window` and `streak` are the persisted counters. The
answers of a batch arrive one by one in any order; each is staged, written and committed in
separate steps, between which a crash, a lost worker or a status change may fall.
`confirm_unknown` of the API, the circuit breaker and the pause codes are actions of the
code's own conditions. Prompts and texts are left out.

### CountReview, TokenBudget

`CountReview` has `count_review_decisions` with their versions, the pages of two clients
(`seen`), the runner that initialises decisions page by page, waits in `reviewing` and
applies them, and the confirmation that restarts it. `Inputs` are pairs of a classify
evidence and an observation; `Decide` is the code's automatic decision.

`TokenBudget` numbers texts: 0 before any count, 1 what the module wrote, v > 1 the proposal
of version v. `req[q]` is a request of the review (recount, apply, rewrite, page) at one of
its steps: each of them begins with the sweep that resets stale applies, which is what makes
them interfere. `used` and `reserved` are the paid attempts. The gate compares each text
with the record of its count.

### OcrRun

One batch, split at the selection of the runtime, the hello, the binding (written once, by
compare-and-set), the leases, the exchange, the sidecar and the completion. `cards` may
change at any moment. Answers have sizes: outcomes after `PayloadLimit` become failures, and
a frame over `FrameLimit` is not sent, as in the worker. `Parents` are the bindings a repair
child may find, `Leftovers` the sidecars of earlier jobs, which are reused when image, binding
and limit agree.

### DatasetClaim

`prep` and `drop` are a confirmation (or repair) and a discard at one of their steps: lock,
control record, claim row, overlay, and every undo when a later step fails. `identity` is the
file identity of the dataset directory, which names the lock file and changes with a switch:
that is how two handles may coexist. `commits` are the jobs whose thread is inside the export's
commit, which goes on whatever happens to the status. A confirmation of a job that is not
`ready` is an action of its own (`RefuseConfirm`, counted with the faults): the refusal is raised
where every error marks the job as failed. `boot` is the startup: claims of dead jobs, retention
(`prune`) with its overlay-then-record order, and the foreign key of repair children.

### SampleText, CountRules, Annotations, Exchange

`SampleText` keeps, for one sample, the dataset's TXT and JSON, the job's overlay, the
replacement's mark (overlay) and record (dataset), and `path`, the history of what an
annotation went through. Storing an answer takes the code's steps (write, mark, commit), and
a crash may fall between any two. A later job and a repair child begin with what the earlier
ones left.

`Exchange` has a whole batch. `phase` is the place in the runner's loop (`claim`, `build`,
`send`, `reply`, `settle`); `WorkerComputes` evaluates the worker, whose functions are the
operators of `Annotations` and `CountRules`; the answer is matched to the leases whatever its
order. A string field is a sequence of parts, a text a sequence of words, a tag a model value
with the forms it takes when shown with or without escapes (`Shown`), read back (`Recovered`)
and exported (`Displayed`). These tables are constants because the transformation of
characters is not what the properties are about; the instances fill them with the values the
code computes for the tags named there.

### Install, Download, Publication

`Install` follows `run_install`: recovery of the journal, plan, assembly, probe, fallback,
promotion (backup, rename and journal write as separate steps), manifests, install state,
clean-up. A tree is known by what made it, `torn` is one that was removed in part. `Download`
has the resume loop with a server that answers as it likes; in `Install` a fetch is verified
or raises.

`Publication` has the six scripts that publish and one that resets. A target holds the number
of the build that staged it, so that a mixture of two builds is seen; `found` remembers what
stood there when the script started. Staging is one step that may fail, its content is decided
by the operators above it (what a component, an inventory of wheels or an official tokenizer
must satisfy); setting aside, putting in and each undo are single file operations. There is no
journal: `hidden` siblings are found again by the process that made them only. `MCInstall`
runs the installer or the scripts, each over its own targets.

### Manifests, WorkerManifests, Resources

A package is its manifest (a record whose fields are the members of `resource.json`), its files
(size, stamp, data) and further directories; a digest is the data itself. `Manifests` has the
core's validation, the hash cache with its key of place, size, stamp and digest, and the deeper
reading of a classification index; `WorkerManifests` the validation, the pinned values and the
initialisation of the six workers, which import nothing of the core.

`Resources` follows one job: `Preflight` resolves and freezes every section (`_resolve_resources`
with `freeze`), `ConfirmResolve` and `ConfirmFreeze` are the two halves of `confirm_workspace`
between which a file may change, and each module goes through `Select` (the dispatcher),
`RunnerCheck` (the runner) and `Load` (the worker). `WorkerLost` goes back to the selection,
`Repair` starts the same configuration over a new overlay, `Restart` empties the caches. `Change`
alters, adds, moves or removes a package, a custom file or a default. `accepted` remembers what
the preflight showed, `loaded` what workers took. Reduced: a refused preflight leaves the caches
as they were; the copy into the overlay is one step; a repair may be asked for without an issue;
the ids that `confirm_workspace` restores are always there; inference sessions and the
tokenizers library accept what the files say.

## Runs

`MaxFaults` bounds crashes and failing operations, `MaxExits` the worker exits per
module; the other constants are sizes. Each run starts from every state the code can be in
there (kinds of input, earlier jobs' files), not from one example.

| Run | Bounds | What it shows |
|---|---|---|
| `export_commit` | 4 faults | `DatasetSurvives`: one whole version is at the dataset path, or the original lies complete beside it. `OriginalRecoverable`: the original is at its path or in the verified backup. `AbsentDatasetIsJournaled`: while the path is empty, startup can find and resolve the journal. `TruthfulWithinTwoFaults`: journal and job status agree with the disk up to two faults. `StartupResolves`: a backend that serves has put a dataset back. `SwitchSpec`: refinement of `DatasetSwitch`. `DatasetReturns`: an absent dataset comes back |
| `module_run` | 2 modules, 2 samples, batch 2, page 1, 1 restart survived, 2 exits, 1 fault | `CountsMatch`: the summaries equal what the sample rows say. `FinishedTruthful`: a finished module has drained, its status names the failures. `LeasesAreHeld`: while a runner works everything in flight is its own, so expiry never decides anything. `FlowSpec`: refinement of `SampleFlow`. `ThreadEnds`, `CancellationDrains`: liveness |
| `nl_requests` | 2 samples, batch 2, 2 attempts per item, budget 3 and 1 extra, streak limit 2, window 3, 1 restart, 2 faults | `UnknownKept`: a request whose outcome the core has not seen keeps its mark until the user confirms. `BudgetKept`: counted attempts stay in the budget. `AnswersKept`, an action property: an answer leaves the staging only once the overlay has its text, and a sample whose answer is staged is not given back to be asked again (unless its prepared file is gone); the overlay loses no text; no sample completes without one |
| `count_review` | 2 samples, 2 counts, 2 clients, pages of 1, 3 versions, 1 fault | `AppliedAsDecided`: what is applied is what was decided last. `ReviewedBeforeApplied`: nothing is written while something waits for the user. `NoDecisionLost`: a saved decision is replaced only by a client that saw it |
| `token_budget` | 1 sample, 2 requests at a time, 4 in all, 3 versions, 3 attempts, 2 per rewrite, 1 fault | `ExportsWithinBudget`: only counted texts are exported. `AttemptsWithinBudget`: attempts made stay within those reserved and counted. `SettledStays`: a settled apply is never taken back |
| `ocr_run` | 2 samples, batch 2, CPU or CUDA, automatic or fixed limit, with no card or one of 12 or 24 GB, 1 restart, 2 faults, 1 change of the machine, 1 pause | `OneRuntime`: the worker that made a sidecar of the job really had the runtime, the build and the card of its binding, or an earlier job of the same dataset made it. `OutcomeReported`: an open issue exactly for the failed recognitions, also after recovery |
| `dataset_claim` | 3 jobs of one dataset, 1 success kept, 1 fault | `RunsOnOwnClaim`: a running job owns the claim unless it gave it to its repair. `RepairHasParent`: no discard or retention deletes a parent under its repair. |
| `dataset_claim_startup` | the same | the finding below |
| `annotation_restore` | 2 restorations, 1 commit, 2 faults | `WholeTreeStands`: when nothing stands at the path a whole copy stands beside it. |
| `sample_text` | 3 jobs and their repairs, 3 configurations, TXT absent or present, 4 shapes of the JSON, 2 counts, 1 index, 2 crashes | `WorkPublished`: what an ordinary job publishes went through each enabled module once. `MatchMeansReplaced`: the record of a replacement is true |
| `exchange` | 9 configurations, 24 kinds of sample (each beside a plain one), all sets of at most 3 of 10 count tags, 3 samples around the frame limit, 5 in one batch, 1 restart, 2 faults | `OwnAnswer`: however the answer is ordered, shortened, repeated or mislabelled, a sample gets its own outcome. `FailureHasACause`: without a fault a job fails only for the inputs named there. `DecidedCountHolds`: a count decided from tags alone is implied by every reading of them. `CaptionIsReadBack`: classify reads the tags the model gave. Beside it, some 900 setups of `Resources`: `LoadedIsFrozen`: a worker works with what the preflight showed for its module, with the content its manifest records, but for the ONNX weights that the caption worker does not hash: these may differ, if a file changed. `PreflightIsEnough`: a job on files nobody touched fails on its resources only at the points of `Gap` |
| `install` | 5 components, 2 runs, 2 faults; or 2 scripts, 2 faults | `InstalledIsWhole`: a reported success is whole and of the recorded variant. `FailedRunRestores`: a failed assembly, probe or rename leaves every target as it was. `OneWriteBehind`: a failing journal write, which leaves the journal one rename behind the disk, costs one tree at most, and mixes none. `FailureRestores`: so does a script that reports an error, unless its undo fails too. `OldUntilAllIsNew`: what a script replaces stands at its target or beside it until everything new is in place |

Why the bounds are enough. Four faults cover a commit with a failing rename, a failing rename
back, a failing journal write and a crash, or a crash and three in successive recoveries. Two
samples with pages of one show a loop interrupted between samples and a batch that is settled
in part; two modules show the hand-over and the pre-pause. In `nl_requests` a budget of 3 with
2 samples of 2 attempts runs out in the middle of a batch, and the streak and the window close
at different points. Two requests on one sample show every overlap in `token_budget`, since
requests touch one sample each. Three jobs are a parent, its repair and a stranger. Two
restorations and a commit are every pair of kinds. In `sample_text` three jobs are enough for a
record that is written, trusted and made stale; the two crashes fall in different modules or
jobs. In `install` five components have one of each way to be planned and probed; a script and a
second one over what the first left are enough for every order of their file operations. Of
`Resources`, seven setups have one change of any file and one event (a lost worker, a restart, a
second preflight, a repair), one has two events; in the others one thing about one package,
custom file or configuration is altered, which is what a worker's extra rule needs to be seen
alone. The two sides of `exchange` share no state and run one at a time.

Fairness. `WF(Pipeline)` in `ModuleRun`, `ExportCommit` and `NlRequests`: a thread that can
run does; this includes the worker's answer (`Answer`), an assumption about the worker: the
transport reads without a deadline, so a worker that hangs holds its thread for ever.
`WF(Serve)`, `WF(SettleCancellation)`, `WF(DiscardJob)`, `WF(Recovery)`: a request or startup scan in progress
goes on. `WF(Boot)`, `WF(Stop)` in `ExportCommit`: the operator keeps starting and stopping the
backend; only `DatasetReturns` and `BackendBoots` need it. `WF(Next)` in `Download`: every read
ends with an answer or its timeout. No fairness is assumed for users, faults, crashes or worker
exits, and the other modules state safety only.

## Finding

`dataset_claim_startup`: `retention.py:87` deletes the control record of a succeeded job whose
repair child still has its row. The foreign key of `repair_jobs` refuses, nothing catches it,
and the startup raises, at every boot. `lifecycle.py:29` says that a job is not deleted before
its repair children are.

### Counterexamples kept beside the runs

These statements of docs, comments or tests are also refuted by what the code does. Each is a
definition of the module named first; put in place of the properties of that module's
configuration, it gives a short trace with the bounds in the last column.

| Module, definition | The statement | What happens | With |
|---|---|---|---|
| `MCExportCommit` `JournalTruthful` | a journal tells the truth | with three faults `recover()` journals `committed` over a dataset that was rolled back, and the job becomes `succeeded` without its export | 3 faults |
| `FailedCommitLeavesNoMirror` | a failed commit leaves no mirror | one that fails before the first rename keeps it | 1 fault |
| `PrunedOverlayIsTerminal` | an overlay is removed from terminal jobs | a crash after the removal and before `succeeded` leaves an `interrupted` job that nothing can recover | 1 fault |
| `BackendBoots` | the backend boots | an overlay directory without its marker stops every startup | 1 fault |
| `CancellationBarrier` | a cancellation is a barrier to the commit | one between the read and the write of `set_job_status` is overwritten | no fault |
| `CancelledStaysRecoverable` | a cancelled job stays recoverable | a cancellation while `commit()` validates fails the job | no fault |
| `MCModuleRun` `RecoveredModuleRuns` | recovery resumes the current module | pause, restart or cancel, recover: the summary is still `paused`, is taken for a pre-pause, and the job fails | 1 sample, no fault |
| `CancellingKeepsDraining` | a cancelling job drains | pause, then cancel while the runner leaves: the request leaves the settlement to the thread, the thread to the request | 1 sample, no fault |
| `PauseNeverFails` | a pause never fails a job | one between the runner's poll and its claim makes the claim empty with samples left, a protocol violation | 1 sample, no fault |
| `MCDatasetClaim` `OneWriter` | no two jobs write one dataset at a time (`2026-08-16-dataset-claim-conflict-design.md:11`) | a recovered parent runs beside the repair that took its claim, and another job follows the repair | as in the run |
| `MCModelRuns` `ConfirmsOnlyUncertain` | only crash-uncertain requests are given back (`db_nl_export.py:155`) | after a pause, requests whose exchange goes on are given back too | as in the run |
| `MCCountReview` `ReviewIsInitialised`, `MCTokenBudget` `ReviewIsCounted` | recovery resumes the current module (`2026-08-16-job-lifecycle-controls-design.md:48`) | the job goes back into a review that was never initialised, or has samples never counted | as in the runs |
| `MCInstall` `RollbackRestores` | a failed run rolls back (`test_source_bootstrap_paths.py:114`) | one failing `_write_journal` after a rename leaves the new component | as in the run |
| `MCSampleText` `OneRound` | "Replacement is a single non-recursive round" (`replace_overlay.py:37`) | a crash between commit and mark, a repair child, a TXT that is classified again or a changed count replace twice | `SampleTextOneRound.cfg` |
| `MCOcrRun` `UndisturbedJobRuns` | an undisturbed job runs | a heartbeat refuses more than 1000 lease ids, a batch may have 1024: an uncaught `ValueError` | `OcrFullBatch.cfg` |
| `Download` `DownloadEnds` | "failed after bounded …" (`download.py:305`) | a server that answers 200 to every Range request is asked for ever | `Download.cfg` |

### Also visible in the models

- `ModuleRun`: a crash between `finish_module` and the next module's activation makes recovery
  start a completed module, which fails; `worker_restart_count` is not reset within a job and
  module; `Activate` can overwrite a pause or a cancellation; an exit while a job is paused
  fails the job.
- `NlRequests`: a runner error during an exchange fails the job with requests of unknown
  outcome left; attempts of an exchange that is lost are never counted, although the frontend
  calls the budget a hard one.
- `CountReview`: a cancel between the runner's read of the status and its
  `set_job_status("reviewing")` fails the job; so does a pause or cancel between poll and claim.
- `TokenBudget`: a stale apply may overwrite the record of a newer one, and then the gate
  blocks for ever; two identical concurrent rewrites both send; every page request resets a
  live apply of another request; a sweep can reset a prepared apply whose later commit
  overwrites a newer text.
- `OcrRun`: the failures after the payload limit are still some 500 bytes each, so a large
  batch may exceed the frame; the recovery of prepared sidecars never finds one; a CPU worker's
  exit while paused fails the job with leases left; one image that makes `predict_batch` raise
  fails its batch; a repair child of a parent that never wrote a binding always fails.
- `DatasetClaim`: confirming a job a second time, while it runs, is reviewed or is being
  committed, marks it as failed (the docs speak of a failure after the preparation has begun,
  `2026-08-16-dataset-claim-conflict-design.md:20`); `ModuleRun` and `ExportCommit` have no such
  confirmation; a concurrent confirm and discard leaves an overlay without a record; after a
  restart a failed or reviewing parent cannot be repaired; a failed confirm leaves its overlay
  directory.
- `AnnotationRestore`: with two faults and overlapping switches a partial rollback is put back
  and the startup then deletes the only whole tree; after a crash in a restoration nothing
  recovers the dataset and every retry is refused by the leftovers; a restoration takes no claim,
  so an overlapping export can be lost.
- `SampleText`: a repair child starts from the dataset's JSON, not from its parent's, and
  publishes bystanders as they stood before the parent; a resumed parent is then refused by
  `_verify_baseline`; a JSON without the nine fields fails the whole job at replace.
- `Exchange`: a dataset JSON with a duplicate tag kept by the incremental classify fails the
  whole job at replace; two series values, or an existing artist with an appended `@dir`, always
  fail the flat text export, which marks the issue retriable by a step that gives the same; a
  quality word that also stands in the tags collides at export; one changed image fails a
  caption job, but only its sample in dropout; a period that ends the last tag is lost between
  caption and classify, and a backslash before a symbol when escapes are off. An image whose
  stem ends in a dot or a space fails its job in most modules.
- `Resources`, the points of `Gap` in which a worker refuses what the preflight accepted. caption:
  a model whose vocabulary, thresholds, preprocessing or category names are not those its adapter
  pins, a version of more than 256 bytes, documents listed twice or among the files. classify:
  documents, nested files, roles that share a file, another wiki application or schema, an e621
  dictionary of another size than the pinned 120 978 entries, and everything the preflight only
  hashes of a bundled index (its dictionary, its wiki database, its count rules and pages).
  replace: rules and statistics of the bundled CSV, which the core hashes but does not count. ocr:
  another directory name, version, layout of roots or an empty directory. dropout: with quality off
  the selection still hashes the scorer that the preflight did not. token budget: a directory that
  is not named after the resource, a tokenizer the library cannot read.
- `Resources`: the ONNX weights (`modelData`) are hashed by the core only; weights that change at
  the same size between the selection and the worker, or behind the core's hash cache, are loaded
  in the name of the recorded ones. Any other content that changes with its size and stamp kept
  passes every later check of the
  same backend process, and only the worker refuses it; any default that is duplicated or gone
  makes every scan raise, so that running jobs fail at their next module whatever they use; each
  activation reads the whole library again; a repair of a job with a custom CSV always fails,
  because the CSV is not inherited, and one with a custom index fails once the parent's overlay
  is gone.
- `Install`: a crash between rename and journal write loses the previous component; when a
  promoted tree is not noted, recovery raises and the clean-up deletes journal and backups;
  after a CPU fallback the next nvidia run installs the component again, every time.
- `Publication`: a process that dies between the two renames of the wheelhouse leaves no wheel
  cache, and every later import is refused; one that dies after the runtime's rename and before
  its mirror's leaves a runtime of one build under manifest and lock of another, which verifies
  as complete, since the critical files are the interpreter and the worker's own sources; partial
  states make `install_optional_ocr` refuse for ever, and nothing ever looks for the hidden
  siblings; "no formal OCR target has been published on failure" (`ocr_resource.py:967`) is not
  so when removing a sibling fails; the GPU script installs without a complete CPU runtime, which
  `inspect_ocr_installation` then rejects.

## Proofs

Eight modules hold theorems, each about the module it is named for; `ExportCommit_proofs` is also
about `AnnotationRestore` and `SampleText`, `Exchange_proofs` about `Resources`, `Install_proofs`
about `Publication`, and `ModelRuns_proofs` is about `OcrRun` and `NlRequests`. `tlapm` checks every
obligation of theirs from nothing (`ModuleRun_proofs` and `ExportCommit_proofs` in about five
minutes each, `Install_proofs` in three, the others in one or two each). The theorems hold for every value of the constants that the named assumptions
allow: any number of samples, jobs, clients and requests, any budget, any number of crashes
and failing steps. The runs show the same formulas on the instances above. Every argument
has the same shape: an inductive invariant `IInv`, a lemma for each group of actions that it
is preserved, and the property as a consequence. What follows says what `IInv` had to add
to the property, since that is what the code relies on without saying it.

### ExportCommit_proofs

About `ExportCommit` it assumes only that the fault budget `MaxFaults` is a natural number. Proved:

| Theorem | States |
|---|---|
| `TypeCorrect` | `[]TypeOK` |
| `DatasetNeverLost` | `[]DatasetSurvives` |
| `OriginalKept` | `[]OriginalRecoverable` |
| `OnlyCommitMoves` | `[]OnlyCommitMovesDataset` |
| `AbsenceJournaled` | `[]AbsentDatasetIsJournaled` |
| `StartupServesResolved` | `StartupResolves`, an action property |
| `TruthfulUntilThirdFault` | `[]TruthfulWithinTwoFaults` |
| `WholeTreeKept` | `[]WholeTreeStands` of `AnnotationRestore`, for any number of jobs |
| `CommitImplementsSwitch` | `SwitchSpec`, the refinement of `DatasetSwitch` |
| `RecordIsTrue` | `[]MatchMeansReplaced` of `SampleText`, for any number of jobs and crashes |
| `PublishedAsAsked` | `WorkPublished` of `SampleText`, an action property |

`DatasetSurvives` is not inductive: it does not say why a rename finds what it expects. The
invariant `IInv` adds how far the directories are at each place of the thread (`ThreadInv`),
how they relate whatever the thread does (`DirectoryInv`: an absent dataset has its
rollback directory and a complete staging tree beside it, and nothing replaces the
original without a verified backup), what a status update in flight presupposes
(`UpdateInv`) and that the deleting stages of `recover()` find a dataset at its path
(`RecoveryInv`). `JInv` adds what the journal and the overlay say at the same places; only
the theorems about the journal and the startup need it. `TInv` adds, for
`TruthfulUntilThirdFault`, what the faults have paid for. `PlaceInv` says how directories,
copies and flags agree. `FaultsInv` counts: a journal that says `rollback_created` over the old
dataset has cost two faults, a failing step and a failing or interrupted report of it, and losing
the staging tree that tells `recover()` so costs a third. `TruthInv` is what holds while no
third one has struck. Each invariant is preserved action by action, in one lemma for the thread,
one for the recovery and one for everything else.

`WholeTreeKept` is about `AnnotationRestore`, an instance of which (`Restore`) the module takes,
and assumes `Distinct`: a job restores or commits, and none is named like the marks of an absent
or partial directory. The witness of the invariant is a whole tree at the path, or in a rollback
directory whose switch is not about to remove it (`TreeInv`). A removal is safe because that
tree is another one; what could spoil it is a partial directory that is renamed to the path, and
`PartialInv` says what that takes: overlapping switches and a failing removal, so that a restart
on top of it is a second fault. `StagedInv` says what is staged and journaled at each step,
`SoloInv` that a switch nobody overlapped still finds its dataset. The staging directories are
not needed as witnesses.

`RecordIsTrue` and `PublishedAsAsked` are about `SampleText` (the instance `Sample`) and assume
`TextAssumption`: every configuration names one of the indexes, and a user's TXT is absent or
was never replaced. The invariant is `SampleInv`:

- `StepInv`: where the runner is with a sample of each status, and that a sample is taken only
  by a module that is on.
- `PreparedInv`: what was prepared is in its file or already in the overlay. Recovery therefore
  finds it and completes the sample, and no module ever runs on its own output: the alternative
  of `recover_prepared`, to do it again, is never taken after a crash of this kind.
- `WorkInv`: what the working JSON went through (`Done`) at each module and status: the work of
  the modules before while the sample waits, that and the module's own once it is prepared.
  A repair child is exempt, since it starts in the middle.
- `MarkInv` and `RecordInv`: a mark says that the working JSON was replaced, and what is
  answered, prepared and staged behind it keeps that; so the row that the commit writes is true,
  and stays true, because the row holds the very bytes it speaks of.

### ModuleRun_proofs

Assumes `ModulesAssumption` (at least one module), `SamplesAssumption`, `PageAssumption` (a
page is not empty) and `LimitsAssumption` (limits are naturals). `BatchAssumption` is not
needed: safety does not depend on the sizes of batches. Proved:

| Theorem | States |
|---|---|
| `TypeCorrect` | `[]TypeOK` |
| `RunningDriven` | `[]RunningIsDriven` |
| `OnlyTheRunnerHolds` | `[]LeasesAreHeld` |
| `SettledIsQuiet` | `[]SettledHasNoInFlight` |
| `ArtifactsFirst` | `[]ArtifactBeforeCompletion` |
| `CountersAgree` | `[]CountsMatch` |
| `FinishedIsTrue` | `[]FinishedTruthful` |
| `RunImplementsFlow` | `FlowSpec`, the refinement of `SampleFlow` |

The inductive invariant `IInv` has these parts, each needed by another:

- `LeaseInv`: from the claim to the release the samples in flight are the runner's, and
  which of them are leased and which one is prepared follows from its place in the loop.
  That is why completing or failing the first held sample moves one sample that counts.
- `OrderInv` and `SummaryInv`: where the thread is in the order of the modules. `Front` is
  the module the samples have reached: the current one, or the next once its summary says
  more than absent or pre-paused. A thread that holds leases has `module = current = Front`.
- `PlaceInv`: a sample that has not failed is at `Front`, or completed in the module before
  while `Front` has not started. It makes a page of `reset_page` move completed samples only,
  so that no count is lost, and it gives `MayWork` of `SampleFlow`.
- `StatusInv`: what an update in flight will write, and where the row cannot say `running`.
- `ArtifactInv`: the artifact is ahead of the completion that is about to follow.
- `CountsMatch` and `FinishedTruthful` themselves.

The counters are about cardinalities: a completion adds one new member to `DoneIn` of one
module and leaves the others (`OneMore`), a reset moves samples without changing any
`DoneIn`. In the refinement, `CompleteSample` and a recovered prepared sample are `Finish`,
`FailSample` is `GiveUp`, and every other step stutters.

### ModelRuns_proofs

The theorems on OCR are about `OcrRun`'s own `Spec`, of which `OcrSpec` (with the variables of
`NlRequests` standing still) is a case; those on natural language about `NlSpec`. Assumed are
`SizesAssumption` (sizes and limits are naturals, a batch is not empty, an outcome with text is
larger than a failure) and `PolicyAssumption` (`NlAssumption` of `NlRequests`: budgets and limits
are naturals, a batch is not empty). Proved:

| Theorem | States |
|---|---|
| `TypeCorrect` | `[]TypeOK` of `OcrRun` |
| `OneRuntimeKept` | `[]OneRuntime` |
| `OutcomesReported` | `[]OutcomeReported` |
| `NoLeaseIsOrphaned` | `[]NoOrphanLease` (not a property of a run: `LeaseInv` needs it) |
| `UnknownIsKept` | `[]UnknownKept` |
| `BudgetIsKept` | `[]BudgetKept` |
| `PaidAnswersKept` | `AnswersKept`, an action property |

For `OcrRun`, `BindingInv` says that what the thread works with comes from the binding once there is one, and
the binding from the parent where the job repairs one: the hello may still change the selection,
but not once a binding was found; and that the worker which passed the check of `_v7_binding`
is the machine the binding describes. `LeaseInv` is where each sample in flight is for each place of
the loop, `SidecarInv` that a prepared sample has its sidecar where the thread or the recovery
will look for it, `FilesInv` that the files of the samples are functions.

For `NlRequests`:

- `HandInv`: what the thread may give back before it has sent anything is leased, none of it
  is "request started". So no release loses the mark of an unknown request. Samples still to be
  marked are leased.
- `PaidInv`: a sample in `response_staged` has its staged row, a prepared one that row or its text
  in the overlay, a completed one its text. A step that takes a row out of the staging is then one
  that finds the text written.
- `SettlingInv`: where the row, the staged answer and the overlay of the one outcome being
  settled stand at each of its steps.
- `BudgetInv`: the attempts counted so far and those the answers of the batch will still
  count are within the maximum that was read before the batch. The run cannot show that for
  more samples than it has; here the attempts of a batch are a recursive sum (`Total`), and lemmas say
  how a sum changes with one answer, by a least counterexample over the batch.

### Exchange_proofs

About `MCSpec`, a behaviour of which is the batches of `Exchange` or the resources of `Resources`.
Assumes `ExchangeAssumption` (sample numbers and bounds are naturals) and `LibrariesAssumption` (a
configuration has all of its sections, each on or off, those with an index name its kind). Proved:

| Theorem | States |
|---|---|
| `AnswerIsOwn` | `OwnAnswer`, an action property, for any samples, items and orders |
| `WorkersLoadTheFrozen` | `[]LoadedIsFrozen`, for any library, configuration and change |

- `AnswerInv`: each outcome in an answer, however it was shortened, repeated, reordered or
  relabelled, is one the worker may have for the sample it names, as long as that sample waits for
  one. It needs `ExchangeTypes` (the items of a batch name leased samples, an answer is a list), and
  the lemmas on lists, of which the one on taking out the k-th element is cited most.
- `AcceptedInv`: from the preflight on, what each section of the configuration is frozen to (a
  fingerprint, or the digest of a custom CSV) is what the preflight showed. The confirmation
  resolves everything once more and goes on only if the fingerprints agree (`ResolvesAgain`); a
  repair inherits the configuration. The worker's own check of the manifest it is given
  (`TakenIsWhole`) then makes the first half of `LoadedIsFrozen` inductive, whatever the core's
  caches say.
- `WholeInv`: as long as nothing has changed since the only preflight, every file of the
  caption package holds what its manifest records. It is what remains for the ONNX weights, which
  the caption worker takes unhashed (`resource.py:315`).
- `ResourceTypes`: only the modules that are on are queued, and their sections are among those
  that were resolved.

### CountReview_proofs

Assumes `CountReviewAssumption`: sizes are naturals, a page is not empty, the special values
of an observation are no counts. Proved:

| Theorem | States |
|---|---|
| `TypeCorrect` | `[]TypeOK` |
| `AppliedIsDecided` | `[]AppliedAsDecided` |
| `UserAsked` | `[]ReviewedBeforeApplied` |
| `DecisionsStand` | `NoDecisionLost`, an action property |

- `ReviewInv` is the heart: no sample leaves the start of the queue before everything is
  decided and nothing waits, and a client can edit only while no thread is about and nothing
  is in flight. Each place of the thread, each status update under way and the recovery have
  their part in it.
- `SeenInv`: a page whose version is the decision's, and that is not applied yet, shows the
  decision itself. It is what makes the comparison of versions enough.
- `DecisionInv` says what a decision of each status holds, `ApplyInv` how far the first sample
  of the batch is: what is prepared is what was decided.

### TokenBudget_proofs

Assumes `TokenBudgetAssumption`: sizes are naturals, a rewrite asks for at least one attempt.
Proved:

| Theorem | States |
|---|---|
| `TypeCorrect` | `[]TypeOK` |
| `ExportsCounted` | `[]ExportsWithinBudget` |
| `AttemptsBounded` | `[]AttemptsWithinBudget` |
| `SettledSamplesStay` | `SettledStays`, an action property |

- `CountedInv`: every artifact, text, record and fitting proposal of a sample is one that was
  counted within the budget. `GateInv` says the same of the samples the gate has passed.
- `RequestInv` and `RunnerInv`: what a request under way may rely on, and that the samples of
  the runner's batch carry the runner's lease, so that no sweep of a request reaches them.
- `BudgetInv`: what was sent, and what the requests under way may still send or have to give
  back, is within what is used and reserved. There may be any number of requests, so their debt
  is the cardinality of the set of pairs of a request and a number up to what it owes (`Slack`);
  a reservation, an answer and a settlement each move as many pairs as attempts.

### DatasetClaim_proofs

Assumes `NoJobAssumption`: "no job" is no job. The bounds on retention and faults are not needed.
Proved:

| Theorem | States |
|---|---|
| `TypeCorrect` | `[]TypeOK` |
| `ClaimOwned` | `[]RunsOnOwnClaim` |
| `ParentsKept` | `[]RepairHasParent` |

- `ClaimInv` extends the claim from the jobs that run to all that a legal call may still bring
  to run without asking for it again (`Working`): prepared, under review, cancelled, interrupted
  in one of these, or being confirmed after the claim was taken. `start`, `resume` and
  `recover_job` never look at the claim, so this is what they rely on.
- `CallInv`: while a confirmation, a repair or a discard is under way its row has a status that
  no other call moves (a repair's row is `preflighting` from its insertion until it is prepared
  or deleted; what is being discarded stays discarded). Without it the undo of one call could
  give up a claim that another relies on.
- `ParentInv`: a parent was repairable when its repair was inserted and no row goes back to
  before that, so that the clean-up of a failed repair never deletes somebody's parent.

The theorem on claims has the same exception as the property: a job that has given its claim to
a repair may run beside it. `OneWriter` above is what that costs.

### Install_proofs

Assumes `InstallAssumption`: the plan is a sequence of components, companions are runtimes, what
needs a graphics card is probed as OCR, and no component that needs one has a companion probe
(`ocr-gpu` is not in `_CUDA_PROBE_COMPANIONS`, `install.py:434`). Proved:

| Theorem | States |
|---|---|
| `InstalledWhole` | `[]InstalledIsWhole` |
| `FailureTakesBack` | `[]FailedRunRestores` |
| `ScriptsTakeBack` | `[]FailureRestores` of `MCInstall`, for any number of scripts and failures |
| `OldIsKept` | `[]OldUntilAllIsNew` of `MCInstall`, for any number of scripts, failures and deaths |

- `WholeInv`: what the run skipped or has published is final, with its manifest, at each place
  of the publication.
- `RollbackInv`: each component is where the journal's two lists say (`Placed`: in its target,
  in its backup, or replaced), the list never runs behind the disk by more than the step under
  way, and before the publication nothing has moved. The rollback undoes what the lists name and
  therefore everything.
- `TypeInv`: what is kept per component is a function, so that two of them are equal when their
  values are.

The last two theorems are about `MCSpec`, a behaviour of which is the installer's or the
scripts' (`ProgramInv`). Their invariant is `PInv`:

- The scripts work through sequences of targets. `HeadAndTail`, `FrontAndLast`, `OneAppended`
  and `Joined` say what taking from either end, appending and joining do to the range of a
  sequence without repetitions; `ImportPublishable` and the others that the list of every script
  is one, of permanent targets only. A target listed twice would be set aside twice.
- `HiddenInv`: a sibling made by this run holds what stood at its target.
- `ForwardInv`, `KeptInv`: at each place of the publication, which targets are new, empty, or as
  found; what is put in without being set aside had nothing in its place.
- `OldInv`: `OldUntilAllIsNew` up to the end of the publication, in a form each step keeps.
- `BackInv`: with one failing operation, the undo finds the targets exactly as the forward steps
  left them, and ends with all of them as found. A second one makes `failing` a set of two, which
  `FailureRestores` excludes: what stood at a target may then be left in its sibling, which is
  what `OldIsKept` still promises.

## Only model-checked

Liveness (`DatasetReturns`, `ThreadEnds`, `CancellationDrains`) depends on fairness and
`ENABLED`, which the prover does not handle. `FailureHasACause`, `DecidedCountHolds` and
`CaptionIsReadBack` of `Exchange` are about folds over texts and about
finite tables of tags: induction over data, out of the prover's reach. `PreflightIsEnough` says
that the core's rules for manifests and those of the six workers agree but for the points of
`Gap`: a comparison of two independent sets of field rules, for which there is no argument
shorter than the rules; the instances have each rule broken once.
`OneWriteBehind` of `Install` follows the undo after a failing journal write to its end. The
counterexamples above are TLC's.

## Not modelled

- Within modelled components: disabled modules and the skips of caption and export in
  `ModuleRun`; failures to start a thread; pausing the export; `inherit_repair_count_evidence`,
  image previews and page filters of the count review; the fitting of a text into its budget;
  prompts and the validation of NL texts; full-copy jobs, pinned claims and the scan of the
  dataset in `DatasetClaim`; the closing of a parent's issues after a repair; manual NL repair;
  the geometry and text of OCR results; two installers or scripts at a time and the parsing of
  manifests.
- Of the resource library: the activation of another default, the legacy manifests of single
  resources, reparse points and the names of directories that a scan skips.
- Field by field validation of messages is reduced to accepted or refused, and file
  names, path safety and capacity arithmetic to their outcome.
- Progress events and diagnostics: read-only projections, nothing depends on them.
- Model inference, image decoding: computations without control of their own.
- HTTP routes, wiring and the frontend: the calls appear as actions of users, with the status
  checks the handlers make; the client keeps no state of its own that the server relies on.
- The other build and maintenance scripts (`packaging/scripts`, `tools`): they run on a
  developer's machine and are not part of the system.

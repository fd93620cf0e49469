----------------------------- MODULE DatasetClaim -----------------------------
(***************************************************************************)
(* Who may work on a dataset.  A job takes an exclusive lock file beside   *)
(* the dataset (the operating system drops it with the process) and a row  *)
(* of dataset_claims (which stays) when its workspace is confirmed; it     *)
(* gives both up when it is discarded, after it has succeeded, or to a     *)
(* repair job made from it.  Confirmations, repairs, discards, the runs of *)
(* the jobs, crashes and the next startup interleave here.                 *)
(*                                                                         *)
(* One dataset, in-place jobs, commit journals resolved (ExportCommit has  *)
(* those).  A run is reduced to its status and whether its thread lives    *)
(* (ModuleRun has the rest).                                               *)
(***************************************************************************)
EXTENDS JobStatus, Integers, FiniteSets, Sequences, SequencesExt

CONSTANTS
  Jobs,
  Keep,        \* keep_successes of the retention
  MaxFaults    \* crashes, failing steps and refused confirmations of a behaviour (bound)

ASSUME ClaimAssumption == Keep \in Nat /\ MaxFaults \in Nat

\* A job that has no row yet, and one whose row was deleted.
Unborn == "unborn"
Gone == "gone"
NoJob == "nobody"
NoLock == 0

ASSUME NoJobAssumption == NoJob \notin Jobs

VARIABLES
  status, resume,   \* columns of the jobs row
  meta,             \* the jobs whose row has overlay_root
  parent,           \* repair_jobs: the parent of a repair job
  claim,            \* dataset_claims.job_id of the dataset
  identity,         \* the file identity of the dataset directory, which names the lock file
  handle,           \* the lock file a job's DatasetLock holds open, by that identity
  locks,            \* JobPreparationService._locks
  repairLocks,      \* RepairPreparationService._locks
  overlay,          \* the jobs whose overlay directory exists
  published,        \* the jobs whose export replaced the dataset
  done,             \* the succeeded jobs by finished_at
  threads,          \* PipelineService._threads
  commits,          \* the jobs whose thread is inside ExportCommitCoordinator.commit
  prep,             \* the confirmation or repair being served for a job
  drop,             \* the discard being served for a job
  boot, prune,      \* the startup, and what the retention has still to delete
  handed,           \* history: jobs that gave their claim to a repair
  faults

row == <<status, resume, meta, parent>>
files == <<identity, overlay, published, done>>
owner == <<claim, handle, locks, repairLocks>>
work == <<threads, commits>>
calls == <<prep, drop>>
vars == <<row, files, owner, work, calls, boot, prune, handed, faults>>

Idle == [stage |-> "idle", parent |-> NoJob, released |-> FALSE]
Fault == faults < MaxFaults /\ faults' = faults + 1
Up == boot = "up"
Exists(j) == status[j] \notin {Unborn, Gone}
Children(p) == {c \in Jobs : parent[c] = p}

At(j, stage) == Up /\ prep[j].stage = stage
Goto(j, stage) == prep' = [prep EXCEPT ![j].stage = stage]
SetStatus(j, s) == status' = [status EXCEPT ![j] = s]

-----------------------------------------------------------------------------
(* DatasetLock                                                             *)

LockFree == \A j \in Jobs : handle[j] # identity

\* release deletes the row only where it is the job's own.
Released(j) ==
  /\ claim' = IF claim = j THEN NoJob ELSE claim
  /\ handle' = [handle EXCEPT ![j] = NoLock]

Acquirable(j) == claim \in {NoJob, j}

\* acquire opens the lock file and then looks for the claim of another job.
OpenLock(j, onFailure) ==
  /\ At(j, "open")
  /\ IF LockFree
     THEN handle' = [handle EXCEPT ![j] = identity] /\ Goto(j, "claim")
     ELSE Goto(j, onFailure) /\ UNCHANGED handle
  /\ UNCHANGED <<row, files, claim, locks, repairLocks, work, drop, boot, prune, handed, faults>>

ClaimDataset(j, next, onConflict) ==
  /\ At(j, "claim")
  /\ IF Exists(j) /\ Acquirable(j)
     THEN claim' = j /\ Goto(j, next) /\ UNCHANGED handle
     ELSE handle' = [handle EXCEPT ![j] = NoLock] /\ Goto(j, onConflict) /\ UNCHANGED claim
  /\ UNCHANGED <<row, files, locks, repairLocks, work, drop, boot, prune, handed, faults>>

-----------------------------------------------------------------------------
(* JobPreparationService: preflight and confirm_workspace                  *)

MayBecome(j, s) == Exists(j) /\ MaySetStatus(status[j], s)

Preflight(j) ==
  /\ Up /\ status[j] = Unborn /\ prep[j] = Idle
  /\ SetStatus(j, "ready")
  /\ UNCHANGED <<resume, meta, parent, files, owner, work, calls, boot, prune, handed, faults>>

BeginConfirm(j) ==
  /\ At(j, "idle") /\ status[j] = "ready"
  /\ Goto(j, "release")
  /\ UNCHANGED <<row, files, owner, work, drop, boot, prune, handed, faults>>

\* A job that is not ready is refused, as a ready one whose configuration or images do not
\* stand; the handler of every error but the first lock's then marks the job as failed.  Counted as a fault.
RefuseConfirm(j) ==
  /\ At(j, "idle") /\ status[j] # "failed" /\ MayBecome(j, "failed")
  /\ SetStatus(j, "failed")
  /\ Fault
  /\ UNCHANGED <<resume, meta, parent, files, owner, work, calls, boot, prune, handed>>

\* _release_succeeded_dataset_claim: with the live lock when this service has it.
ReleaseSucceeded(j) ==
  /\ At(j, "release")
  /\ IF claim # NoJob /\ status[claim] = "succeeded"
     THEN /\ claim' = NoJob
          /\ IF claim \in locks
             THEN locks' = locks \ {claim} /\ handle' = [handle EXCEPT ![claim] = NoLock]
             ELSE UNCHANGED <<locks, handle>>
     ELSE UNCHANGED <<claim, locks, handle>>
  /\ Goto(j, "open")
  /\ UNCHANGED <<row, files, repairLocks, work, drop, boot, prune, handed, faults>>

\* OverlayLayout.create refuses a directory that is already there.
CreateOverlay(j, onError) ==
  /\ At(j, "overlay")
  /\ IF j \in overlay
     THEN Goto(j, onError) /\ UNCHANGED overlay
     ELSE overlay' = overlay \cup {j} /\ Goto(j, "record")
  /\ UNCHANGED <<row, identity, published, done, owner, work, drop, boot, prune, handed, faults>>

RecordWorkspace(j, onError) ==
  /\ At(j, "record")
  /\ IF Exists(j)
     THEN meta' = meta \cup {j} /\ Goto(j, "status")
     ELSE Goto(j, onError) /\ UNCHANGED meta
  /\ UNCHANGED <<status, resume, parent, files, owner, work, drop, boot, prune, handed, faults>>

\* Preparing, freezing a resource or writing the row fails.
PreparationFails(j, onError) ==
  /\ \E stage \in {"overlay", "record", "status"} : At(j, stage)
  /\ Fault
  /\ Goto(j, onError)
  /\ UNCHANGED <<row, files, owner, work, drop, boot, prune, handed>>

ConfirmPrepared(j) ==
  /\ At(j, "status") /\ prep[j].parent = NoJob
  /\ IF MayBecome(j, "preparing_workspace")
     THEN /\ SetStatus(j, "preparing_workspace")
          /\ locks' = locks \cup {j} /\ Goto(j, "idle")
     ELSE Goto(j, "undo") /\ UNCHANGED <<status, locks>>
  /\ UNCHANGED <<resume, meta, parent, files, claim, handle, repairLocks, work, drop, boot,
                 prune, handed, faults>>

\* The handler releases the lock and marks the job as failed; the overlay stays.
UndoConfirm(j) ==
  /\ At(j, "undo") /\ Released(j)
  /\ Goto(j, "fail")
  /\ UNCHANGED <<row, files, locks, repairLocks, work, drop, boot, prune, handed, faults>>

FailConfirm(j) ==
  /\ At(j, "fail")
  /\ IF MayBecome(j, "failed") THEN SetStatus(j, "failed") ELSE UNCHANGED status
  /\ Goto(j, "idle")
  /\ UNCHANGED <<resume, meta, parent, files, owner, work, drop, boot, prune, handed, faults>>

Confirm(j) ==
  \/ BeginConfirm(j) \/ RefuseConfirm(j) \/ ReleaseSucceeded(j) \/ ConfirmPrepared(j)
  \/ UndoConfirm(j) \/ FailConfirm(j)
  \/ /\ prep[j].parent = NoJob
     /\ \/ OpenLock(j, "idle") \/ ClaimDataset(j, "overlay", "idle")
        \/ CreateOverlay(j, "undo") \/ RecordWorkspace(j, "undo") \/ PreparationFails(j, "undo")

-----------------------------------------------------------------------------
(* RepairPreparationService.prepare and the routes around it               *)

Repairable == {"reviewing", "failed", "succeeded"}

\* release_lock_for_repair looks at the parent when this process has its lock.
BeginRepair(c, p) ==
  /\ At(c, "idle") /\ status[c] = Unborn /\ Exists(p)
  /\ \/ p \in locks /\ status[p] \in Repairable
        /\ prep' = [prep EXCEPT ![c] = [stage |-> "drop", parent |-> p, released |-> FALSE]]
     \/ p \notin locks
        /\ prep' = [prep EXCEPT ![c] = [stage |-> "insert", parent |-> p, released |-> FALSE]]
  /\ UNCHANGED <<row, files, owner, work, drop, boot, prune, handed, faults>>

ReleaseParent(c) ==
  /\ At(c, "drop")
  /\ LET p == prep[c].parent
     IN  /\ Released(p)
         /\ locks' = locks \ {p}
         /\ handed' = handed \cup {p}
  /\ prep' = [prep EXCEPT ![c].stage = "insert", ![c].released = TRUE]
  /\ UNCHANGED <<row, files, repairLocks, work, drop, boot, prune, faults>>

InsertRepair(c) ==
  /\ At(c, "insert")
  /\ IF status[prep[c].parent] \in Repairable
     THEN SetStatus(c, "preflighting") /\ Goto(c, "open")
     ELSE Goto(c, "restore") /\ UNCHANGED status
  /\ UNCHANGED <<resume, meta, parent, files, owner, work, drop, boot, prune, handed, faults>>

\* Mutant of LinkParent: any parent will do.
LinkParentAnyway(c) ==
  /\ At(c, "link")
  /\ parent' = [parent EXCEPT ![c] = prep[c].parent] /\ Goto(c, "overlay")
  /\ UNCHANGED <<status, resume, meta, files, owner, work, drop, boot, prune, handed, faults>>

\* create_repair_link: the parent must still be there.
LinkParent(c) ==
  /\ At(c, "link")
  /\ IF Exists(prep[c].parent) /\ status[prep[c].parent] # "discarded"
     THEN parent' = [parent EXCEPT ![c] = prep[c].parent] /\ Goto(c, "overlay")
     ELSE Goto(c, "cleanup") /\ UNCHANGED parent
  /\ UNCHANGED <<status, resume, meta, files, owner, work, drop, boot, prune, handed, faults>>

RepairPrepared(c) ==
  /\ At(c, "status") /\ prep[c].parent # NoJob
  /\ SetStatus(c, "preparing_workspace")
  /\ repairLocks' = repairLocks \cup {c}
  /\ Goto(c, "start")
  /\ UNCHANGED <<resume, meta, parent, files, claim, handle, locks, work, drop, boot, prune,
                 handed, faults>>

\* Whatever was built is taken away again, and the row with its claim.
CleanUpRepair(c) ==
  /\ \E stage \in {"cleanup", "refused"} : At(c, stage)
  /\ overlay' = overlay \ {c} /\ meta' = meta \ {c}
  /\ SetStatus(c, Gone) /\ parent' = [parent EXCEPT ![c] = NoJob]
  /\ Released(c)
  /\ Goto(c, IF prep[c].stage = "cleanup" THEN "restore" ELSE "idle")
  /\ UNCHANGED <<resume, identity, published, done, locks, repairLocks, work, drop, boot, prune,
                 handed, faults>>

\* PipelineService.start, in the same request; it may refuse.
StartRepair(c) ==
  /\ At(c, "start")
  /\ \/ status[c] = "preparing_workspace" /\ c \notin threads
        /\ SetStatus(c, "running") /\ threads' = threads \cup {c} /\ Goto(c, "idle")
        /\ UNCHANGED faults
     \/ (status[c] # "preparing_workspace" \/ c \in threads)
        /\ Goto(c, "restore") /\ UNCHANGED <<status, threads, faults>>
     \/ Fault /\ Goto(c, "restore") /\ UNCHANGED <<status, threads>>
  /\ UNCHANGED <<resume, meta, parent, files, owner, commits, drop, boot, prune, handed>>

\* restore_lock_after_repair_failure, when the lock had been released.
RestoreParent(c) ==
  /\ At(c, "restore")
  /\ LET p == prep[c].parent
         back == prep[c].released /\ p \notin locks /\ LockFree /\ Exists(p) /\ Acquirable(p)
     IN  /\ claim' = IF back THEN p ELSE claim
         /\ handle' = IF back THEN [handle EXCEPT ![p] = identity] ELSE handle
         /\ locks' = IF back THEN locks \cup {p} ELSE locks
  /\ Goto(c, "idle")
  /\ UNCHANGED <<row, files, repairLocks, work, drop, boot, prune, handed, faults>>

Repair(c) ==
  \/ \E p \in Jobs : BeginRepair(c, p)
  \/ ReleaseParent(c) \/ InsertRepair(c) \/ LinkParent(c) \/ RepairPrepared(c) \/ CleanUpRepair(c)
  \/ StartRepair(c) \/ RestoreParent(c)
  \/ /\ prep[c].parent # NoJob
     /\ \/ OpenLock(c, "refused") \/ ClaimDataset(c, "link", "refused")
        \/ CreateOverlay(c, "cleanup") \/ RecordWorkspace(c, "cleanup")
        \/ PreparationFails(c, "cleanup")

-----------------------------------------------------------------------------
(* The run of a job                                                        *)

Start(j) ==
  /\ Up /\ status[j] = "preparing_workspace" /\ j \notin threads
  /\ SetStatus(j, "running") /\ threads' = threads \cup {j}
  /\ UNCHANGED <<commits, resume, meta, parent, files, owner, calls, boot, prune, handed, faults>>

LeaveThread(j) == threads' = threads \ {j} /\ commits' = commits \ {j}

EndRun(j, from, to) ==
  /\ Up /\ j \in threads /\ status[j] \in from
  /\ SetStatus(j, to) /\ LeaveThread(j)

StopForReview(j) ==
  /\ EndRun(j, {"running"}, "reviewing")
  /\ UNCHANGED <<resume, meta, parent, files, owner, calls, boot, prune, handed, faults>>

FailRun(j) ==
  /\ EndRun(j, {"running", "committing", "failed"}, "failed")
  /\ j \in published => status[j] = "failed"
  /\ UNCHANGED <<resume, meta, parent, files, owner, calls, boot, prune, handed, faults>>

\* A review is confirmed, or resumed to the export: the claim is not looked at.
ResumeReview(j) ==
  /\ Up /\ status[j] = "reviewing" /\ j \notin threads
  /\ SetStatus(j, "running") /\ threads' = threads \cup {j}
  /\ UNCHANGED <<commits, resume, meta, parent, files, owner, calls, boot, prune, handed, faults>>

BeginCommit(j) ==
  /\ Up /\ j \in threads /\ status[j] = "running" /\ j \in overlay
  /\ SetStatus(j, "committing") /\ commits' = commits \cup {j}
  /\ UNCHANGED <<resume, meta, parent, files, owner, threads, calls, boot, prune, handed, faults>>

\* Another directory takes the dataset's path: the lock file it names is another one.
Publish(j) ==
  /\ Up /\ j \in commits \ published
  /\ identity' = identity + 1 /\ published' = published \cup {j}
  /\ UNCHANGED <<row, overlay, done, owner, work, calls, boot, prune, handed, faults>>

Succeed(j) ==
  /\ EndRun(j, {"committing"}, "succeeded")
  /\ j \in published
  /\ overlay' = overlay \ {j} /\ done' = Append(done, j)
  /\ UNCHANGED <<resume, meta, parent, identity, published, owner, calls, boot, prune, handed, faults>>

\* Requested and settled; the status it is recovered to is kept.
Cancel(j) ==
  /\ Up /\ status[j] \in Cancellable
  /\ SetStatus(j, "cancelled_recoverable")
  /\ resume' = [resume EXCEPT ![j] = ResumeAfterCancel(status[j], resume[j])]
  /\ LeaveThread(j)
  /\ UNCHANGED <<meta, parent, files, owner, calls, boot, prune, handed, faults>>

\* recover_job needs the overlay, not the lock.
Recover(j) ==
  /\ Up /\ j \notin threads /\ j \in meta \cap overlay
  /\ status[j] \in {"interrupted", "cancelled_recoverable"}
  /\ \/ resume[j] = "reviewing" /\ SetStatus(j, "reviewing") /\ UNCHANGED threads
     \/ resume[j] \in {"preparing_workspace", "running"}
        /\ SetStatus(j, "running") /\ threads' = threads \cup {j}
  /\ resume' = [resume EXCEPT ![j] = NoStatus]
  /\ UNCHANGED <<commits, meta, parent, files, owner, calls, boot, prune, handed, faults>>

Run(j) ==
  \/ Start(j) \/ StopForReview(j) \/ FailRun(j) \/ ResumeReview(j) \/ BeginCommit(j) \/ Publish(j)
  \/ Succeed(j) \/ Cancel(j) \/ Recover(j)

-----------------------------------------------------------------------------
(* JobLifecycle.discard and its route                                      *)

\* A commit under way has written its journal; a published dataset resolves it.
JournalOf(j) == IF j \in commits \ published THEN "backup_verified" ELSE NoJournal

\* One transaction: no repair children, the overlay, the status, the claim.
Discard(j) ==
  /\ Up /\ drop[j] = "idle" /\ Exists(j)
  /\ Children(j) = {} /\ CanDiscard(status[j], JournalOf(j))
  /\ overlay' = IF j \in meta THEN overlay \ {j} ELSE overlay
  /\ SetStatus(j, "discarded")
  /\ claim' = IF claim = j THEN NoJob ELSE claim
  /\ drop' = [drop EXCEPT ![j] = "release"]
  /\ UNCHANGED <<resume, meta, parent, identity, published, done, handle, locks, repairLocks,
                 work, prep, boot, prune, handed, faults>>

\* A second request finds the job discarded and goes on from there.
DiscardAgain(j) ==
  /\ Up /\ drop[j] = "idle" /\ status[j] = "discarded"
  /\ drop' = [drop EXCEPT ![j] = "release"]
  /\ UNCHANGED <<row, files, owner, work, prep, boot, prune, handed, faults>>

\* release_lock_for_discard knows the locks of JobPreparationService only.
ReleaseDiscarded(j) ==
  /\ Up /\ drop[j] = "release"
  /\ IF j \in locks
     THEN Released(j) /\ locks' = locks \ {j}
     ELSE UNCHANGED <<claim, handle, locks>>
  /\ drop' = [drop EXCEPT ![j] = "record"]
  /\ UNCHANGED <<row, files, repairLocks, work, prep, boot, prune, handed, faults>>

\* The row, and with it what refers to it ON DELETE CASCADE.
DeleteRow(j) ==
  /\ SetStatus(j, Gone)
  /\ parent' = [parent EXCEPT ![j] = NoJob] /\ meta' = meta \ {j}
  /\ claim' = IF claim = j THEN NoJob ELSE claim

DeleteRecord(j) ==
  /\ Up /\ drop[j] = "record"
  /\ DeleteRow(j)
  /\ drop' = [drop EXCEPT ![j] = "idle"]
  /\ UNCHANGED <<resume, files, handle, locks, repairLocks, work, prep, boot, prune, handed, faults>>

DropJob(j) == Discard(j) \/ DiscardAgain(j) \/ ReleaseDiscarded(j) \/ DeleteRecord(j)

-----------------------------------------------------------------------------
(* Crash and startup_recovery                                              *)

\* The process dies, and the operating system closes its lock files.  Before the
\* transaction of a discard, or between the two steps of the retention, its overlay may
\* be gone already.
Crash ==
  /\ boot # "dead" /\ Fault
  /\ handle' = [j \in Jobs |-> NoLock] /\ locks' = {} /\ repairLocks' = {}
  /\ threads' = {} /\ commits' = {} /\ prep' = [j \in Jobs |-> Idle] /\ drop' = [j \in Jobs |-> "idle"]
  /\ \/ UNCHANGED overlay
     \/ \E j \in meta \cap overlay :
          /\ Up /\ Children(j) = {} /\ CanDiscard(status[j], JournalOf(j))
          /\ overlay' = overlay \ {j}
  /\ boot' = "freeze" /\ prune' = <<>>
  /\ UNCHANGED <<row, identity, published, done, claim, handed>>

Freeze ==
  /\ boot = "freeze" /\ boot' = "sweep"
  /\ LET frozen == {j \in Jobs : Exists(j) /\ status[j] \notin NonInterruptible}
     IN  /\ status' = [j \in Jobs |-> IF j \in frozen THEN "interrupted" ELSE status[j]]
         /\ resume' = [j \in Jobs |-> IF j \in frozen THEN ResumeAfterInterrupt(status[j], resume[j])
                                      ELSE resume[j]]
  /\ UNCHANGED <<meta, parent, files, owner, work, calls, prune, handed, faults>>

\* Mutant of SweepClaims: every claim whose job does not run is stale.
SweepClaimsOfAll ==
  /\ boot = "sweep" /\ boot' = "journals"
  /\ claim' = NoJob
  /\ UNCHANGED <<row, files, handle, locks, repairLocks, work, calls, prune, handed, faults>>

\* clear_stale_dataset_claims
SweepClaims ==
  /\ boot = "sweep" /\ boot' = "journals"
  /\ claim' = IF claim # NoJob /\ status[claim] = "succeeded" THEN NoJob ELSE claim
  /\ UNCHANGED <<row, files, handle, locks, repairLocks, work, calls, prune, handed, faults>>

\* recover_pending_commits, for the jobs whose row names an overlay; then the retention
\* looks for its candidates.
RecoverCommits ==
  /\ boot = "journals" /\ boot' = "retention"
  /\ LET mid == {j \in meta \cap overlay : status[j] = "interrupted" /\ resume[j] = "committing"}
         over == mid \cap published
         succeeded == over \cup {j \in Jobs : status[j] = "succeeded"}
     IN  /\ \E back \in SUBSET (mid \ published) :
              status' = [j \in Jobs |-> IF j \in over THEN "succeeded"
                                        ELSE IF j \in back THEN "failed" ELSE status[j]]
         /\ meta' = meta \cap overlay
         /\ \E recovered \in SetToSeqs(over) :
              done' = done \o recovered
         /\ prune' = SelectSeq(SubSeq(done', 1, Len(done') - Keep), LAMBDA j : j \in succeeded)
  /\ UNCHANGED <<resume, parent, identity, overlay, published, owner, work, calls, handed, faults>>

\* RetentionManager.cleanup: the newest candidate first, its overlay and then its record.
PruneOverlay ==
  /\ boot = "retention" /\ prune # <<>>
  /\ Last(prune) \in overlay
  /\ overlay' = overlay \ {Last(prune)}
  /\ UNCHANGED <<row, identity, published, done, owner, work, calls, boot, prune, handed, faults>>

\* A job with repair children cannot be deleted: the error ends the startup.
PruneRecord ==
  /\ boot = "retention" /\ prune # <<>>
  /\ Last(prune) \notin overlay
  /\ IF Children(Last(prune)) = {}
     THEN DeleteRow(Last(prune)) /\ prune' = Front(prune) /\ UNCHANGED boot
     ELSE boot' = "dead" /\ UNCHANGED <<status, parent, meta, claim, prune>>
  /\ UNCHANGED <<resume, files, handle, locks, repairLocks, work, calls, handed, faults>>

Serve ==
  /\ boot = "retention" /\ prune = <<>> /\ boot' = "up"
  /\ UNCHANGED <<row, files, owner, work, calls, prune, handed, faults>>

Startup == Freeze \/ SweepClaims \/ RecoverCommits \/ PruneOverlay \/ PruneRecord \/ Serve

-----------------------------------------------------------------------------
Init ==
  /\ status = [j \in Jobs |-> Unborn] /\ resume = [j \in Jobs |-> NoStatus]
  /\ meta = {} /\ parent = [j \in Jobs |-> NoJob]
  /\ claim = NoJob /\ identity = 1 /\ handle = [j \in Jobs |-> NoLock]
  /\ locks = {} /\ repairLocks = {}
  /\ overlay = {} /\ published = {} /\ done = <<>> /\ threads = {} /\ commits = {}
  /\ prep = [j \in Jobs |-> Idle] /\ drop = [j \in Jobs |-> "idle"]
  /\ boot = "up" /\ prune = <<>> /\ handed = {} /\ faults = 0

Next ==
  \/ \E j \in Jobs : Preflight(j) \/ Confirm(j) \/ Repair(j) \/ Run(j) \/ DropJob(j)
  \/ Crash \/ Startup

Spec == Init /\ [][Next]_vars

-----------------------------------------------------------------------------
(* Properties                                                              *)

\* A job that runs owns the dataset's claim, through confirmations, discards, crashes and
\* recoveries in any order, unless it has given it to a repair of its own: so two jobs of
\* which neither gave it away never work on one dataset (DatasetLock.acquire).
RunsOnOwnClaim ==
  \A j \in threads : status[j] \in {"running", "committing"} => claim = j \/ j \in handed

\* Whatever is discarded or deleted meanwhile, the parent of a repair is still there, with
\* the issues the repair has to close (create_repair_link, ensure_delete_allowed).
RepairHasParent ==
  \A c \in Jobs : parent[c] # NoJob =>
    Exists(parent[c]) /\ status[parent[c]] # "discarded"
=============================================================================

------------------------- MODULE DatasetClaim_proofs -------------------------
(***************************************************************************)
(* Theorems about the claim of a dataset, for any set of jobs and any      *)
(* number of faults: a job that runs owns the claim or gave it to a        *)
(* repair, and the parent of a repair is never taken away from it.         *)
(***************************************************************************)
EXTENDS DatasetClaim, TLAPS

-----------------------------------------------------------------------------
(* Types                                                                   *)

Statuses ==
  {Unborn, Gone, "ready", "preflighting", "preparing_workspace", "running", "reviewing",
   "committing", "interrupted", "cancelled_recoverable", "succeeded", "failed", "discarded"}

ConfirmStages ==
  {"idle", "release", "open", "claim", "overlay", "record", "status", "undo", "fail"}

RepairStages ==
  {"idle", "drop", "insert", "open", "claim", "link", "overlay", "record", "status", "start",
   "cleanup", "refused", "restore"}

\* A confirmation has no parent; a repair keeps the one it was asked for.
Calls ==
  [stage : ConfirmStages, parent : {NoJob}, released : {FALSE}]
    \cup [stage : RepairStages, parent : Jobs, released : BOOLEAN]

RowType ==
  /\ status \in [Jobs -> Statuses] /\ resume \in [Jobs -> Statuses \cup {NoStatus}]
  /\ meta \subseteq Jobs /\ parent \in [Jobs -> Jobs \cup {NoJob}]

OwnerType ==
  /\ claim \in Jobs \cup {NoJob} /\ identity \in Nat /\ handle \in [Jobs -> Nat]
  /\ locks \subseteq Jobs /\ repairLocks \subseteq Jobs /\ handed \subseteq Jobs

WorkType ==
  /\ overlay \subseteq Jobs /\ published \subseteq Jobs
  /\ threads \subseteq Jobs /\ commits \subseteq Jobs

CallType ==
  /\ prep \in [Jobs -> Calls] /\ drop \in [Jobs -> {"idle", "release", "record"}]
  /\ boot \in {"up", "freeze", "sweep", "journals", "retention", "dead"}

TypeOK == RowType /\ OwnerType /\ WorkType /\ CallType

-----------------------------------------------------------------------------
(* The invariant                                                           *)

\* The stages in which the row of a repair waits to be prepared or taken away again.
Inserted == RepairStages \ {"idle", "drop", "insert", "start", "restore"}

\* What a confirmation, a repair or a discard under way knows of its job's row.
CallInv ==
  \A j \in Jobs :
    /\ status[j] = "ready" => prep[j].parent = NoJob
    /\ prep[j].stage # "idle" /\ prep[j].parent = NoJob =>
         status[j] \in {"ready", "discarded", Gone}
    /\ prep[j].stage \in {"drop", "insert"} => status[j] = Unborn
    /\ prep[j].parent # NoJob /\ prep[j].stage \in Inserted => status[j] = "preflighting"
    /\ drop[j] # "idle" => status[j] \in {"discarded", Gone}
    /\ boot # "up" => prep[j].stage = "idle"

Runnable == {"preparing_workspace", "running", "reviewing"}

\* A job that runs, or that a legal call may still bring to run without a new claim.
Working(j) ==
  \/ status[j] \in Runnable \cup {"committing", "cancelled_recoverable"}
  \/ status[j] = "interrupted" /\ resume[j] \in Runnable
  \/ /\ prep[j].stage \in {"link", "overlay", "record", "status"}
     /\ status[j] \in {"ready", "preflighting"}

ClaimInv == \A j \in Jobs : Working(j) => claim = j \/ j \in handed

\* A parent was repairable when its repair was inserted, and a row does not go back.
ParentInv ==
  \A c, p \in Jobs :
    /\ parent[c] = p => status[p] \notin {Unborn, Gone, "preflighting", "discarded"}
    /\ prep[c].stage \in {"open", "claim", "link"} /\ prep[c].parent = p =>
         status[p] \notin {Unborn, "preflighting"}

IInv == TypeOK /\ CallInv /\ ClaimInv /\ ParentInv

-----------------------------------------------------------------------------
(* Lemmas about the tables                                                 *)

\* What may fail is a row that works or waits, and what may be prepared has not been discarded.
LEMMA Becoming ==
  ASSUME RowType, NEW j \in Jobs
  PROVE  /\ MayBecome(j, "failed") => status[j] \notin {Unborn, Gone, "discarded", "succeeded"}
         /\ MayBecome(j, "preparing_workspace") => status[j] \notin {Unborn, Gone, "discarded"}
BY DEF MayBecome, MaySetStatus, JobTransitions, JobStatuses, Exists, RowType, Statuses, Unborn, Gone

\* The row that a discard takes is at rest: it is not being prepared, and no commit runs.
LEMMA Discardable ==
  ASSUME NEW s, NEW journal, CanDiscard(s, journal)
  PROVE  s \in {"ready", "interrupted", "reviewing", "cancelled_recoverable", "failed", "draft"}
BY DEF CanDiscard

\* A call with a stage of its own kind is a call.
LEMMA Staged ==
  ASSUME CallType, NEW j \in Jobs, NEW s \in ConfirmStages \cup RepairStages,
         prep[j].parent = NoJob => s \in ConfirmStages,
         prep[j].parent # NoJob => s \in RepairStages,
         Goto(j, s)
  PROVE  prep' \in [Jobs -> Calls]
<1>1. prep[j] \in Calls
  BY DEF CallType
<1>2. [prep[j] EXCEPT !.stage = s] \in Calls
  BY <1>1, NoJobAssumption DEF Calls
<1> QED BY <1>2 DEF CallType, Goto


-----------------------------------------------------------------------------
(* Types are kept                                                          *)

\* Every step of a confirmation keeps the types.
LEMMA ConfirmTyped ==
  ASSUME TypeOK, CallInv, NEW j \in Jobs, Confirm(j)
  PROVE  TypeOK'
<1>1. /\ prep[j].stage = "release" => prep[j].parent = NoJob
      /\ prep[j].stage = "undo" => prep[j].parent = NoJob
      /\ prep[j].stage = "fail" => prep[j].parent = NoJob
  BY DEF TypeOK, CallType, Calls, RepairStages
<1> USE DEF TypeOK, ConfirmStages, RepairStages
<1>2. CASE BeginConfirm(j)
  BY <1>2, Staged DEF BeginConfirm, RowType, OwnerType, WorkType, CallType, CallInv,
     row, files, owner, work
<1>3. CASE RefuseConfirm(j)
  BY <1>3 DEF RefuseConfirm, SetStatus, RowType, OwnerType, WorkType, CallType, Statuses,
     files, owner, work, calls
<1>4. CASE ReleaseSucceeded(j)
  BY <1>1, <1>4, Staged DEF ReleaseSucceeded, At, NoLock, RowType, OwnerType, WorkType, CallType,
     row, files, work
<1>5. CASE ConfirmPrepared(j)
  BY <1>5, Staged DEF ConfirmPrepared, At, SetStatus, RowType, OwnerType, WorkType, CallType,
     Statuses, files, work
<1>6. CASE UndoConfirm(j)
  BY <1>1, <1>6, Staged DEF UndoConfirm, At, Released, NoLock, RowType, OwnerType, WorkType, CallType,
     row, files, work
<1>7. CASE FailConfirm(j)
  BY <1>1, <1>7, Staged DEF FailConfirm, At, SetStatus, RowType, OwnerType, WorkType, CallType,
     Statuses, files, owner, work
<1>8. ASSUME prep[j].parent = NoJob,
             \/ OpenLock(j, "idle") \/ ClaimDataset(j, "overlay", "idle")
             \/ CreateOverlay(j, "undo") \/ RecordWorkspace(j, "undo")
             \/ PreparationFails(j, "undo")
      PROVE  TypeOK'
  <2>1. CASE OpenLock(j, "idle")
    BY <1>8, <2>1, Staged DEF OpenLock, RowType, OwnerType, WorkType, CallType, row, files, work
  <2>2. CASE ClaimDataset(j, "overlay", "idle")
    BY <1>8, <2>2, Staged DEF ClaimDataset, NoLock, RowType, OwnerType, WorkType, CallType,
       row, files, work
  <2>3. CASE CreateOverlay(j, "undo")
    BY <1>8, <2>3, Staged DEF CreateOverlay, RowType, OwnerType, WorkType, CallType, row, owner, work
  <2>4. CASE RecordWorkspace(j, "undo")
    BY <1>8, <2>4, Staged DEF RecordWorkspace, RowType, OwnerType, WorkType, CallType,
       files, owner, work
  <2>5. CASE PreparationFails(j, "undo")
    BY <1>8, <2>5, Staged DEF PreparationFails, RowType, OwnerType, WorkType, CallType,
       row, files, owner, work
  <2> QED BY <1>8, <2>1, <2>2, <2>3, <2>4, <2>5
<1> QED BY <1>2, <1>3, <1>4, <1>5, <1>6, <1>7, <1>8 DEF Confirm

\* Every step of a repair keeps the types.
LEMMA RepairTyped ==
  ASSUME TypeOK, NEW c \in Jobs, Repair(c)
  PROVE  TypeOK'
<1>1. \A stage \in {"drop", "insert", "link", "start", "cleanup", "refused", "restore"} :
        prep[c].stage = stage => prep[c].parent \in Jobs
  BY DEF TypeOK, CallType, Calls, ConfirmStages
<1>2. prep[c].parent # NoJob => prep[c].parent \in Jobs
  BY DEF TypeOK, CallType, Calls
<1> USE NoJobAssumption DEF TypeOK, RepairStages
<1>3. ASSUME NEW p \in Jobs, BeginRepair(c, p)
      PROVE  TypeOK'
  <2>1. prep' \in [Jobs -> Calls]
    <3>1. \A s \in {"drop", "insert"} : [stage |-> s, parent |-> p, released |-> FALSE] \in Calls
      BY DEF Calls
    <3>2. PICK s \in {"drop", "insert"} :
            prep' = [prep EXCEPT ![c] = [stage |-> s, parent |-> p, released |-> FALSE]]
      BY <1>3 DEF BeginRepair
    <3> QED BY <3>1, <3>2 DEF CallType
  <2> QED BY <1>3, <2>1 DEF BeginRepair, RowType, OwnerType, WorkType, CallType,
          row, files, owner, work
<1>4. CASE ReleaseParent(c)
  <2>1. prep' = [prep EXCEPT ![c] = [@ EXCEPT !.stage = "insert", !.released = TRUE]]
    BY <1>4 DEF ReleaseParent, CallType, Calls
  <2>2. [prep[c] EXCEPT !.stage = "insert", !.released = TRUE] \in Calls
    BY <1>1, <1>4 DEF ReleaseParent, At, CallType, Calls
  <2>3. prep' \in [Jobs -> Calls]
    BY <2>1, <2>2 DEF CallType
  <2> QED BY <1>1, <1>4, <2>3 DEF ReleaseParent, At, Released, NoLock, RowType, OwnerType, WorkType,
          CallType, row, files, work
<1>5. CASE InsertRepair(c)
  BY <1>1, <1>5, Staged DEF InsertRepair, At, SetStatus, RowType, OwnerType, WorkType, CallType,
     Statuses, files, owner, work
<1>6. CASE LinkParent(c)
  BY <1>1, <1>6, Staged DEF LinkParent, At, RowType, OwnerType, WorkType, CallType,
     files, owner, work
<1>7. CASE RepairPrepared(c)
  BY <1>7, Staged DEF RepairPrepared, At, SetStatus, RowType, OwnerType, WorkType, CallType,
     Statuses, files, work
<1>8. CASE CleanUpRepair(c)
  BY <1>1, <1>8, Staged DEF CleanUpRepair, At, SetStatus, Released, NoLock, RowType, OwnerType,
     WorkType, CallType, Statuses, work
<1>9. CASE StartRepair(c)
  BY <1>1, <1>9, Staged DEF StartRepair, At, SetStatus, RowType, OwnerType, WorkType, CallType,
     Statuses, files, owner
<1>10. CASE RestoreParent(c)
  BY <1>1, <1>10, Staged DEF RestoreParent, At, RowType, OwnerType, WorkType, CallType,
     row, files, work
<1>11. ASSUME prep[c].parent # NoJob,
              \/ OpenLock(c, "refused") \/ ClaimDataset(c, "link", "refused")
              \/ CreateOverlay(c, "cleanup") \/ RecordWorkspace(c, "cleanup")
              \/ PreparationFails(c, "cleanup")
       PROVE  TypeOK'
  <2>1. CASE OpenLock(c, "refused")
    BY <1>11, <2>1, Staged DEF OpenLock, RowType, OwnerType, WorkType, CallType, row, files, work
  <2>2. CASE ClaimDataset(c, "link", "refused")
    BY <1>11, <2>2, Staged DEF ClaimDataset, NoLock, RowType, OwnerType, WorkType, CallType,
       row, files, work
  <2>3. CASE CreateOverlay(c, "cleanup")
    BY <1>11, <2>3, Staged DEF CreateOverlay, RowType, OwnerType, WorkType, CallType,
       row, owner, work
  <2>4. CASE RecordWorkspace(c, "cleanup")
    BY <1>11, <2>4, Staged DEF RecordWorkspace, RowType, OwnerType, WorkType, CallType,
       files, owner, work
  <2>5. CASE PreparationFails(c, "cleanup")
    BY <1>11, <2>5, Staged DEF PreparationFails, RowType, OwnerType, WorkType, CallType,
       row, files, owner, work
  <2> QED BY <1>11, <2>1, <2>2, <2>3, <2>4, <2>5
<1> QED BY <1>3, <1>4, <1>5, <1>6, <1>7, <1>8, <1>9, <1>10, <1>11 DEF Repair

\* What an interrupted or cancelled job is recovered to is a status.
LEMMA Resumed ==
  ASSUME RowType, NEW j \in Jobs
  PROVE  /\ ResumeAfterInterrupt(status[j], resume[j]) = status[j]
         /\ ResumeAfterCancel(status[j], resume[j]) = status[j]
BY DEF ResumeAfterInterrupt, ResumeAfterCancel, RowType, Statuses, Unborn, Gone

\* Every step of a run keeps the types.
LEMMA RunTyped ==
  ASSUME TypeOK, NEW j \in Jobs, Run(j)
  PROVE  TypeOK'
<1> USE DEF TypeOK, Statuses
<1>1. CASE Start(j)
  BY <1>1 DEF Start, SetStatus, RowType, OwnerType, WorkType, CallType, files, owner, calls
<1>2. CASE StopForReview(j)
  BY <1>2 DEF StopForReview, EndRun, LeaveThread, SetStatus, RowType, OwnerType, WorkType, CallType,
     files, owner, calls
<1>3. CASE FailRun(j)
  BY <1>3 DEF FailRun, EndRun, LeaveThread, SetStatus, RowType, OwnerType, WorkType, CallType,
     files, owner, calls
<1>4. CASE ResumeReview(j)
  BY <1>4 DEF ResumeReview, SetStatus, RowType, OwnerType, WorkType, CallType, files, owner, calls
<1>5. CASE BeginCommit(j)
  BY <1>5 DEF BeginCommit, SetStatus, RowType, OwnerType, WorkType, CallType, files, owner, calls
<1>6. CASE Publish(j)
  BY <1>6 DEF Publish, RowType, OwnerType, WorkType, CallType, row, owner, work, calls
<1>7. CASE Succeed(j)
  BY <1>7 DEF Succeed, EndRun, LeaveThread, SetStatus, RowType, OwnerType, WorkType, CallType,
     owner, calls
<1>8. CASE Cancel(j)
  <2>1. resume' = [resume EXCEPT ![j] = status[j]]
    BY <1>8, Resumed DEF Cancel
  <2> QED BY <1>8, <2>1 DEF Cancel, LeaveThread, SetStatus, RowType, OwnerType, WorkType, CallType,
          files, owner, calls
<1>9. CASE Recover(j)
  BY <1>9 DEF Recover, SetStatus, RowType, OwnerType, WorkType, CallType, files, owner, calls
<1> QED BY <1>1, <1>2, <1>3, <1>4, <1>5, <1>6, <1>7, <1>8, <1>9 DEF Run

\* Every step of a discard keeps the types.
LEMMA DropTyped ==
  ASSUME TypeOK, NEW j \in Jobs, DropJob(j)
  PROVE  TypeOK'
<1> USE DEF TypeOK, Statuses
<1>1. CASE Discard(j)
  BY <1>1 DEF Discard, SetStatus, RowType, OwnerType, WorkType, CallType, work
<1>2. CASE DiscardAgain(j)
  BY <1>2 DEF DiscardAgain, RowType, OwnerType, WorkType, CallType, row, files, owner, work
<1>3. CASE ReleaseDiscarded(j)
  BY <1>3 DEF ReleaseDiscarded, Released, NoLock, RowType, OwnerType, WorkType, CallType,
     row, files, work
<1>4. CASE DeleteRecord(j)
  BY <1>4 DEF DeleteRecord, DeleteRow, SetStatus, RowType, OwnerType, WorkType, CallType,
     files, work
<1> QED BY <1>1, <1>2, <1>3, <1>4 DEF DropJob

\* A crash and every step of the startup keep the types.
LEMMA BootTyped ==
  ASSUME TypeOK, Crash \/ Startup
  PROVE  TypeOK'
<1> USE DEF TypeOK
<1>1. CASE Crash
  BY <1>1 DEF Crash, Idle, NoLock, RowType, OwnerType, WorkType, CallType, Calls, ConfirmStages, row
<1>2. CASE Freeze
  <2>1. status' \in [Jobs -> Statuses] /\ resume' \in [Jobs -> Statuses \cup {NoStatus}]
    BY <1>2, Resumed DEF Freeze, RowType, Statuses
  <2> QED BY <1>2, <2>1 DEF Freeze, RowType, OwnerType, WorkType, CallType, files, owner, work, calls
<1>3. CASE SweepClaims
  BY <1>3 DEF SweepClaims, RowType, OwnerType, WorkType, CallType, row, files, work, calls
<1>4. CASE RecoverCommits
  <2>1. status' \in [Jobs -> Statuses]
    BY <1>4 DEF RecoverCommits, RowType, Statuses
  <2> QED BY <1>4, <2>1 DEF RecoverCommits, RowType, OwnerType, WorkType, CallType, owner, work, calls
<1>5. CASE PruneOverlay
  BY <1>5 DEF PruneOverlay, RowType, OwnerType, WorkType, CallType, row, owner, work, calls
<1>6. CASE PruneRecord
  BY <1>6 DEF PruneRecord, DeleteRow, SetStatus, RowType, OwnerType, WorkType, CallType, Statuses,
     files, work, calls
<1>7. CASE Serve
  BY <1>7 DEF Serve, RowType, OwnerType, WorkType, CallType, row, files, owner, work, calls
<1> QED BY <1>1, <1>2, <1>3, <1>4, <1>5, <1>6, <1>7 DEF Startup

\* Every step keeps the types.
LEMMA TypeStep ==
  ASSUME TypeOK, CallInv, [Next]_vars
  PROVE  TypeOK'
<1>1. CASE UNCHANGED vars
  BY <1>1 DEF vars, row, files, owner, work, calls, TypeOK, RowType, OwnerType, WorkType, CallType
<1>2. ASSUME NEW j \in Jobs, Preflight(j)
      PROVE  TypeOK'
  BY <1>2 DEF Preflight, SetStatus, TypeOK, RowType, OwnerType, WorkType, CallType, Statuses,
     files, owner, work, calls
<1> QED BY <1>1, <1>2, ConfirmTyped, RepairTyped, RunTyped, DropTyped, BootTyped DEF Next

-----------------------------------------------------------------------------
(* What the calls under way know of their rows                             *)

\* A call that goes on to a stage has to know of its own row only.
LEMMA Goes ==
  ASSUME TypeOK, CallInv, NEW j \in Jobs, NEW s, Goto(j, s), Up, UNCHANGED <<drop, boot>>,
         \A k \in Jobs : k # j => status'[k] = status[k],
         status'[j] = "ready" => prep[j].parent = NoJob,
         s # "idle" /\ prep[j].parent = NoJob => status'[j] \in {"ready", "discarded", Gone},
         s \notin {"drop", "insert"},
         prep[j].parent # NoJob /\ s \in Inserted => status'[j] = "preflighting",
         drop[j] # "idle" => status'[j] \in {"discarded", Gone}
  PROVE  CallInv'
<1>1. /\ prep'[j].stage = s /\ prep'[j].parent = prep[j].parent
      /\ \A k \in Jobs : k # j => prep'[k] = prep[k]
  BY DEF Goto, TypeOK, CallType, Calls
<1> QED BY <1>1 DEF CallInv, Up

\* Every step of a confirmation keeps what the calls know.
LEMMA ConfirmKnows ==
  ASSUME TypeOK, CallInv, NEW j \in Jobs, Confirm(j)
  PROVE  CallInv'
<1>1. /\ prep[j].stage \in {"release", "undo", "fail"} => prep[j].parent = NoJob
      /\ prep[j].parent # NoJob => prep[j].stage \in RepairStages
  BY DEF TypeOK, CallType, Calls, RepairStages
<1>2. prep[j].stage # "idle" /\ prep[j].parent = NoJob =>
        status[j] \in {"ready", "discarded", Gone}
  BY DEF CallInv
<1>3. drop[j] # "idle" => status[j] \in {"discarded", Gone}
  BY DEF CallInv
<1> USE DEF At, Inserted
<1>4. CASE BeginConfirm(j)
  BY <1>4, <1>3, Goes DEF BeginConfirm, CallInv, row
<1>5. CASE RefuseConfirm(j)
  <2>1. status' = [status EXCEPT ![j] = "failed"] /\ UNCHANGED <<prep, drop, boot>>
    BY <1>5 DEF RefuseConfirm, SetStatus, calls
  <2>2. drop[j] = "idle" /\ prep[j].stage = "idle"
    BY <1>3, <1>5, Becoming DEF RefuseConfirm, TypeOK
  <2> QED BY <2>1, <2>2 DEF CallInv, TypeOK, RowType, Unborn, Gone
<1>6. CASE ReleaseSucceeded(j)
  BY <1>1, <1>2, <1>3, <1>6, Goes DEF ReleaseSucceeded, row
<1>7. CASE ConfirmPrepared(j)
  <2>1. CASE MayBecome(j, "preparing_workspace")
    <3>1. status' = [status EXCEPT ![j] = "preparing_workspace"] /\ Goto(j, "idle") /\ drop[j] = "idle"
      BY <1>3, <1>7, <2>1, Becoming DEF ConfirmPrepared, SetStatus, TypeOK
    <3>2. status'[j] = "preparing_workspace" /\ \A k \in Jobs : k # j => status'[k] = status[k]
      BY <3>1 DEF TypeOK, RowType
    <3> QED BY <1>7, <3>1, <3>2, Goes DEF ConfirmPrepared
  <2>2. CASE ~MayBecome(j, "preparing_workspace")
    BY <1>2, <1>3, <1>7, <2>2, Goes DEF ConfirmPrepared
  <2> QED BY <2>1, <2>2
<1>8. CASE UndoConfirm(j)
  BY <1>1, <1>2, <1>3, <1>8, Goes DEF UndoConfirm, row
<1>9. CASE FailConfirm(j)
  <2>1. CASE MayBecome(j, "failed")
    <3>1. status' = [status EXCEPT ![j] = "failed"] /\ Goto(j, "idle") /\ drop[j] = "idle"
      BY <1>3, <1>9, <2>1, Becoming DEF FailConfirm, SetStatus, TypeOK
    <3>2. status'[j] = "failed" /\ \A k \in Jobs : k # j => status'[k] = status[k]
      BY <3>1 DEF TypeOK, RowType
    <3> QED BY <1>9, <3>1, <3>2, Goes DEF FailConfirm
  <2>2. CASE ~MayBecome(j, "failed")
    BY <1>1, <1>2, <1>3, <1>9, <2>2, Goes DEF FailConfirm
  <2> QED BY <2>1, <2>2
<1>10. ASSUME prep[j].parent = NoJob,
              \/ OpenLock(j, "idle") \/ ClaimDataset(j, "overlay", "idle")
              \/ CreateOverlay(j, "undo") \/ RecordWorkspace(j, "undo")
              \/ PreparationFails(j, "undo")
       PROVE  CallInv'
  <2>1. /\ \E s \in {"idle", "claim", "overlay", "record", "status", "undo"} : Goto(j, s)
        /\ Up /\ UNCHANGED <<status, drop, boot>> /\ prep[j].stage # "idle"
    BY <1>10 DEF OpenLock, ClaimDataset, CreateOverlay, RecordWorkspace, PreparationFails, row
  <2> QED BY <1>2, <1>3, <1>10, <2>1, Goes
<1> QED BY <1>4, <1>5, <1>6, <1>7, <1>8, <1>9, <1>10 DEF Confirm

\* Every step of a repair keeps what the calls know.
LEMMA RepairKnows ==
  ASSUME TypeOK, CallInv, NEW c \in Jobs, Repair(c)
  PROVE  CallInv'
<1>1. \A s \in {"drop", "insert", "link", "start", "cleanup", "refused", "restore"} :
        prep[c].stage = s => prep[c].parent # NoJob
  <2>1. \A s \in {"drop", "insert", "link", "start", "cleanup", "refused", "restore"} :
          prep[c].stage = s => prep[c].parent \in Jobs
    BY DEF TypeOK, CallType, Calls, ConfirmStages
  <2> QED BY <2>1, NoJobAssumption
<1>2. prep[c].parent # NoJob /\ prep[c].stage \in Inserted => status[c] = "preflighting"
  BY DEF CallInv
<1>3. /\ drop[c] # "idle" => status[c] \in {"discarded", Gone}
      /\ status[c] = "ready" => prep[c].parent = NoJob
  BY DEF CallInv
<1> USE DEF At
<1>4. ASSUME NEW p \in Jobs, BeginRepair(c, p)
      PROVE  CallInv'
  <2>1. PICK s \in {"drop", "insert"} :
          prep' = [prep EXCEPT ![c] = [stage |-> s, parent |-> p, released |-> FALSE]]
    BY <1>4 DEF BeginRepair
  <2>2. /\ prep'[c].stage = s /\ prep'[c].parent = p
        /\ \A k \in Jobs : k # c => prep'[k] = prep[k]
    BY <2>1 DEF TypeOK, CallType
  <2>3. Up /\ status[c] = Unborn /\ UNCHANGED <<status, drop, boot>>
    BY <1>4 DEF BeginRepair, row
  <2> QED BY <2>2, <2>3, NoJobAssumption DEF CallInv, Inserted, Up, Unborn
<1>5. CASE ReleaseParent(c)
  <2>1. prep'[c].stage = "insert" /\ prep'[c].parent = prep[c].parent
    BY <1>5 DEF ReleaseParent, TypeOK, CallType, Calls
  <2>2. \A k \in Jobs : k # c => prep'[k] = prep[k]
    BY <1>5 DEF ReleaseParent, TypeOK, CallType
  <2>3. Up /\ status[c] = Unborn /\ UNCHANGED <<status, drop, boot>>
    BY <1>5 DEF ReleaseParent, CallInv, row
  <2>4. prep[c].parent # NoJob
    BY <1>1, <1>5 DEF ReleaseParent
  <2> QED BY <2>1, <2>2, <2>3, <2>4 DEF CallInv, Inserted, Up, Unborn, Gone
<1>6. CASE InsertRepair(c)
  <2>1. status[c] = Unborn /\ prep[c].parent # NoJob /\ drop[c] = "idle"
    BY <1>1, <1>3, <1>6 DEF InsertRepair, CallInv, Unborn, Gone
  <2>2. CASE Goto(c, "open") /\ SetStatus(c, "preflighting")
    <3>1. status'[c] = "preflighting" /\ \A k \in Jobs : k # c => status'[k] = status[k]
      BY <2>2 DEF SetStatus, TypeOK, RowType
    <3> QED BY <1>6, <2>1, <2>2, <3>1, Goes DEF InsertRepair
  <2>3. CASE Goto(c, "restore") /\ UNCHANGED status
    BY <1>3, <1>6, <2>1, <2>3, Goes DEF InsertRepair, Inserted, Unborn
  <2> QED BY <1>6, <2>2, <2>3 DEF InsertRepair
<1>7. CASE LinkParent(c)
  <2>1. status[c] = "preflighting" /\ prep[c].parent # NoJob
    BY <1>1, <1>2, <1>7 DEF LinkParent, Inserted, RepairStages
  <2>2. \E s \in {"overlay", "cleanup"} : Goto(c, s)
    BY <1>7 DEF LinkParent
  <2> QED BY <1>3, <1>7, <2>1, <2>2, Goes DEF LinkParent
<1>8. CASE RepairPrepared(c)
  <2>1. status[c] = "preflighting" /\ drop[c] = "idle"
    BY <1>2, <1>3, <1>8 DEF RepairPrepared, Inserted, RepairStages, Gone
  <2>2. status'[c] = "preparing_workspace" /\ \A k \in Jobs : k # c => status'[k] = status[k]
    BY <1>8 DEF RepairPrepared, SetStatus, TypeOK, RowType
  <2> QED BY <1>8, <2>1, <2>2, Goes DEF RepairPrepared, Inserted
<1>9. CASE CleanUpRepair(c)
  <2>1. PICK s \in {"idle", "restore"} : Goto(c, s)
    BY <1>9 DEF CleanUpRepair
  <2>2. status'[c] = Gone /\ \A k \in Jobs : k # c => status'[k] = status[k]
    BY <1>9 DEF CleanUpRepair, SetStatus, TypeOK, RowType
  <2> QED BY <1>9, <2>1, <2>2, Goes DEF CleanUpRepair, Inserted, Gone
<1>10. CASE StartRepair(c)
  <2>1. CASE Goto(c, "idle") /\ SetStatus(c, "running") /\ status[c] = "preparing_workspace"
    <3>1. status'[c] = "running" /\ \A k \in Jobs : k # c => status'[k] = status[k]
      BY <2>1 DEF SetStatus, TypeOK, RowType
    <3> QED BY <1>3, <1>10, <2>1, <3>1, Goes DEF StartRepair, Inserted, Gone
  <2>2. CASE Goto(c, "restore") /\ UNCHANGED status
    BY <1>1, <1>3, <1>10, <2>2, Goes DEF StartRepair, Inserted
  <2> QED BY <1>10, <2>1, <2>2 DEF StartRepair
<1>11. CASE RestoreParent(c)
  BY <1>3, <1>11, Goes DEF RestoreParent, Inserted, row
<1>12. ASSUME prep[c].parent # NoJob,
              \/ OpenLock(c, "refused") \/ ClaimDataset(c, "link", "refused")
              \/ CreateOverlay(c, "cleanup") \/ RecordWorkspace(c, "cleanup")
              \/ PreparationFails(c, "cleanup")
       PROVE  CallInv'
  <2>1. \E s \in {"refused", "claim", "link", "record", "status", "cleanup"} : Goto(c, s)
    BY <1>12 DEF OpenLock, ClaimDataset, CreateOverlay, RecordWorkspace, PreparationFails
  <2>2. Up /\ UNCHANGED <<status, drop, boot>>
    BY <1>12 DEF OpenLock, ClaimDataset, CreateOverlay, RecordWorkspace, PreparationFails, row
  <2>3. prep[c].stage \in {"open", "claim", "overlay", "record", "status"}
    BY <1>12 DEF OpenLock, ClaimDataset, CreateOverlay, RecordWorkspace, PreparationFails
  <2>4. status[c] = "preflighting"
    BY <1>2, <1>12, <2>3 DEF Inserted, RepairStages
  <2> QED BY <1>3, <1>12, <2>1, <2>2, <2>4, Goes
<1> QED BY <1>4, <1>5, <1>6, <1>7, <1>8, <1>9, <1>10, <1>11, <1>12 DEF Repair

\* A run moves only jobs that no call but their own discard or start is about.
LEMMA RunKnows ==
  ASSUME TypeOK, CallInv, NEW j \in Jobs, Run(j)
  PROVE  CallInv'
<1>1. /\ \/ UNCHANGED status
         \/ \E s \in Statuses \ {Unborn, Gone, "ready", "discarded", "preflighting"} :
              status' = [status EXCEPT ![j] = s]
      /\ UNCHANGED <<prep, drop, boot>>
  BY DEF Run, Start, StopForReview, FailRun, ResumeReview, BeginCommit, Publish, Succeed, Cancel,
     Recover, EndRun, SetStatus, Statuses, Unborn, Gone, row, calls
<1>2. ~UNCHANGED status =>
        status[j] \in {"preparing_workspace", "running", "committing", "failed", "reviewing",
                       "interrupted", "cancelled_recoverable"} \cup Cancellable
  BY DEF Run, Start, StopForReview, FailRun, ResumeReview, BeginCommit, Publish, Succeed, Cancel,
     Recover, EndRun, row
<1> QED BY <1>1, <1>2 DEF CallInv, TypeOK, RowType, Cancellable, Statuses, Unborn, Gone, Inserted

\* Every step of a discard keeps what the calls know.
LEMMA DropKnows ==
  ASSUME TypeOK, CallInv, NEW j \in Jobs, DropJob(j)
  PROVE  CallInv'
<1> USE DEF CallInv, TypeOK, RowType, CallType, Calls, ConfirmStages, RepairStages, Inserted,
        SetStatus, Unborn, Gone, Statuses
<1>1. CASE Discard(j)
  BY <1>1, Discardable DEF Discard
<1>2. CASE DiscardAgain(j)
  BY <1>2 DEF DiscardAgain, row
<1>3. CASE ReleaseDiscarded(j)
  BY <1>3 DEF ReleaseDiscarded, row
<1>4. CASE DeleteRecord(j)
  BY <1>4 DEF DeleteRecord, DeleteRow
<1> QED BY <1>1, <1>2, <1>3, <1>4 DEF DropJob

\* No call survives a crash, and none is served before the startup has ended.
LEMMA BootKnows ==
  ASSUME TypeOK, CallInv, Crash \/ Startup
  PROVE  CallInv'
<1> USE DEF CallInv, TypeOK, RowType, CallType, Unborn, Gone, Statuses
<1>1. CASE Crash
  BY <1>1 DEF Crash, Idle, row
<1>2. CASE Freeze
  BY <1>2 DEF Freeze, Exists, NonInterruptible, TerminalStatuses, calls, Inserted
<1>3. CASE SweepClaims
  BY <1>3 DEF SweepClaims, row, calls
<1>4. CASE RecoverCommits
  BY <1>4 DEF RecoverCommits, calls, Inserted
<1>5. CASE PruneOverlay
  BY <1>5 DEF PruneOverlay, row, calls
<1>6. CASE PruneRecord
  BY <1>6 DEF PruneRecord, DeleteRow, SetStatus, calls, Inserted
<1>7. CASE Serve
  BY <1>7 DEF Serve, row, calls
<1> QED BY <1>1, <1>2, <1>3, <1>4, <1>5, <1>6, <1>7 DEF Startup

\* Every step keeps what the calls know.
LEMMA CallStep ==
  ASSUME TypeOK, CallInv, [Next]_vars
  PROVE  CallInv'
<1>1. CASE UNCHANGED vars
  BY <1>1 DEF vars, row, calls, CallInv
<1>2. ASSUME NEW j \in Jobs, Preflight(j)
      PROVE  CallInv'
  BY <1>2 DEF Preflight, SetStatus, Idle, calls, CallInv, TypeOK, RowType, CallType, Unborn, Gone,
     Inserted
<1> QED BY <1>1, <1>2, ConfirmKnows, RepairKnows, RunKnows, DropKnows, BootKnows DEF Next

-----------------------------------------------------------------------------
(* The claim                                                               *)

\* A step that brings no job to work and leaves the claim alone keeps the claims.
LEMMA ClaimLeft ==
  ASSUME ClaimInv, handed \subseteq handed', claim' = claim,
         \A k \in Jobs : Working(k)' => Working(k)
  PROVE  ClaimInv'
BY DEF ClaimInv

\* A step that takes the claim from a job that does not work keeps the claims.
LEMMA ClaimTaken ==
  ASSUME ClaimInv, handed \subseteq handed',
         \A k \in Jobs : Working(k)' => Working(k) /\ (claim = k => claim' = k)
  PROVE  ClaimInv'
BY DEF ClaimInv

\* A step that changes no row brings a job to work only by the stage of its call.
LEMMA SameRow ==
  ASSUME NEW j \in Jobs, UNCHANGED <<status, resume>>, CallType, NEW s, Goto(j, s)
  PROVE  /\ \A k \in Jobs : k # j => (Working(k)' <=> Working(k))
         /\ Working(j)' =>
              Working(j) \/ s \in {"link", "overlay", "record", "status"}
<1>1. prep'[j].stage = s /\ \A k \in Jobs : k # j => prep'[k] = prep[k]
  BY DEF Goto, CallType, Calls
<1> QED BY <1>1 DEF Working

\* A step on one job's row and call leaves the work of the others.
LEMMA OthersWork ==
  ASSUME NEW j \in Jobs, \A k \in Jobs : k # j =>
           status'[k] = status[k] /\ resume'[k] = resume[k] /\ prep'[k].stage = prep[k].stage
  PROVE  \A k \in Jobs : k # j => (Working(k)' <=> Working(k))
BY DEF Working

\* Every step of a confirmation keeps the claims.
LEMMA ConfirmClaims ==
  ASSUME IInv, NEW j \in Jobs, Confirm(j)
  PROVE  ClaimInv'
<1>1. /\ RowType /\ CallType /\ ClaimInv /\ OwnerType
      /\ prep[j].stage # "idle" /\ prep[j].parent = NoJob =>
           status[j] \in {"ready", "discarded", Gone}
      /\ prep[j].stage \in {"release", "undo", "fail"} => prep[j].parent = NoJob
  BY DEF IInv, TypeOK, CallInv, CallType, Calls, RepairStages
<1>2. ASSUME UNCHANGED <<status, resume, claim, handed>>, NEW s,
             Goto(j, s), s \notin {"link", "overlay", "record", "status"}
      PROVE  ClaimInv'
  BY <1>1, <1>2, SameRow, ClaimLeft
<1> USE DEF At
<1>3. CASE BeginConfirm(j)
  BY <1>2, <1>3 DEF BeginConfirm, row, owner
<1>4. CASE RefuseConfirm(j)
  <2>1. status'[j] = "failed" /\ UNCHANGED <<resume, claim, handed, prep>>
        /\ \A k \in Jobs : k # j => status'[k] = status[k]
    BY <1>1, <1>4 DEF RefuseConfirm, SetStatus, RowType, owner, calls
  <2> QED BY <1>1, <2>1, ClaimLeft DEF Working, Runnable
<1>5. CASE ReleaseSucceeded(j)
  <2>1. UNCHANGED <<status, resume, handed>> /\ Goto(j, "open")
    BY <1>5 DEF ReleaseSucceeded, row
  <2>2. \A k \in Jobs : Working(k)' => Working(k)
    BY <1>1, <2>1, SameRow
  <2>3. \A k \in Jobs : Working(k) /\ claim = k => claim' = k
    BY <1>5 DEF ReleaseSucceeded, Working, Runnable
  <2> QED BY <1>1, <2>1, <2>2, <2>3, ClaimTaken
<1>6. CASE ConfirmPrepared(j)
  <2>1. CASE MayBecome(j, "preparing_workspace")
    <3>1. status[j] = "ready"
      BY <1>1, <1>6, <2>1, Becoming DEF ConfirmPrepared
    <3>2. Working(j)
      BY <1>6, <3>1 DEF ConfirmPrepared, Working
    <3>3. UNCHANGED <<resume, claim, handed>> /\ Goto(j, "idle") /\ SetStatus(j, "preparing_workspace")
      BY <1>6, <2>1 DEF ConfirmPrepared
    <3>4. \A k \in Jobs : k # j => (Working(k)' <=> Working(k))
      BY <1>1, <3>3, OthersWork DEF Goto, SetStatus, RowType, CallType
    <3> QED BY <1>1, <3>2, <3>3, <3>4, ClaimLeft
  <2>2. CASE ~MayBecome(j, "preparing_workspace")
    BY <1>2, <1>6, <2>2 DEF ConfirmPrepared
  <2> QED BY <2>1, <2>2
<1>7. CASE UndoConfirm(j)
  <2>1. UNCHANGED <<status, resume, handed>> /\ Goto(j, "fail") /\ Released(j)
    BY <1>7 DEF UndoConfirm, row
  <2>2. ~Working(j) /\ \A k \in Jobs : Working(k)' => Working(k)
    BY <1>1, <1>7, <2>1, SameRow DEF UndoConfirm, Working, Runnable, Gone
  <2> QED BY <1>1, <2>1, <2>2, ClaimTaken DEF Released
<1>8. CASE FailConfirm(j)
  <2>1. CASE MayBecome(j, "failed")
    <3>1. UNCHANGED <<resume, claim, handed>> /\ Goto(j, "idle") /\ SetStatus(j, "failed")
      BY <1>8, <2>1 DEF FailConfirm, owner
    <3>2. \A k \in Jobs : k # j => (Working(k)' <=> Working(k))
      BY <1>1, <3>1, OthersWork DEF Goto, SetStatus, RowType, CallType
    <3>3. ~Working(j)'
      BY <1>1, <3>1 DEF SetStatus, RowType, Working, Runnable
    <3> QED BY <1>1, <3>1, <3>2, <3>3, ClaimLeft
  <2>2. CASE ~MayBecome(j, "failed")
    BY <1>2, <1>8, <2>2 DEF FailConfirm, owner
  <2> QED BY <2>1, <2>2
<1>9. CASE OpenLock(j, "idle")
  BY <1>2, <1>9 DEF OpenLock, row
<1>10. CASE ClaimDataset(j, "overlay", "idle")
  <2>1. CASE Exists(j) /\ Acquirable(j)
    <3>1. claim' = j /\ claim \in {NoJob, j} /\ Goto(j, "overlay")
          /\ UNCHANGED <<status, resume, handed>>
      BY <1>10, <2>1 DEF ClaimDataset, Acquirable, row
    <3> QED BY <1>1, <3>1, SameRow, NoJobAssumption DEF ClaimInv
  <2>2. CASE ~(Exists(j) /\ Acquirable(j))
    BY <1>2, <1>10, <2>2 DEF ClaimDataset, row
  <2> QED BY <2>1, <2>2
<1>11. ASSUME CreateOverlay(j, "undo") \/ RecordWorkspace(j, "undo") \/ PreparationFails(j, "undo")
       PROVE  ClaimInv'
  <2>1. \E s \in {"record", "status", "undo"} : Goto(j, s)
    BY <1>11 DEF CreateOverlay, RecordWorkspace, PreparationFails
  <2>2. UNCHANGED <<status, resume, claim, handed>> /\ prep[j].stage \in {"overlay", "record", "status"}
    BY <1>11 DEF CreateOverlay, RecordWorkspace, PreparationFails, row, owner
  <2>3. Working(j)' => Working(j)
    BY <2>2 DEF Working
  <2> QED BY <1>1, <2>1, <2>2, <2>3, SameRow, ClaimLeft
<1> QED BY <1>3, <1>4, <1>5, <1>6, <1>7, <1>8, <1>9, <1>10, <1>11 DEF Confirm

\* Every step of a repair keeps the claims.
LEMMA RepairClaims ==
  ASSUME IInv, NEW c \in Jobs, Repair(c)
  PROVE  ClaimInv'
<1>1. /\ RowType /\ CallType /\ ClaimInv /\ OwnerType
      /\ prep[c].parent # NoJob /\ prep[c].stage \in Inserted => status[c] = "preflighting"
      /\ prep[c].stage \in {"drop", "insert"} => status[c] = Unborn
  BY DEF IInv, TypeOK, CallInv
<1>2. \A s \in {"drop", "insert", "link", "start", "cleanup", "refused", "restore"} :
        prep[c].stage = s => prep[c].parent \in Jobs
  BY <1>1 DEF CallType, Calls, ConfirmStages
<1>3. ASSUME UNCHANGED <<status, resume, claim, handed>>, NEW s,
             Goto(c, s), s \notin {"link", "overlay", "record", "status"}
      PROVE  ClaimInv'
  BY <1>1, <1>3, SameRow, ClaimLeft
<1> USE DEF At
<1>4. ASSUME NEW p \in Jobs, BeginRepair(c, p)
      PROVE  ClaimInv'
  <2>1. UNCHANGED <<status, resume, claim, handed>> /\ status[c] = Unborn
    BY <1>4 DEF BeginRepair, row, owner
  <2>2. \A k \in Jobs : k # c => prep'[k] = prep[k]
    BY <1>1, <1>4 DEF BeginRepair, CallType
  <2>3. ~Working(c)'
    BY <2>1 DEF Working, Runnable, Unborn
  <2> QED BY <1>1, <2>1, <2>2, <2>3, OthersWork, ClaimLeft
<1>5. CASE ReleaseParent(c)
  <2>1. PICK p \in Jobs : p = prep[c].parent
    BY <1>2, <1>5 DEF ReleaseParent
  <2>2. UNCHANGED <<status, resume>> /\ handed' = handed \cup {p} /\ Released(p)
    BY <1>5, <2>1 DEF ReleaseParent, row
  <2>3. prep'[c].stage = "insert" /\ \A k \in Jobs : k # c => prep'[k] = prep[k]
    BY <1>1, <1>5 DEF ReleaseParent, CallType, Calls
  <2>4. \A k \in Jobs : Working(k)' => Working(k)
    BY <2>2, <2>3 DEF Working
  <2> QED BY <1>1, <2>2, <2>4 DEF ClaimInv, Released
<1>6. CASE InsertRepair(c)
  <2>1. CASE Goto(c, "open") /\ SetStatus(c, "preflighting")
    <3>1. UNCHANGED <<resume, claim, handed>>
      BY <1>6 DEF InsertRepair, owner
    <3>2. ~Working(c)'
      BY <1>1, <2>1 DEF SetStatus, Goto, RowType, CallType, Calls, Working, Runnable
    <3>3. \A k \in Jobs : k # c => (Working(k)' <=> Working(k))
      BY <1>1, <2>1, <3>1, OthersWork DEF SetStatus, Goto, RowType, CallType
    <3> QED BY <1>1, <3>1, <3>2, <3>3, ClaimLeft
  <2>2. CASE Goto(c, "restore") /\ UNCHANGED status
    BY <1>3, <1>6, <2>2 DEF InsertRepair, owner
  <2> QED BY <1>6, <2>1, <2>2 DEF InsertRepair
<1>7. CASE LinkParent(c)
  <2>1. \E s \in {"overlay", "cleanup"} : Goto(c, s)
    BY <1>7 DEF LinkParent
  <2>2. UNCHANGED <<status, resume, claim, handed>> /\ Working(c)
    BY <1>1, <1>2, <1>7, NoJobAssumption DEF LinkParent, owner, Working, Inserted, RepairStages
  <2> QED BY <1>1, <2>1, <2>2, SameRow, ClaimLeft
<1>8. CASE RepairPrepared(c)
  <2>1. Working(c)
    BY <1>1, <1>8 DEF RepairPrepared, Working, Inserted, RepairStages
  <2>2. UNCHANGED <<resume, claim, handed>> /\ Goto(c, "start") /\ SetStatus(c, "preparing_workspace")
    BY <1>8 DEF RepairPrepared
  <2>3. \A k \in Jobs : k # c => (Working(k)' <=> Working(k))
    BY <1>1, <2>2, OthersWork DEF SetStatus, Goto, RowType, CallType
  <2> QED BY <1>1, <2>1, <2>2, <2>3, ClaimLeft
<1>9. CASE CleanUpRepair(c)
  <2>1. PICK s \in {"idle", "restore"} : Goto(c, s)
    BY <1>9 DEF CleanUpRepair
  <2>2. UNCHANGED <<resume, handed>> /\ SetStatus(c, Gone) /\ Released(c)
    BY <1>9 DEF CleanUpRepair
  <2>3. ~Working(c)'
    BY <1>1, <2>1, <2>2 DEF SetStatus, RowType, Working, Runnable, Gone
  <2>4. \A k \in Jobs : k # c => (Working(k)' <=> Working(k))
    BY <1>1, <2>1, <2>2, OthersWork DEF SetStatus, Goto, RowType, CallType
  <2> QED BY <1>1, <2>2, <2>3, <2>4, ClaimTaken DEF Released
<1>10. CASE StartRepair(c)
  <2>1. CASE Goto(c, "idle") /\ SetStatus(c, "running") /\ status[c] = "preparing_workspace"
    <3>1. UNCHANGED <<resume, claim, handed>> /\ Working(c)
      BY <1>10, <2>1 DEF StartRepair, owner, Working, Runnable
    <3>2. \A k \in Jobs : k # c => (Working(k)' <=> Working(k))
      BY <1>1, <2>1, <3>1, OthersWork DEF SetStatus, Goto, RowType, CallType
    <3> QED BY <1>1, <3>1, <3>2, ClaimLeft
  <2>2. CASE Goto(c, "restore") /\ UNCHANGED status
    BY <1>3, <1>10, <2>2 DEF StartRepair, owner
  <2> QED BY <1>10, <2>1, <2>2 DEF StartRepair
<1>11. CASE RestoreParent(c)
  <2>1. UNCHANGED <<status, resume, handed>> /\ Goto(c, "idle")
    BY <1>11 DEF RestoreParent, row
  <2>2. \A k \in Jobs : Working(k)' => Working(k)
    BY <1>1, <2>1, SameRow
  <2>3. \A k \in Jobs : claim = k => claim' = k
    BY <1>1, <1>11, NoJobAssumption DEF RestoreParent, Acquirable
  <2> QED BY <1>1, <2>1, <2>2, <2>3, ClaimTaken
<1>12. CASE OpenLock(c, "refused")
  BY <1>3, <1>12 DEF OpenLock, row
<1>13. CASE ClaimDataset(c, "link", "refused")
  <2>1. CASE Exists(c) /\ Acquirable(c)
    <3>1. claim' = c /\ claim \in {NoJob, c} /\ Goto(c, "link")
          /\ UNCHANGED <<status, resume, handed>>
      BY <1>13, <2>1 DEF ClaimDataset, Acquirable, row
    <3> QED BY <1>1, <3>1, SameRow, NoJobAssumption DEF ClaimInv
  <2>2. CASE ~(Exists(c) /\ Acquirable(c))
    BY <1>3, <1>13, <2>2 DEF ClaimDataset, row
  <2> QED BY <2>1, <2>2
<1>14. ASSUME CreateOverlay(c, "cleanup") \/ RecordWorkspace(c, "cleanup")
                \/ PreparationFails(c, "cleanup")
       PROVE  ClaimInv'
  <2>1. \E s \in {"record", "status", "cleanup"} : Goto(c, s)
    BY <1>14 DEF CreateOverlay, RecordWorkspace, PreparationFails
  <2>2. UNCHANGED <<status, resume, claim, handed>> /\ prep[c].stage \in {"overlay", "record", "status"}
    BY <1>14 DEF CreateOverlay, RecordWorkspace, PreparationFails, row, owner
  <2>3. Working(c)' => Working(c)
    BY <2>2 DEF Working
  <2> QED BY <1>1, <2>1, <2>2, <2>3, SameRow, ClaimLeft
<1> QED BY <1>4, <1>5, <1>6, <1>7, <1>8, <1>9, <1>10, <1>11, <1>12, <1>13, <1>14 DEF Repair

\* A run starts, and a cancelled or interrupted one goes on, only from work: the claim is
\* never looked at again.
LEMMA RunClaims ==
  ASSUME IInv, NEW j \in Jobs, Run(j)
  PROVE  ClaimInv'
<1>1. RowType /\ ClaimInv
  BY DEF IInv, TypeOK
<1>2. UNCHANGED <<claim, handed, prep>>
  BY DEF Run, Start, StopForReview, FailRun, ResumeReview, BeginCommit, Publish, Succeed, Cancel,
     Recover, owner, calls
<1>3. \A k \in Jobs : k # j => status'[k] = status[k] /\ resume'[k] = resume[k]
  BY <1>1 DEF Run, Start, StopForReview, FailRun, ResumeReview, BeginCommit, Publish, Succeed,
     Cancel, Recover, EndRun, SetStatus, RowType, row
<1>4. Working(j)' => Working(j)
  <2>1. CASE Publish(j)
    BY <1>2, <2>1 DEF Publish, row, Working
  <2>2. CASE Cancel(j)
    BY <1>1, <2>2 DEF Cancel, RowType, Statuses, Unborn, Gone, Cancellable, Working, Runnable
  <2>3. CASE Recover(j)
    BY <1>1, <2>3 DEF Recover, Working, Runnable
  <2>4. CASE FailRun(j) \/ Succeed(j)
    BY <1>1, <1>2, <2>4 DEF FailRun, Succeed, EndRun, SetStatus, RowType, Working, Runnable
  <2>5. CASE Start(j) \/ StopForReview(j) \/ ResumeReview(j) \/ BeginCommit(j)
    BY <2>5 DEF Start, StopForReview, EndRun, ResumeReview, BeginCommit, Working, Runnable
  <2> QED BY <2>1, <2>2, <2>3, <2>4, <2>5 DEF Run
<1> QED BY <1>1, <1>2, <1>3, <1>4, OthersWork, ClaimLeft

\* Every step of a discard keeps the claims of the others.
LEMMA DropClaims ==
  ASSUME IInv, NEW j \in Jobs, DropJob(j)
  PROVE  ClaimInv'
<1>1. /\ RowType /\ CallType /\ ClaimInv /\ OwnerType
      /\ drop[j] # "idle" => status[j] \in {"discarded", Gone}
  BY DEF IInv, TypeOK, CallInv
<1>2. UNCHANGED <<resume, handed, prep>>
  BY DEF DropJob, Discard, DiscardAgain, ReleaseDiscarded, DeleteRecord, row
<1>3. CASE Discard(j)
  <2>1. status' = [status EXCEPT ![j] = "discarded"] /\ claim' = IF claim = j THEN NoJob ELSE claim
    BY <1>3 DEF Discard, SetStatus
  <2>2. ~Working(j)'
    BY <1>1, <2>1 DEF RowType, Working, Runnable
  <2>3. \A k \in Jobs : k # j => (Working(k)' <=> Working(k))
    BY <1>1, <1>2, <2>1, OthersWork DEF RowType
  <2> QED BY <1>1, <1>2, <2>1, <2>2, <2>3, ClaimTaken
<1>4. CASE DiscardAgain(j)
  BY <1>1, <1>2, <1>4, ClaimLeft DEF DiscardAgain, row, owner, Working
<1>5. CASE ReleaseDiscarded(j)
  <2>1. ~Working(j)
    BY <1>1, <1>5 DEF ReleaseDiscarded, Working, Runnable, Gone
  <2>2. status' = status /\ (claim' = claim \/ claim = j)
    BY <1>5 DEF ReleaseDiscarded, Released, row
  <2>3. \A k \in Jobs : Working(k)' <=> Working(k)
    BY <1>2, <2>2 DEF Working
  <2> QED BY <1>1, <1>2, <2>1, <2>2, <2>3, ClaimTaken
<1>6. CASE DeleteRecord(j)
  <2>1. status' = [status EXCEPT ![j] = Gone] /\ claim' = IF claim = j THEN NoJob ELSE claim
    BY <1>6 DEF DeleteRecord, DeleteRow, SetStatus
  <2>2. ~Working(j)'
    BY <1>1, <2>1 DEF RowType, Working, Runnable, Gone
  <2>3. \A k \in Jobs : k # j => (Working(k)' <=> Working(k))
    BY <1>1, <1>2, <2>1, OthersWork DEF RowType
  <2> QED BY <1>1, <1>2, <2>1, <2>2, <2>3, ClaimTaken
<1> QED BY <1>3, <1>4, <1>5, <1>6 DEF DropJob

\* A crash keeps the row of the claim, and the startup takes it from succeeded and deleted
\* jobs only.
LEMMA BootClaims ==
  ASSUME IInv, Crash \/ Startup
  PROVE  ClaimInv'
<1>1. RowType /\ CallType /\ ClaimInv /\ OwnerType
  BY DEF IInv, TypeOK
<1>2. CASE Crash
  BY <1>1, <1>2, ClaimLeft DEF Crash, Idle, row, Working
<1>3. CASE Freeze
  <2>1. UNCHANGED <<prep, claim, handed>>
    BY <1>3 DEF Freeze, owner, calls
  <2>2. ASSUME NEW k \in Jobs, Working(k)'
        PROVE  Working(k)
    <3>1. CASE status'[k] = status[k] /\ resume'[k] = resume[k]
      BY <2>1, <2>2, <3>1 DEF Working
    <3>2. CASE status'[k] = "interrupted" /\ resume'[k] = status[k]
      BY <2>2, <3>2 DEF Working, Runnable
    <3> QED BY <1>1, <1>3, <3>1, <3>2, Resumed DEF Freeze
  <2> QED BY <1>1, <2>1, <2>2, ClaimLeft
<1>4. CASE SweepClaims
  BY <1>1, <1>4, ClaimTaken DEF SweepClaims, row, calls, Working, Runnable
<1>5. CASE RecoverCommits
  <2>1. UNCHANGED <<resume, prep, claim, handed>>
        /\ \A k \in Jobs : status'[k] \in {"succeeded", "failed", status[k]}
    BY <1>5 DEF RecoverCommits, owner, calls
  <2> QED BY <1>1, <2>1, ClaimLeft DEF Working, Runnable
<1>6. CASE PruneOverlay \/ Serve
  BY <1>1, <1>6, ClaimLeft DEF PruneOverlay, Serve, row, owner, calls, Working
<1>7. CASE PruneRecord
  <2>1. UNCHANGED <<resume, prep, handed>>
    BY <1>7 DEF PruneRecord, calls
  <2>2. CASE DeleteRow(Last(prune))
    BY <1>1, <2>1, <2>2, ClaimTaken DEF DeleteRow, SetStatus, RowType, Working, Runnable, Gone
  <2>3. CASE UNCHANGED <<status, claim>>
    BY <1>1, <2>1, <2>3, ClaimLeft DEF Working
  <2> QED BY <1>7, <2>2, <2>3 DEF PruneRecord
<1> QED BY <1>2, <1>3, <1>4, <1>5, <1>6, <1>7 DEF Startup

\* Every step keeps the claims.
LEMMA ClaimStep ==
  ASSUME IInv, [Next]_vars
  PROVE  ClaimInv'
<1>1. RowType /\ ClaimInv
  BY DEF IInv, TypeOK
<1>2. CASE UNCHANGED vars
  BY <1>1, <1>2, ClaimLeft DEF vars, row, owner, calls, Working
<1>3. ASSUME NEW j \in Jobs, Preflight(j)
      PROVE  ClaimInv'
  <2>1. prep[j].stage = "idle" /\ UNCHANGED <<resume, claim, handed, prep>> /\ SetStatus(j, "ready")
    BY <1>3 DEF Preflight, Idle, owner, calls
  <2> QED BY <1>1, <2>1, ClaimLeft DEF SetStatus, RowType, Working, Runnable
<1> QED BY <1>2, <1>3, ConfirmClaims, RepairClaims, RunClaims, DropClaims, BootClaims DEF Next

-----------------------------------------------------------------------------
(* The parent                                                              *)

\* A row that was there and prepared once never goes back to before.
Kept(p) == status[p] \notin {Unborn, "preflighting"} => status'[p] \notin {Unborn, "preflighting"}

\* A row with a repair is neither discarded nor deleted.
ParentStays(p) ==
  status[p] \notin {Unborn, Gone, "preflighting", "discarded"} /\ (\E c \in Jobs : parent[c] = p) =>
    status'[p] \notin {Unborn, Gone, "preflighting", "discarded"}

\* A step that links no repair and inserts none keeps the parents.
LEMMA ParentLeft ==
  ASSUME ParentInv,
         \A p \in Jobs : Kept(p) /\ ParentStays(p),
         \A c \in Jobs : parent'[c] = parent[c] \/ parent'[c] \notin Jobs,
         \A c \in Jobs : prep'[c].stage \in {"open", "claim", "link"} /\ prep'[c].parent \in Jobs =>
           prep[c].stage \in {"open", "claim", "link"} /\ prep'[c].parent = prep[c].parent
  PROVE  ParentInv'
BY DEF ParentInv, Kept, ParentStays

\* A step that changes no row but one, to a status a parent may have, keeps all of them.
LEMMA RowKept ==
  ASSUME NEW j \in Jobs, \A p \in Jobs : p # j => status'[p] = status[p],
         status'[j] \notin {Unborn, Gone, "preflighting", "discarded"} \/ status'[j] = status[j]
  PROVE  \A p \in Jobs : Kept(p) /\ ParentStays(p)
BY DEF Kept, ParentStays

\* A call that goes on has the parent it had.
LEMMA SameCall ==
  ASSUME CallType, NEW j \in Jobs, NEW s, Goto(j, s)
  PROVE  /\ prep'[j].stage = s /\ prep'[j].parent = prep[j].parent
         /\ \A k \in Jobs : k # j => prep'[k] = prep[k]
BY DEF CallType, Calls, Goto

\* Every step of a confirmation keeps the parents.
LEMMA ConfirmParents ==
  ASSUME IInv, NEW j \in Jobs, Confirm(j)
  PROVE  ParentInv'
<1>1. RowType /\ CallType /\ ParentInv
  BY DEF IInv, TypeOK
<1>2. UNCHANGED parent
  BY DEF Confirm, BeginConfirm, RefuseConfirm, ReleaseSucceeded, ConfirmPrepared, UndoConfirm,
     FailConfirm, OpenLock, ClaimDataset, CreateOverlay, RecordWorkspace, PreparationFails, row
<1>3. \A p \in Jobs : Kept(p) /\ ParentStays(p)
  <2>1. \/ UNCHANGED status
        \/ \E s \in {"failed", "preparing_workspace"} : status' = [status EXCEPT ![j] = s]
    BY DEF Confirm, BeginConfirm, RefuseConfirm, ReleaseSucceeded, ConfirmPrepared, UndoConfirm,
       FailConfirm, OpenLock, ClaimDataset, CreateOverlay, RecordWorkspace, PreparationFails, row,
       SetStatus
  <2> QED BY <1>1, <2>1, RowKept DEF RowType, Unborn, Gone
<1>4. \A k \in Jobs : prep'[k].stage \in {"open", "claim", "link"} /\ prep'[k].parent \in Jobs =>
        prep[k].stage \in {"open", "claim", "link"} /\ prep'[k].parent = prep[k].parent
  <2>1. prep[j].parent = NoJob \/ prep[j].stage = "idle"
          \/ UNCHANGED prep
    BY <1>1 DEF Confirm, BeginConfirm, RefuseConfirm, ReleaseSucceeded, ConfirmPrepared, UndoConfirm,
       FailConfirm, At, CallType, Calls, RepairStages, calls
  <2>2. UNCHANGED prep \/ \E s \in ConfirmStages : Goto(j, s)
    BY DEF Confirm, BeginConfirm, RefuseConfirm, ReleaseSucceeded, ConfirmPrepared, UndoConfirm,
       FailConfirm, OpenLock, ClaimDataset, CreateOverlay, RecordWorkspace, PreparationFails,
       ConfirmStages, calls
  <2>3. prep[j].stage = "idle" => UNCHANGED prep \/ Goto(j, "release")
    BY DEF Confirm, BeginConfirm, RefuseConfirm, ReleaseSucceeded, ConfirmPrepared, UndoConfirm,
       FailConfirm, OpenLock, ClaimDataset, CreateOverlay, RecordWorkspace, PreparationFails, At,
       calls
  <2> QED BY <1>1, <2>1, <2>2, <2>3, SameCall, NoJobAssumption
<1> QED BY <1>1, <1>2, <1>3, <1>4, ParentLeft

\* A repair is linked to a parent that is there; every other step of it keeps the parents.
LEMMA RepairParents ==
  ASSUME IInv, NEW c \in Jobs, Repair(c)
  PROVE  ParentInv'
<1>1. /\ RowType /\ CallType /\ ParentInv
      /\ prep[c].parent # NoJob /\ prep[c].stage \in Inserted => status[c] = "preflighting"
      /\ prep[c].stage \in {"drop", "insert"} => status[c] = Unborn
  BY DEF IInv, TypeOK, CallInv
<1>2. \A s \in {"drop", "insert", "link", "start", "cleanup", "refused", "restore"} :
        prep[c].stage = s => prep[c].parent \in Jobs
  BY <1>1 DEF CallType, Calls, ConfirmStages
<1>3. ASSUME UNCHANGED <<status, parent>>, NEW s, Goto(c, s),
             s \in {"open", "claim", "link"} => prep[c].stage \in {"open", "claim", "link"}
      PROVE  ParentInv'
  <2>1. \A p \in Jobs : Kept(p) /\ ParentStays(p)
    BY <1>3 DEF Kept, ParentStays
  <2> QED BY <1>1, <1>3, <2>1, SameCall, ParentLeft
<1> USE DEF At
<1>4. ASSUME NEW p \in Jobs, BeginRepair(c, p)
      PROVE  ParentInv'
  <2>1. UNCHANGED <<status, parent>>
    BY <1>4 DEF BeginRepair, row
  <2>2. prep'[c].stage \in {"drop", "insert"} /\ \A k \in Jobs : k # c => prep'[k] = prep[k]
    BY <1>1, <1>4 DEF BeginRepair, CallType
  <2> QED BY <1>1, <2>1, <2>2, ParentLeft DEF Kept, ParentStays
<1>5. CASE ReleaseParent(c)
  <2>1. UNCHANGED <<status, parent>>
    BY <1>5 DEF ReleaseParent, row
  <2>2. prep'[c].stage = "insert" /\ \A k \in Jobs : k # c => prep'[k] = prep[k]
    BY <1>1, <1>5 DEF ReleaseParent, CallType, Calls
  <2> QED BY <1>1, <2>1, <2>2, ParentLeft DEF Kept, ParentStays
<1>6. CASE InsertRepair(c)
  <2>1. PICK p \in Jobs : p = prep[c].parent
    BY <1>2, <1>6 DEF InsertRepair
  <2>2. UNCHANGED parent /\ status[c] = Unborn
    BY <1>1, <1>6 DEF InsertRepair
  <2>3. CASE status[p] \in Repairable
    <3>1. Goto(c, "open") /\ status' = [status EXCEPT ![c] = "preflighting"]
      BY <1>6, <2>1, <2>3 DEF InsertRepair, SetStatus
    <3>2. /\ prep'[c].stage = "open" /\ prep'[c].parent = p
          /\ \A k \in Jobs : k # c => prep'[k] = prep[k]
      BY <1>1, <2>1, <3>1, SameCall
    <3>3. \A q \in Jobs : q # c => status'[q] = status[q]
      BY <1>1, <3>1 DEF RowType
    <3>4. \A k, q \in Jobs : parent'[k] = q =>
            status'[q] \notin {Unborn, Gone, "preflighting", "discarded"}
      BY <1>1, <2>2, <3>3 DEF ParentInv
    <3>5. \A k, q \in Jobs : k # c /\ prep'[k].stage \in {"open", "claim", "link"}
                               /\ prep'[k].parent = q =>
            status'[q] \notin {Unborn, "preflighting"}
      BY <1>1, <2>2, <3>2, <3>3 DEF ParentInv
    <3>6. status'[p] \notin {Unborn, "preflighting"}
      BY <2>2, <2>3, <3>3 DEF Repairable, Unborn
    <3> QED BY <3>2, <3>4, <3>5, <3>6 DEF ParentInv
  <2>4. CASE status[p] \notin Repairable
    BY <1>3, <1>6, <2>1, <2>2, <2>4 DEF InsertRepair
  <2> QED BY <2>3, <2>4
<1>7. CASE LinkParent(c)
  <2>1. PICK p \in Jobs : p = prep[c].parent
    BY <1>2, <1>7 DEF LinkParent
  <2>2. CASE Exists(p) /\ status[p] # "discarded"
    <3>1. Goto(c, "overlay") /\ parent' = [parent EXCEPT ![c] = p] /\ UNCHANGED status
      BY <1>7, <2>1, <2>2 DEF LinkParent
    <3>2. /\ prep'[c].stage = "overlay" /\ \A k \in Jobs : k # c => prep'[k] = prep[k]
          /\ parent'[c] = p /\ \A k \in Jobs : k # c => parent'[k] = parent[k]
      BY <1>1, <3>1, SameCall DEF RowType
    <3>3. status[p] \notin {Unborn, Gone, "preflighting", "discarded"}
      BY <1>1, <1>7, <2>1, <2>2 DEF LinkParent, ParentInv, Exists
    <3> QED BY <1>1, <3>1, <3>2, <3>3 DEF ParentInv
  <2>3. CASE ~(Exists(p) /\ status[p] # "discarded")
    BY <1>3, <1>7, <2>1, <2>3 DEF LinkParent
  <2> QED BY <2>2, <2>3
<1>8. CASE RepairPrepared(c)
  <2>1. Goto(c, "start") /\ UNCHANGED parent /\ status' = [status EXCEPT ![c] = "preparing_workspace"]
    BY <1>8 DEF RepairPrepared, SetStatus
  <2>2. \A p \in Jobs : Kept(p) /\ ParentStays(p)
    BY <1>1, <2>1, RowKept DEF RowType, Unborn, Gone
  <2> QED BY <1>1, <2>1, <2>2, SameCall, ParentLeft
<1>9. CASE CleanUpRepair(c)
  <2>1. PICK s \in {"idle", "restore"} : Goto(c, s)
    BY <1>9 DEF CleanUpRepair
  <2>2. status[c] = "preflighting"
    BY <1>1, <1>2, <1>9, NoJobAssumption DEF CleanUpRepair, Inserted, RepairStages
  <2>3. status' = [status EXCEPT ![c] = Gone] /\ parent' = [parent EXCEPT ![c] = NoJob]
    BY <1>9 DEF CleanUpRepair, SetStatus
  <2>4. \A p \in Jobs : Kept(p) /\ ParentStays(p)
    BY <1>1, <2>2, <2>3 DEF RowType, Kept, ParentStays, Unborn, Gone
  <2>5. \A k \in Jobs : parent'[k] = parent[k] \/ parent'[k] \notin Jobs
    BY <1>1, <2>3, NoJobAssumption DEF RowType
  <2> QED BY <1>1, <2>1, <2>4, <2>5, SameCall, ParentLeft
<1>10. CASE StartRepair(c)
  <2>1. PICK s \in {"idle", "restore"} : Goto(c, s)
    BY <1>10 DEF StartRepair
  <2>2. UNCHANGED parent /\ (UNCHANGED status \/ status' = [status EXCEPT ![c] = "running"])
    BY <1>10 DEF StartRepair, SetStatus
  <2>3. \A p \in Jobs : Kept(p) /\ ParentStays(p)
    BY <1>1, <2>2, RowKept DEF RowType, Unborn, Gone
  <2> QED BY <1>1, <2>1, <2>2, <2>3, SameCall, ParentLeft
<1>11. CASE RestoreParent(c)
  BY <1>3, <1>11 DEF RestoreParent, row
<1>12. ASSUME \/ OpenLock(c, "refused") \/ ClaimDataset(c, "link", "refused")
              \/ CreateOverlay(c, "cleanup") \/ RecordWorkspace(c, "cleanup")
              \/ PreparationFails(c, "cleanup")
       PROVE  ParentInv'
  BY <1>3, <1>12 DEF OpenLock, ClaimDataset, CreateOverlay, RecordWorkspace, PreparationFails, row
<1> QED BY <1>4, <1>5, <1>6, <1>7, <1>8, <1>9, <1>10, <1>11, <1>12 DEF Repair

\* The run of a job keeps the parents.
LEMMA RunParents ==
  ASSUME IInv, NEW j \in Jobs, Run(j)
  PROVE  ParentInv'
<1>1. RowType /\ CallType /\ ParentInv
  BY DEF IInv, TypeOK
<1>2. /\ \/ UNCHANGED status
         \/ \E s \in Statuses \ {Unborn, Gone, "preflighting", "discarded"} :
              status' = [status EXCEPT ![j] = s]
      /\ UNCHANGED <<prep, parent>>
  BY DEF Run, Start, StopForReview, FailRun, ResumeReview, BeginCommit, Publish, Succeed, Cancel,
     Recover, EndRun, SetStatus, Statuses, Unborn, Gone, row, calls
<1>3. \A p \in Jobs : Kept(p) /\ ParentStays(p)
  BY <1>1, <1>2, RowKept DEF RowType
<1> QED BY <1>1, <1>2, <1>3, ParentLeft

\* What is discarded has no repair children, and what is deleted was discarded before.
LEMMA DropParents ==
  ASSUME IInv, NEW j \in Jobs, DropJob(j)
  PROVE  ParentInv'
<1>1. /\ RowType /\ CallType /\ ParentInv
      /\ drop[j] # "idle" => status[j] \in {"discarded", Gone}
  BY DEF IInv, TypeOK, CallInv
<1>2. UNCHANGED prep
  BY DEF DropJob, Discard, DiscardAgain, ReleaseDiscarded, DeleteRecord
<1>3. CASE Discard(j)
  <2>1. UNCHANGED parent /\ status' = [status EXCEPT ![j] = "discarded"] /\ Children(j) = {}
    BY <1>3 DEF Discard, SetStatus
  <2>2. \A p \in Jobs : Kept(p) /\ ParentStays(p)
    BY <1>1, <2>1 DEF RowType, Kept, ParentStays, Children, Unborn
  <2> QED BY <1>1, <1>2, <2>1, <2>2, ParentLeft
<1>4. CASE DiscardAgain(j) \/ ReleaseDiscarded(j)
  BY <1>1, <1>2, <1>4, ParentLeft DEF DiscardAgain, ReleaseDiscarded, row, Kept, ParentStays
<1>5. CASE DeleteRecord(j)
  <2>1. /\ status' = [status EXCEPT ![j] = Gone] /\ parent' = [parent EXCEPT ![j] = NoJob]
        /\ status[j] \in {"discarded", Gone}
    BY <1>1, <1>5 DEF DeleteRecord, DeleteRow, SetStatus
  <2>2. \A p \in Jobs : Kept(p) /\ ParentStays(p)
    BY <1>1, <2>1 DEF RowType, Kept, ParentStays, Unborn, Gone
  <2>3. \A k \in Jobs : parent'[k] = parent[k] \/ parent'[k] \notin Jobs
    BY <1>1, <2>1, NoJobAssumption DEF RowType
  <2> QED BY <1>1, <1>2, <2>2, <2>3, ParentLeft
<1> QED BY <1>3, <1>4, <1>5 DEF DropJob

\* No repair is served while the process starts, and the retention deletes no parent.
LEMMA BootParents ==
  ASSUME IInv, Crash \/ Startup
  PROVE  ParentInv'
<1>1. RowType /\ CallType /\ ParentInv
  BY DEF IInv, TypeOK
<1>2. CASE Crash
  BY <1>1, <1>2, ParentLeft DEF Crash, Idle, row, Kept, ParentStays
<1>3. CASE Freeze
  BY <1>1, <1>3, ParentLeft DEF Freeze, calls, Kept, ParentStays, Unborn, Gone
<1>4. CASE SweepClaims \/ PruneOverlay \/ Serve
  BY <1>1, <1>4, ParentLeft DEF SweepClaims, PruneOverlay, Serve, row, calls, Kept, ParentStays
<1>5. CASE RecoverCommits
  <2>1. UNCHANGED <<parent, prep>>
        /\ \A k \in Jobs : status'[k] \in {"succeeded", "failed", status[k]}
    BY <1>5 DEF RecoverCommits, calls
  <2> QED BY <1>1, <2>1, ParentLeft DEF Kept, ParentStays, Unborn, Gone
<1>6. CASE PruneRecord
  <2>1. UNCHANGED prep
    BY <1>6 DEF PruneRecord, calls
  <2>2. CASE Children(Last(prune)) = {} /\ DeleteRow(Last(prune))
    <3>1. \A p \in Jobs : status'[p] = status[p] \/ (status'[p] = Gone /\ p = Last(prune))
      BY <1>1, <2>2 DEF DeleteRow, SetStatus, RowType
    <3>2. \A p \in Jobs : Kept(p) /\ ParentStays(p)
      BY <2>2, <3>1 DEF Children, Kept, ParentStays, Unborn, Gone
    <3>3. \A k \in Jobs : parent'[k] = parent[k] \/ parent'[k] \notin Jobs
      BY <1>1, <2>2, NoJobAssumption DEF DeleteRow, RowType
    <3> QED BY <1>1, <2>1, <3>2, <3>3, ParentLeft
  <2>3. CASE UNCHANGED <<status, parent>>
    BY <1>1, <2>1, <2>3, ParentLeft DEF Kept, ParentStays
  <2> QED BY <1>6, <2>2, <2>3 DEF PruneRecord
<1> QED BY <1>2, <1>3, <1>4, <1>5, <1>6 DEF Startup

\* Every step keeps the parents.
LEMMA ParentStep ==
  ASSUME IInv, [Next]_vars
  PROVE  ParentInv'
<1>1. RowType /\ ParentInv
  BY DEF IInv, TypeOK
<1>2. CASE UNCHANGED vars
  BY <1>1, <1>2, ParentLeft DEF vars, row, calls, Kept, ParentStays
<1>3. ASSUME NEW j \in Jobs, Preflight(j)
      PROVE  ParentInv'
  BY <1>1, <1>3, ParentLeft DEF Preflight, SetStatus, RowType, calls, Kept, ParentStays, Unborn, Gone
<1> QED BY <1>2, <1>3, ConfirmParents, RepairParents, RunParents, DropParents, BootParents DEF Next

-----------------------------------------------------------------------------
(* Theorems                                                                *)

\* The invariant holds at the first startup.
LEMMA InitInv ==
  ASSUME Init
  PROVE  IInv
BY NoJobAssumption
   DEF Init, IInv, TypeOK, RowType, OwnerType, WorkType, CallType, Calls, ConfirmStages, Statuses,
       CallInv, ClaimInv, ParentInv, Working, Runnable, Inserted, Idle, NoLock, Unborn, Gone

\* The invariant holds in every state of a behaviour.
LEMMA Invariant == Spec => []IInv
<1>1. Init => IInv
  BY InitInv
<1>2. IInv /\ [Next]_vars => IInv'
  BY TypeStep, CallStep, ClaimStep, ParentStep DEF IInv
<1> QED BY <1>1, <1>2, PTL DEF Spec

\* Rows, claims, locks and calls keep their types (the columns of jobs and dataset_claims).
THEOREM TypeCorrect == Spec => []TypeOK
<1>1. IInv => TypeOK
  BY DEF IInv
<1> QED BY <1>1, Invariant, PTL

\* For any number of jobs and any crashes: a job that runs owns the claim of the dataset or
\* has given it to a repair of its own (DatasetLock.acquire, recover_job).
THEOREM ClaimOwned == Spec => []RunsOnOwnClaim
<1>1. IInv => RunsOnOwnClaim
  BY DEF IInv, TypeOK, WorkType, ClaimInv, Working, Runnable, RunsOnOwnClaim
<1> QED BY <1>1, Invariant, PTL

\* For any number of jobs and any crashes: the parent of a repair is there and not
\* discarded (create_repair_link, ensure_delete_allowed).
THEOREM ParentsKept == Spec => []RepairHasParent
<1>1. IInv => RepairHasParent
  BY DEF IInv, TypeOK, RowType, ParentInv, RepairHasParent, Exists
<1> QED BY <1>1, Invariant, PTL

=============================================================================

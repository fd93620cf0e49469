--------------------------- MODULE AnnotationRestore ---------------------------
(***************************************************************************)
(* The user restores the annotations that a finished job has replaced:     *)
(* the dataset is mirrored, the backup is written over the mirror and the  *)
(* two directories are switched, like in a commit, but under a one-shot    *)
(* overlay that no jobs row names and without the dataset's claim.  So     *)
(* restorations of several jobs and the commit of another job may switch   *)
(* the same directory at a time, any step may fail, and after a crash only *)
(* the commit is recovered.                                                *)
(*                                                                         *)
(* A directory is absent, partial, or whole and then named for whoever     *)
(* made it.  ExportCommit has the commit on its own in full; here it stands *)
(* for its directory operations.                                           *)
(***************************************************************************)
EXTENDS Integers, FiniteSets

CONSTANTS
  Restores,    \* finished jobs with a backup, each with a restoration the user may ask for
  Exports,     \* jobs that may commit to the dataset
  MaxFaults    \* failing operations and crashes of a behaviour (bound)

\* A job restores or commits, and no job is named like a directory that is absent or partial
\* (MCExportCommit assumes it).
Distinct ==
  /\ Restores \cap Exports = {}
  /\ {"absent", "partial"} \cap (Restores \cup Exports) = {}

VARIABLES
  dataset,     \* what stands at the dataset's path
  staging, rollback,   \* the sibling directories of each switch
  overlay,     \* the overlay directories that exist
  journal,     \* the commit journal in the overlay
  pc,          \* the step each request or commit is at
  promoted,    \* staging_promoted of ExportCommitCoordinator.commit
  up,          \* the backend serves, or is down, or cannot start any more
  faults, overlapped   \* a bound and a history

trees == <<dataset, staging, rollback>>
vars == <<trees, overlay, journal, pc, promoted, up, faults, overlapped>>

Switches == Restores \cup Exports
Absent == "absent"
Partial == "partial"
NoJournal == "none"

Exists(tree) == tree # Absent
Whole(tree) == tree \notin {Absent, Partial}
At(a, step) == up = "up" /\ pc[a] = step
Goto(a, step) == pc' = [pc EXCEPT ![a] = step]
Write(a, state) == journal' = [journal EXCEPT ![a] = state]

\* Steps between the first rename and the answer.
Switching == {"detached", "promote", "promoted", "check", "drop", "handler"}
Overlap(a) == overlapped' = (overlapped \/ \E b \in Switches \ {a} : pc[b] \in Switching)

-----------------------------------------------------------------------------
\* The route refuses without a dataset, or over an overlay that was left behind; the
\* coordinator refuses over directories that were left behind, and leaves its overlay.
Begin(a) ==
  /\ At(a, "idle") /\ a \notin overlay
  /\ (a \in Restores) => Exists(dataset)
  /\ overlay' = overlay \cup {a}
  /\ Goto(a, IF Exists(staging[a]) \/ Exists(rollback[a]) THEN "refused" ELSE "stage")
  /\ UNCHANGED <<trees, journal, promoted, up, faults, overlapped>>

\* create_hardlink_staging and restore_to_staging, or the export's own output.
Stage(a) ==
  /\ At(a, "stage") /\ Exists(dataset)
  /\ staging' = [staging EXCEPT ![a] = a]
  /\ Write(a, "backup_verified")
  /\ Goto(a, "detach")
  /\ UNCHANGED <<dataset, rollback, overlay, promoted, up, faults, overlapped>>

Detach(a) ==
  /\ At(a, "detach") /\ Exists(dataset) /\ ~Exists(rollback[a])
  /\ rollback' = [rollback EXCEPT ![a] = dataset]
  /\ dataset' = Absent
  /\ Overlap(a)
  /\ Goto(a, "detached")
  /\ UNCHANGED <<staging, overlay, journal, promoted, up, faults>>

JournalDetached(a) ==
  /\ At(a, "detached")
  /\ Write(a, "rollback_created")
  /\ Goto(a, "promote")
  /\ UNCHANGED <<trees, overlay, promoted, up, faults, overlapped>>

Promote(a) ==
  /\ At(a, "promote") /\ ~Exists(dataset)
  /\ dataset' = staging[a]
  /\ staging' = [staging EXCEPT ![a] = Absent]
  /\ promoted' = promoted \cup {a}
  /\ Goto(a, "promoted")
  /\ UNCHANGED <<rollback, overlay, journal, up, faults, overlapped>>

JournalCommitted(a) ==
  /\ At(a, "promoted")
  /\ Write(a, "committed")
  /\ Goto(a, "check")
  /\ UNCHANGED <<trees, overlay, promoted, up, faults, overlapped>>

CheckDataset(a) ==
  /\ At(a, "check") /\ Exists(dataset)
  /\ Goto(a, "drop")
  /\ UNCHANGED <<trees, overlay, journal, promoted, up, faults, overlapped>>

\* The old directory goes, and then the overlay.
DropRollback(a) ==
  /\ At(a, "drop")
  /\ rollback' = [rollback EXCEPT ![a] = Absent]
  /\ overlay' = overlay \ {a}
  /\ Write(a, NoJournal)
  /\ Goto(a, IF a \in Exports THEN "succeeded" ELSE "idle")
  /\ promoted' = promoted \ {a}
  /\ UNCHANGED <<dataset, staging, up, faults, overlapped>>

Steps(a) ==
  \/ Stage(a) \/ Detach(a) \/ JournalDetached(a) \/ Promote(a) \/ JournalCommitted(a)
  \/ CheckDataset(a) \/ DropRollback(a)

\* A step whose directories are not what it expects ...
Mismatch(a) ==
  /\ \/ At(a, "stage") /\ ~Exists(dataset)
     \/ At(a, "detach") /\ (~Exists(dataset) \/ Exists(rollback[a]))
     \/ At(a, "promote") /\ Exists(dataset)
     \/ At(a, "check") /\ ~Exists(dataset)
  /\ Goto(a, "handler")
  /\ UNCHANGED <<trees, overlay, journal, promoted, up, faults, overlapped>>

\* ... or that fails: a directory that was being written or deleted stays in part.
StepFails(a) ==
  /\ \E step \in {"stage", "detach", "detached", "promote", "promoted", "drop"} : At(a, step)
  /\ faults < MaxFaults /\ faults' = faults + 1
  /\ staging' = IF pc[a] = "stage" THEN [staging EXCEPT ![a] = Partial] ELSE staging
  /\ rollback' = IF pc[a] = "drop" THEN [rollback EXCEPT ![a] = Partial] ELSE rollback
  /\ Goto(a, "handler")
  /\ UNCHANGED <<dataset, overlay, journal, promoted, up, overlapped>>

-----------------------------------------------------------------------------
\* Mutant of Reinstate: the old directory replaces whatever stands at the path.
ReinstateAnyway(a) ==
  IF Exists(rollback[a])
  THEN dataset' = rollback[a] /\ rollback' = [rollback EXCEPT ![a] = Absent]
  ELSE UNCHANGED <<dataset, rollback>>

\* restore_rollback, only where the path is empty.
Reinstate(a) ==
  IF ~Exists(dataset) /\ Exists(rollback[a])
  THEN dataset' = rollback[a] /\ rollback' = [rollback EXCEPT ![a] = Absent]
  ELSE UNCHANGED <<dataset, rollback>>

\* A restoration answers with an error and leaves its overlay and its staging.
HandleRestore(a) ==
  /\ At(a, "handler") /\ a \in Restores
  /\ \/ Reinstate(a) /\ UNCHANGED faults
     \/ faults < MaxFaults /\ faults' = faults + 1 /\ UNCHANGED <<dataset, rollback>>
  /\ Goto(a, "refused")
  /\ UNCHANGED <<staging, overlay, journal, promoted, up, overlapped>>

\* A commit journals what became of the directories and drops a staging nobody needs.
HandleExport(a) ==
  /\ At(a, "handler") /\ a \in Exports
  /\ Reinstate(a)
  /\ LET back == Exists(dataset') /\ ~Exists(rollback'[a]) /\ Exists(staging[a])
         verdict == IF a \in promoted THEN "committed"
                    ELSE IF back THEN "rolled_back" ELSE "rollback_required"
         written == IF journal[a] = NoJournal THEN NoJournal ELSE verdict
     IN  /\ Write(a, written)
         /\ staging' = IF written # "rollback_required" /\ Exists(dataset')
                       THEN [staging EXCEPT ![a] = Absent] ELSE staging
  /\ Goto(a, "failed")
  /\ UNCHANGED <<overlay, promoted, up, faults, overlapped>>

\* The error is answered; what was left behind stays.
Answer(a) ==
  /\ At(a, "refused")
  /\ promoted' = promoted \ {a}
  /\ Goto(a, "idle")
  /\ UNCHANGED <<trees, overlay, journal, up, faults, overlapped>>

-----------------------------------------------------------------------------
Crash ==
  /\ up = "up" /\ faults < MaxFaults /\ faults' = faults + 1
  /\ up' = "down"
  /\ pc' = [a \in Switches |->
              IF pc[a] = "succeeded" THEN "succeeded"
              ELSE IF a \in Exports /\ pc[a] # "idle" THEN "failed" ELSE "idle"]
  /\ promoted' = {}
  /\ \E cut \in SUBSET {a \in Switches : pc[a] \in {"stage", "drop"}} :
       /\ staging' = [a \in Switches |-> IF a \in cut /\ pc[a] = "stage" THEN Partial ELSE staging[a]]
       /\ rollback' = [a \in Switches |-> IF a \in cut /\ pc[a] = "drop" THEN Partial ELSE rollback[a]]
  /\ UNCHANGED <<dataset, overlay, journal, overlapped>>

\* ExportCommitCoordinator.recover, for the journal of an export only.
Unresolved(a) ==
  journal[a] \in {"backup_verified", "rollback_created", "rollback_required"}
    \/ (journal[a] \in {"committed", "rolled_back"} /\ (Exists(staging[a]) \/ Exists(rollback[a])))

DropDirectories(a) ==
  /\ staging' = [staging EXCEPT ![a] = Absent]
  /\ rollback' = [rollback EXCEPT ![a] = Absent]

RecoverResolved(a) ==
  /\ journal[a] \in {"committed", "rolled_back"}
  /\ staging' = IF Exists(dataset) THEN [staging EXCEPT ![a] = Absent] ELSE staging
  /\ rollback' = IF Exists(dataset) /\ journal[a] = "committed"
                 THEN [rollback EXCEPT ![a] = Absent] ELSE rollback
  /\ UNCHANGED <<dataset, journal, up>>

RecoverBack(a) ==
  /\ journal[a] \in {"backup_verified", "rollback_required"}
  /\ Reinstate(a)
  /\ staging' = [staging EXCEPT ![a] = Absent]
  /\ Write(a, "rolled_back")
  /\ UNCHANGED up

RecoverForward(a) ==
  /\ journal[a] = "rollback_created"
  /\ IF Exists(dataset) /\ ~Exists(rollback[a]) /\ Exists(staging[a])
     THEN /\ staging' = [staging EXCEPT ![a] = Absent]
          /\ Write(a, "rolled_back") /\ UNCHANGED <<dataset, rollback, up>>
     ELSE IF Exists(dataset) \/ Exists(staging[a])
     THEN /\ dataset' = IF Exists(dataset) THEN dataset ELSE staging[a]
          /\ staging' = IF Exists(dataset) THEN staging ELSE [staging EXCEPT ![a] = Absent]
          /\ rollback' = [rollback EXCEPT ![a] = Absent]
          /\ Write(a, "committed") /\ UNCHANGED up
     ELSE up' = "dead" /\ UNCHANGED <<trees, journal>>

\* One export after the other, and then the backend serves.
Startup ==
  /\ up = "down"
  /\ \/ \E a \in {e \in Exports : Unresolved(e)} :
          RecoverResolved(a) \/ RecoverBack(a) \/ RecoverForward(a)
     \/ /\ \A a \in Exports : Unresolved(a) => journal[a] \in {"committed", "rolled_back"}
        /\ up' = "up" /\ UNCHANGED <<trees, journal>>
  /\ UNCHANGED <<overlay, pc, promoted, faults, overlapped>>

-----------------------------------------------------------------------------
Init ==
  /\ dataset = "base"
  /\ staging = [a \in Switches |-> Absent] /\ rollback = [a \in Switches |-> Absent]
  /\ overlay = {} /\ journal = [a \in Switches |-> NoJournal]
  /\ pc = [a \in Switches |-> "idle"] /\ promoted = {}
  /\ up = "up" /\ faults = 0 /\ overlapped = FALSE

\* Exports exclude each other by the dataset's claim (DatasetClaim).
Next ==
  \/ \E a \in Restores : Begin(a)
  \/ \E a \in Exports : Begin(a) /\ \A b \in Exports : pc[b] \in {"idle", "succeeded", "failed"}
  \/ \E a \in Switches : Steps(a) \/ Mismatch(a) \/ StepFails(a) \/ HandleRestore(a)
                           \/ HandleExport(a) \/ Answer(a)
  \/ Crash \/ Startup

Spec == Init /\ [][Next]_vars

-----------------------------------------------------------------------------
(* Properties                                                              *)

\* Whoever switches the dataset at a time, and wherever one step fails or the process dies
\* once (several, when switches do not overlap), a whole copy of it stands beside the path
\* when none stands at it: the user can always put it back (AnnotationRestoreCoordinator.restore,
\* ExportCommitCoordinator.commit).
WholeTreeStands ==
  (faults <= 1 \/ ~overlapped) =>
    Whole(dataset) \/ \E a \in Switches : Whole(rollback[a]) \/ Whole(staging[a])

=============================================================================

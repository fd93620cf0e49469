------------------------- MODULE ExportCommit_proofs -------------------------
(***************************************************************************)
(* Proofs about ExportCommit, for every number of faults: its variables    *)
(* keep their types, no crash or failing file operation ever leaves the    *)
(* job without a whole dataset, the journal tells the truth until a third  *)
(* fault, and commit() with its recovery implements DatasetSwitch. For any *)
(* number of jobs, what AnnotationRestore's switches of the same directory *)
(* keep of it. And, for any number of jobs and crashes, that what          *)
(* SampleText publishes of a sample is the work it was asked for, and that *)
(* what the dataset's record says of its replacement is true.              *)
(***************************************************************************)
EXTENDS MCExportCommit, Integers, SequenceTheorems, TLAPS

\* The thread's stages before the first rename, those that already have the whole
\* staging tree, those that have the backup too, and those between and after the renames.
BeforeSwitch ==
  {"start", "reset", "runner", "review", "settle", "configure", "prepare", "link", "fill",
   "baseline", "backup", "journal_prepared", "journal_backup", "committing", "swap_out"}
WithStaging ==
  {"baseline", "backup", "journal_prepared", "journal_backup", "committing", "swap_out"}
WithBackup == {"journal_prepared", "journal_backup", "committing", "swap_out"}
Detached == {"journal_rollback", "reveal", "swap_in"}
AfterSwitch ==
  {"journal_committed", "drop_rollback", "drop_overlay", "forget_overlay", "succeed"}

\* What the directories are to each other at every moment.
DirectoryInv ==
  /\ dataset # "torn"
  /\ dataset = "absent" => rollback = "old" /\ staging = "complete"
  /\ rollback # "absent" => dataset # "old"
  /\ dataset # "old" => backup

\* Where the thread stands says how far the directories are.
ThreadInv ==
  /\ pc # "idle" => core = "up"
  /\ pc \in BeforeSwitch => dataset = "old"
  /\ pc \in WithStaging => staging = "complete"
  /\ pc \in WithBackup => backup
  /\ pc \in {"swap_out"} \cup Detached \cup AfterSwitch => status \in {"committing", "discarded"}
  /\ pc \in Detached => dataset = "absent"
  /\ pc \in AfterSwitch => dataset = "new"

\* What a status update in flight will write, and what holds when it has.
UpdateInv ==
  pc = "update" =>
    \/ update.to \in {"failed", "succeeded"} /\ update.next \in {"idle", "raise"}
    \/ /\ dataset = "old"
       /\ \/ update.to = "exporting" /\ update.next = "runner"
          \/ update.to = "reviewing" /\ update.next = "idle"
          \/ /\ update.to = "committing" /\ update.next = "swap_out"
             /\ staging = "complete" /\ backup

\* The stages of recover() that delete a directory find the dataset at its path.
RecoveryInv ==
  core \in {"drop_staging", "record", "drop_rollback", "record_committed"}
    => dataset # "absent"

IInv == DirectoryInv /\ ThreadInv /\ UpdateInv /\ RecoveryInv /\ OnlyCommitMovesDataset

\* From the moment commit() holds the overlay until it writes `committing`.
Preparing ==
  {"prepare", "link", "fill", "baseline", "backup", "journal_prepared", "journal_backup",
   "committing"}

\* commit()'s flags are clear until the renames set them.
FlagsInv ==
  /\ stagingPromoted \/ restored => dataset # "absent"
  /\ pc \in BeforeSwitch \/ (pc = "update" /\ update.next \in {"runner", "swap_out"})
       => ~stagingPromoted /\ ~restored

\* The journal lies in the overlay, and the row points at the overlay.
OverlayInv ==
  /\ overlay # "absent" => overlayRoot
  /\ overlay = "absent" => journal = NoJournal
  /\ pc \in {"drop_rollback", "drop_overlay"} => overlay # "absent"
  /\ pc \in {"forget_overlay", "succeed"} => overlay = "absent"
  /\ pc \in Preparing =>
       status # "committing" /\ (status = "exporting" => overlay = "intact")
  /\ core \in StartupStages \ {"scan"} => overlay = "intact"
  /\ discard # "idle" => core = "up"
  /\ discard = "no_overlay" => overlay = "absent"

\* What the journal says by the time the dataset is renamed away, and while it is.
JournalInv ==
  /\ pc = "journal_backup" => journal = "prepared"
  /\ pc \in {"committing", "swap_out"} => journal = "backup_verified"
  /\ pc = "swap_out" \/ (pc = "update" /\ update.next = "swap_out")
       => journal = "backup_verified" /\ overlay = "intact"
  /\ core \in {"sweep_staging", "sweep_rollback", "conclude"} => journal \in ResolvedJournals
  /\ AbsentDatasetIsJournaled

JInv == FlagsInv /\ OverlayInv /\ JournalInv

-----------------------------------------------------------------------------
\* The initial state is well typed and satisfies the inductive invariant.
LEMMA InitInv == Init => TypeOK /\ IInv /\ JInv
<1> SUFFICES ASSUME Init PROVE TypeOK /\ IInv /\ JInv
  OBVIOUS
<1> USE FaultsAssumption DEF Init
<1>1. TypeOK
  <2>1. update \in [to : JobStatuses, next : ThreadStages]
    BY DEF NoUpdate, JobStatuses, ThreadStages
  <2>2. /\ backup \in BOOLEAN /\ overlayRoot \in BOOLEAN /\ cancelRequested \in BOOLEAN
        /\ rollbackCreated \in BOOLEAN /\ stagingPromoted \in BOOLEAN /\ restored \in BOOLEAN
    BY Zenon
  <2> QED BY <2>1, <2>2 DEF TypeOK, JobStatuses, ModuleStatuses, ThreadStages
<1>2. IInv
  BY DEF IInv, DirectoryInv, ThreadInv, UpdateInv, RecoveryInv, OnlyCommitMovesDataset,
     BeforeSwitch, WithStaging, WithBackup, Detached, AfterSwitch
<1>3. JInv
  BY DEF JInv, FlagsInv, OverlayInv, JournalInv, AbsentDatasetIsJournaled, BeforeSwitch,
     Preparing, StartupStages
<1> QED BY <1>1, <1>2, <1>3

\* Every step of the thread keeps the types.
LEMMA TypeThread == ASSUME TypeOK, IInv, Pipeline PROVE TypeOK'
<1> USE FaultsAssumption
    DEF TypeOK, disk, row, locals, startup, thread, api, Fault, NoFault, NoUpdate, JobStatuses,
        NoStatus, JournalStates, NoJournal, ResolvedJournals, ModuleStatuses, ThreadStages,
        StartupStages, BeginUpdate, Raise, Advance, Promoted, Reinstated, Abort, Recovering
<1>1. CASE StartModule
  BY <1>1 DEF StartModule
<1>2. CASE ActivateModule
  BY <1>2 DEF ActivateModule
<1>3. CASE PollRunner
  BY <1>3 DEF PollRunner
<1>4. CASE ReviewIssues
  BY <1>4 DEF ReviewIssues
<1>5. CASE SettleReturned
  BY <1>5 DEF SettleReturned
<1>6. CASE CompleteUpdate
  BY <1>6 DEF CompleteUpdate
<1>7. CASE Configure
  BY <1>7 DEF Configure
<1>8. CASE Prepare
  BY <1>8 DEF Prepare
<1>9. CASE CreateStaging
  BY <1>9 DEF CreateStaging
<1>10. CASE FillStaging
  BY <1>10 DEF FillStaging
<1>11. CASE VerifyBaseline
  BY <1>11 DEF VerifyBaseline
<1>12. CASE WriteBackup
  BY <1>12 DEF WriteBackup
<1>13. CASE WriteJournal("journal_prepared", "prepared", "journal_backup")
  BY <1>13 DEF WriteJournal
<1>14. CASE WriteJournal("journal_backup", "backup_verified", "committing")
  BY <1>14 DEF WriteJournal
<1>15. CASE EnterCommitting
  BY <1>15 DEF EnterCommitting
<1>16. CASE SwapOut
  BY <1>16 DEF SwapOut, IInv, ThreadInv, BeforeSwitch
<1>17. CASE WriteJournal("journal_rollback", "rollback_created", "reveal")
  BY <1>17 DEF WriteJournal
<1>18. CASE RevealStaging
  BY <1>18 DEF RevealStaging
<1>19. CASE SwapIn
  BY <1>19 DEF SwapIn
<1>20. CASE WriteJournal("journal_committed", "committed", "drop_rollback")
  BY <1>20 DEF WriteJournal
<1>21. CASE DropRollback
  BY <1>21 DEF DropRollback
<1>22. CASE DropOverlay
  BY <1>22 DEF DropOverlay
<1>23. CASE ForgetOverlay
  <2>1. overlayRoot' \in BOOLEAN
    BY <1>23, Zenon DEF ForgetOverlay
  <2> QED BY <1>23, <2>1 DEF ForgetOverlay
<1>24. CASE Succeed
  BY <1>24 DEF Succeed
<1>25. CASE RestoreRollback
  <2>1. restored' \in BOOLEAN
    BY <1>25, Zenon DEF RestoreRollback, NoFault, Fault
  <2> QED BY <1>25, <2>1 DEF RestoreRollback
<1>26. CASE RecordOutcome
  BY <1>26 DEF RecordOutcome, HandlerVerdict
<1>27. CASE CleanStaging
  BY <1>27 DEF CleanStaging
<1>28. CASE MarkFailed
  BY <1>28 DEF MarkFailed
<1>29. CASE FailRun
  BY <1>29 DEF FailRun
<1> QED
  BY <1>1, <1>2, <1>3, <1>4, <1>5, <1>6, <1>7, <1>8, <1>9, <1>10, <1>11, <1>12, <1>13,
     <1>14, <1>15, <1>16, <1>17, <1>18, <1>19, <1>20, <1>21, <1>22, <1>23, <1>24, <1>25,
     <1>26, <1>27, <1>28, <1>29 DEF Pipeline

\* Every step of the thread keeps the inductive invariant.
LEMMA InvThread == ASSUME TypeOK, IInv, Pipeline PROVE IInv'
<1> USE DEF IInv, DirectoryInv, ThreadInv, UpdateInv, RecoveryInv, OnlyCommitMovesDataset,
        BeforeSwitch, WithStaging, WithBackup, Detached, AfterSwitch, TypeOK, disk, row,
        locals, startup, thread, api, Fault, NoFault, NoUpdate, BeginUpdate, Raise, Advance,
        Promoted, Reinstated, Abort, Recovering, NoStatus, NoJournal
<1>1. CASE StartModule
  BY <1>1 DEF StartModule
<1>2. CASE ActivateModule
  BY <1>2 DEF ActivateModule
<1>3. CASE PollRunner
  BY <1>3 DEF PollRunner
<1>4. CASE ReviewIssues
  BY <1>4 DEF ReviewIssues
<1>5. CASE SettleReturned
  BY <1>5 DEF SettleReturned
<1>6. CASE CompleteUpdate
  BY <1>6 DEF CompleteUpdate
<1>7. CASE Configure
  BY <1>7 DEF Configure
<1>8. CASE Prepare
  BY <1>8 DEF Prepare
<1>9. CASE CreateStaging
  BY <1>9 DEF CreateStaging
<1>10. CASE FillStaging
  BY <1>10 DEF FillStaging
<1>11. CASE VerifyBaseline
  BY <1>11 DEF VerifyBaseline
<1>12. CASE WriteBackup
  BY <1>12 DEF WriteBackup
<1>13. CASE WriteJournal("journal_prepared", "prepared", "journal_backup")
  BY <1>13 DEF WriteJournal
<1>14. CASE WriteJournal("journal_backup", "backup_verified", "committing")
  BY <1>14 DEF WriteJournal
<1>15. CASE EnterCommitting
  BY <1>15 DEF EnterCommitting
<1>16. CASE SwapOut
  BY <1>16 DEF SwapOut
<1>17. CASE WriteJournal("journal_rollback", "rollback_created", "reveal")
  BY <1>17 DEF WriteJournal
<1>18. CASE RevealStaging
  BY <1>18 DEF RevealStaging
<1>19. CASE SwapIn
  BY <1>19 DEF SwapIn
<1>20. CASE WriteJournal("journal_committed", "committed", "drop_rollback")
  BY <1>20 DEF WriteJournal
<1>21. CASE DropRollback
  BY <1>21 DEF DropRollback
<1>22. CASE DropOverlay
  BY <1>22 DEF DropOverlay
<1>23. CASE ForgetOverlay
  BY <1>23 DEF ForgetOverlay
<1>24. CASE Succeed
  BY <1>24 DEF Succeed
<1>25. CASE RestoreRollback
  BY <1>25 DEF RestoreRollback
<1>26. CASE RecordOutcome
  BY <1>26 DEF RecordOutcome, HandlerVerdict
<1>27. CASE CleanStaging
  BY <1>27 DEF CleanStaging
<1>28. CASE MarkFailed
  BY <1>28 DEF MarkFailed
<1>29. CASE FailRun
  BY <1>29 DEF FailRun
<1> QED
  BY <1>1, <1>2, <1>3, <1>4, <1>5, <1>6, <1>7, <1>8, <1>9, <1>10, <1>11, <1>12, <1>13,
     <1>14, <1>15, <1>16, <1>17, <1>18, <1>19, <1>20, <1>21, <1>22, <1>23, <1>24, <1>25,
     <1>26, <1>27, <1>28, <1>29 DEF Pipeline

\* Every step of startup recovery keeps the types.
LEMMA TypeRecovery == ASSUME TypeOK, IInv, Recovery PROVE TypeOK'
<1> USE FaultsAssumption
    DEF TypeOK, disk, row, locals, startup, thread, api, Fault, NoFault, NoUpdate, JobStatuses,
        NoStatus, JournalStates, NoJournal, ResolvedJournals, ModuleStatuses, ThreadStages,
        StartupStages, BeginUpdate, Raise, Advance, Promoted, Reinstated, Abort, Recovering
<1>1. CASE ScanOverlay
  <2>1. overlayRoot' \in BOOLEAN
    BY <1>1, Zenon DEF ScanOverlay
  <2> QED BY <1>1, <2>1 DEF ScanOverlay
<1>2. CASE SweepStaging
  BY <1>2 DEF SweepStaging
<1>3. CASE SweepRollback
  BY <1>3 DEF SweepRollback
<1>4. CASE RecoverDataset
  BY <1>4 DEF RecoverDataset
<1>5. CASE DropStaging
  BY <1>5 DEF DropStaging
<1>6. CASE RecordVerdict("record", "rolled_back")
  BY <1>6 DEF RecordVerdict
<1>7. CASE PromoteStaging
  BY <1>7 DEF PromoteStaging
<1>8. CASE RecoverDropRollback
  BY <1>8 DEF RecoverDropRollback
<1>9. CASE RecordVerdict("record_committed", "committed")
  BY <1>9 DEF RecordVerdict
<1>10. CASE Conclude
  BY <1>10 DEF Conclude
<1> QED
  BY <1>1, <1>2, <1>3, <1>4, <1>5, <1>6, <1>7, <1>8, <1>9, <1>10 DEF Recovery

\* Every step of startup recovery keeps the inductive invariant.
LEMMA InvRecovery == ASSUME TypeOK, IInv, Recovery PROVE IInv'
<1> USE DEF IInv, DirectoryInv, ThreadInv, UpdateInv, RecoveryInv, OnlyCommitMovesDataset,
        BeforeSwitch, WithStaging, WithBackup, Detached, AfterSwitch, TypeOK, disk, row,
        locals, startup, thread, api, Fault, NoFault, NoUpdate, BeginUpdate, Raise, Advance,
        Promoted, Reinstated, Abort, Recovering, NoStatus, NoJournal
<1>1. CASE ScanOverlay
  BY <1>1 DEF ScanOverlay
<1>2. CASE SweepStaging
  BY <1>2 DEF SweepStaging
<1>3. CASE SweepRollback
  BY <1>3 DEF SweepRollback
<1>4. CASE RecoverDataset
  BY <1>4 DEF RecoverDataset
<1>5. CASE DropStaging
  BY <1>5 DEF DropStaging
<1>6. CASE RecordVerdict("record", "rolled_back")
  BY <1>6 DEF RecordVerdict
<1>7. CASE PromoteStaging
  BY <1>7 DEF PromoteStaging
<1>8. CASE RecoverDropRollback
  BY <1>8 DEF RecoverDropRollback
<1>9. CASE RecordVerdict("record_committed", "committed")
  BY <1>9 DEF RecordVerdict
<1>10. CASE Conclude
  BY <1>10 DEF Conclude
<1> QED
  BY <1>1, <1>2, <1>3, <1>4, <1>5, <1>6, <1>7, <1>8, <1>9, <1>10 DEF Recovery

\* Every step of the API, and every failure and restart, keeps the types.
LEMMA TypeOther == ASSUME TypeOK, IInv, Failing \/ User \/ Crash \/ Stop \/ Boot PROVE TypeOK'
<1> USE FaultsAssumption
    DEF TypeOK, disk, row, locals, startup, thread, api, Fault, NoFault, NoUpdate, JobStatuses,
        NoStatus, JournalStates, NoJournal, ResolvedJournals, ModuleStatuses, ThreadStages,
        StartupStages, BeginUpdate, Raise, Advance, Promoted, Reinstated, Abort, Recovering
<1>1. CASE FailRunner
  BY <1>1 DEF FailRunner
<1>2. CASE \E p \in Fallible : FailAt(p)
  BY <1>2 DEF FailAt, Fallible
<1>3. CASE BeginCancellation
  BY <1>3 DEF BeginCancellation, ResumeAfterCancel, ResumeAfterInterrupt, Cancellable
<1>4. CASE SettleCancellation
  BY <1>4 DEF SettleCancellation
<1>5. CASE RecoverJob
  <2>1. /\ cancelRequested' \in BOOLEAN /\ rollbackCreated' \in BOOLEAN
        /\ stagingPromoted' \in BOOLEAN /\ restored' \in BOOLEAN
    BY <1>5, Zenon DEF RecoverJob
  <2> QED BY <1>5, <2>1 DEF RecoverJob
<1>6. CASE DiscardJob
  <2>1. overlayRoot' \in BOOLEAN
    BY <1>6, Zenon DEF DiscardJob, row
  <2> QED BY <1>6, <2>1 DEF DiscardJob
<1>7. CASE Crash
  <2>1. /\ rollbackCreated' \in BOOLEAN /\ stagingPromoted' \in BOOLEAN
        /\ restored' \in BOOLEAN
    BY <1>7, Zenon DEF Crash, ThreadGone
  <2> QED BY <1>7, <2>1 DEF Crash, ThreadGone
<1>8. CASE Stop
  BY <1>8 DEF Stop
<1>9. CASE Boot
  BY <1>9 DEF Boot, ResumeAfterInterrupt, NonInterruptible, TerminalStatuses
<1>10. CASE InspectDiscard
  BY <1>10 DEF InspectDiscard
<1> QED
  BY <1>1, <1>2, <1>3, <1>4, <1>5, <1>6, <1>7, <1>8, <1>9, <1>10 DEF Failing, User

\* Every step of the API, and every failure and restart, keeps the inductive invariant.
LEMMA InvOther == ASSUME TypeOK, IInv, Failing \/ User \/ Crash \/ Stop \/ Boot PROVE IInv'
<1> USE DEF IInv, DirectoryInv, ThreadInv, UpdateInv, RecoveryInv, OnlyCommitMovesDataset,
        BeforeSwitch, WithStaging, WithBackup, Detached, AfterSwitch, TypeOK, disk, row,
        locals, startup, thread, api, Fault, NoFault, NoUpdate, BeginUpdate, Raise, Advance,
        Promoted, Reinstated, Abort, Recovering, NoStatus, NoJournal
<1>1. CASE FailRunner
  BY <1>1 DEF FailRunner
<1>2. CASE \E p \in Fallible : FailAt(p)
  BY <1>2 DEF FailAt, Fallible
<1>3. CASE BeginCancellation
  BY <1>3 DEF BeginCancellation, ResumeAfterCancel, ResumeAfterInterrupt, Cancellable
<1>4. CASE SettleCancellation
  BY <1>4 DEF SettleCancellation
<1>5. CASE RecoverJob
  BY <1>5 DEF RecoverJob
<1>6. CASE DiscardJob
  BY <1>6 DEF DiscardJob, CanDiscard, MayRemove
<1>7. CASE Crash
  BY <1>7 DEF Crash, ThreadGone
<1>8. CASE Stop
  BY <1>8 DEF Stop
<1>9. CASE Boot
  BY <1>9 DEF Boot, ResumeAfterInterrupt, NonInterruptible, TerminalStatuses
<1>10. CASE InspectDiscard
  BY <1>10 DEF InspectDiscard
<1> QED
  BY <1>1, <1>2, <1>3, <1>4, <1>5, <1>6, <1>7, <1>8, <1>9, <1>10 DEF Failing, User

\* Every step of the thread keeps the journal reachable and truthful about the renames.
LEMMA JournalThread == ASSUME TypeOK, IInv, JInv, Pipeline PROVE JInv'
<1> USE DEF JInv, FlagsInv, OverlayInv, JournalInv, AbsentDatasetIsJournaled, Preparing,
        IInv, DirectoryInv, ThreadInv, UpdateInv, RecoveryInv, BeforeSwitch, WithStaging,
        AfterSwitch, Detached, TypeOK, disk, row, locals, startup, thread, api, Fault, NoFault,
        NoUpdate, BeginUpdate, Raise, Advance, Abort, Recovering, StartupStages, NoJournal,
        Promoted, Reinstated
<1>1. CASE StartModule
  BY <1>1 DEF StartModule
<1>2. CASE ActivateModule
  BY <1>2 DEF ActivateModule
<1>3. CASE PollRunner
  BY <1>3 DEF PollRunner
<1>4. CASE ReviewIssues
  BY <1>4 DEF ReviewIssues
<1>5. CASE SettleReturned
  BY <1>5 DEF SettleReturned
<1>6. CASE CompleteUpdate
  BY <1>6 DEF CompleteUpdate
<1>7. CASE Configure
  BY <1>7 DEF Configure
<1>8. CASE Prepare
  BY <1>8 DEF Prepare
<1>9. CASE CreateStaging
  BY <1>9 DEF CreateStaging
<1>10. CASE FillStaging
  BY <1>10 DEF FillStaging
<1>11. CASE VerifyBaseline
  BY <1>11 DEF VerifyBaseline
<1>12. CASE WriteBackup
  BY <1>12 DEF WriteBackup
<1>13. CASE WriteJournal("journal_prepared", "prepared", "journal_backup")
  BY <1>13 DEF WriteJournal
<1>14. CASE WriteJournal("journal_backup", "backup_verified", "committing")
  BY <1>14 DEF WriteJournal
<1>15. CASE EnterCommitting
  BY <1>15 DEF EnterCommitting, MaySetStatus, JobTransitions, JobStatuses
<1>16. CASE SwapOut
  BY <1>16 DEF SwapOut
<1>17. CASE WriteJournal("journal_rollback", "rollback_created", "reveal")
  BY <1>17 DEF WriteJournal
<1>18. CASE RevealStaging
  BY <1>18 DEF RevealStaging
<1>19. CASE SwapIn
  BY <1>19 DEF SwapIn
<1>20. CASE WriteJournal("journal_committed", "committed", "drop_rollback")
  BY <1>20 DEF WriteJournal
<1>21. CASE DropRollback
  BY <1>21 DEF DropRollback
<1>22. CASE DropOverlay
  BY <1>22 DEF DropOverlay
<1>23. CASE ForgetOverlay
  BY <1>23 DEF ForgetOverlay
<1>24. CASE Succeed
  BY <1>24 DEF Succeed
<1>25. CASE RestoreRollback
  BY <1>25 DEF RestoreRollback
<1>26. CASE RecordOutcome
  BY <1>26 DEF RecordOutcome, HandlerVerdict, JournalStates
<1>27. CASE CleanStaging
  BY <1>27 DEF CleanStaging
<1>28. CASE MarkFailed
  BY <1>28 DEF MarkFailed
<1>29. CASE FailRun
  BY <1>29 DEF FailRun
<1> QED
  BY <1>1, <1>2, <1>3, <1>4, <1>5, <1>6, <1>7, <1>8, <1>9, <1>10, <1>11, <1>12, <1>13,
     <1>14, <1>15, <1>16, <1>17, <1>18, <1>19, <1>20, <1>21, <1>22, <1>23, <1>24, <1>25,
     <1>26, <1>27, <1>28, <1>29 DEF Pipeline

\* Every step of startup recovery keeps the journal reachable and truthful about the renames.
LEMMA JournalRecovery == ASSUME TypeOK, IInv, JInv, Recovery PROVE JInv'
<1> USE DEF JInv, FlagsInv, OverlayInv, JournalInv, AbsentDatasetIsJournaled, Preparing,
        IInv, DirectoryInv, ThreadInv, UpdateInv, RecoveryInv, BeforeSwitch, WithStaging,
        AfterSwitch, Detached, TypeOK, disk, row, locals, startup, thread, api, Fault, NoFault,
        NoUpdate, BeginUpdate, Raise, Advance, Abort, Recovering, StartupStages, NoJournal,
        Promoted, Reinstated
<1>1. CASE ScanOverlay
  BY <1>1 DEF ScanOverlay, ResolvedJournals
<1>2. CASE SweepStaging
  BY <1>2 DEF SweepStaging
<1>3. CASE SweepRollback
  BY <1>3 DEF SweepRollback
<1>4. CASE RecoverDataset
  BY <1>4 DEF RecoverDataset
<1>5. CASE DropStaging
  BY <1>5 DEF DropStaging
<1>6. CASE RecordVerdict("record", "rolled_back")
  BY <1>6 DEF RecordVerdict, ResolvedJournals
<1>7. CASE PromoteStaging
  BY <1>7 DEF PromoteStaging
<1>8. CASE RecoverDropRollback
  BY <1>8 DEF RecoverDropRollback
<1>9. CASE RecordVerdict("record_committed", "committed")
  BY <1>9 DEF RecordVerdict, ResolvedJournals
<1>10. CASE Conclude
  BY <1>10 DEF Conclude
<1> QED
  BY <1>1, <1>2, <1>3, <1>4, <1>5, <1>6, <1>7, <1>8, <1>9, <1>10 DEF Recovery

\* Every step of the API, and every failure and restart, keeps the journal reachable and truthful about the renames.
LEMMA JournalOther == ASSUME TypeOK, IInv, JInv, Failing \/ User \/ Crash \/ Stop \/ Boot PROVE JInv'
<1> USE DEF JInv, FlagsInv, OverlayInv, JournalInv, AbsentDatasetIsJournaled, Preparing,
        IInv, DirectoryInv, ThreadInv, UpdateInv, RecoveryInv, BeforeSwitch, WithStaging,
        AfterSwitch, Detached, TypeOK, disk, row, locals, startup, thread, api, Fault, NoFault,
        NoUpdate, BeginUpdate, Raise, Advance, Abort, Recovering, StartupStages, NoJournal,
        Promoted, Reinstated
<1>1. CASE FailRunner
  BY <1>1 DEF FailRunner
<1>2. CASE \E p \in Fallible : FailAt(p)
  BY <1>2 DEF FailAt, Fallible
<1>3. CASE BeginCancellation
  BY <1>3 DEF BeginCancellation, ResumeAfterCancel, Cancellable
<1>4. CASE SettleCancellation
  BY <1>4 DEF SettleCancellation
<1>5. CASE RecoverJob
  BY <1>5 DEF RecoverJob
<1>6. CASE DiscardJob
  BY <1>6 DEF DiscardJob, MayRemove, CanDiscard, HasUnresolvedJournal, JournalStates, ResolvedJournals
<1>7. CASE Crash
  BY <1>7 DEF Crash, ThreadGone
<1>8. CASE Stop
  BY <1>8 DEF Stop
<1>9. CASE Boot
  BY <1>9 DEF Boot, NonInterruptible
<1>10. CASE InspectDiscard
  BY <1>10 DEF InspectDiscard, JournalStates
<1> QED
  BY <1>1, <1>2, <1>3, <1>4, <1>5, <1>6, <1>7, <1>8, <1>9, <1>10 DEF Failing, User

-----------------------------------------------------------------------------
\* The strengthened invariant is inductive.
LEMMA Inductive ==
  TypeOK /\ IInv /\ JInv /\ [Next]_vars => (TypeOK /\ IInv /\ JInv)'
<1> SUFFICES ASSUME TypeOK, IInv, JInv, [Next]_vars PROVE (TypeOK /\ IInv /\ JInv)'
  OBVIOUS
<1>1. CASE Pipeline
  BY <1>1, TypeThread, InvThread, JournalThread
<1>2. CASE Recovery
  BY <1>2, TypeRecovery, InvRecovery, JournalRecovery
<1>3. CASE Failing \/ User \/ Crash \/ Stop \/ Boot
  BY <1>3, TypeOther, InvOther, JournalOther
<1>4. CASE UNCHANGED vars
  <2> USE <1>4 DEF vars, disk, row, startup, thread, locals, api
  <2>1. TypeOK'
    BY DEF TypeOK
  <2>2. IInv'
    BY DEF IInv, DirectoryInv, ThreadInv, UpdateInv, RecoveryInv, OnlyCommitMovesDataset
  <2>3. JInv'
    BY DEF JInv, FlagsInv, OverlayInv, JournalInv, AbsentDatasetIsJournaled
  <2> QED BY <2>1, <2>2, <2>3
<1> QED BY <1>1, <1>2, <1>3, <1>4 DEF Next

\* The strengthened invariant holds throughout.
THEOREM Invariants == Spec => [](TypeOK /\ IInv /\ JInv)
BY InitInv, Inductive, PTL DEF Spec

\* Every variable keeps its type.
THEOREM TypeCorrect == Spec => []TypeOK
BY Invariants, PTL

\* However many crashes and failing file operations: a whole dataset is always on disk,
\* at its path or at the rollback name commit() gave it.
THEOREM DatasetNeverLost == Spec => []DatasetSurvives
<1>1. TypeOK /\ IInv => DatasetSurvives
  BY DEF TypeOK, IInv, DirectoryInv, DatasetSurvives
<1> QED BY <1>1, Invariants, PTL

\* The original annotations are in place or in the verified backup.
THEOREM OriginalKept == Spec => []OriginalRecoverable
<1>1. IInv => OriginalRecoverable
  BY DEF IInv, DirectoryInv, OriginalRecoverable
<1> QED BY <1>1, Invariants, PTL

\* No job but one that committed has its dataset moved.
THEOREM OnlyCommitMoves == Spec => []OnlyCommitMovesDataset
BY Invariants, PTL DEF IInv

\* A dataset missing from its path is always journaled in a reachable overlay.
THEOREM AbsenceJournaled == Spec => []AbsentDatasetIsJournaled
BY Invariants, PTL DEF JInv, JournalInv

\* Startup recovery belongs to the actions of Recovery, Crash, Stop and Boot alone.
LEMMA ThreadKeepsStartup == Pipeline \/ Failing \/ User => core' = core
<1> USE DEF startup
<1>1. StartModule \/ ActivateModule \/ PollRunner \/ ReviewIssues \/ SettleReturned
      \/ CompleteUpdate \/ Configure \/ Prepare \/ CreateStaging \/ FillStaging
      \/ VerifyBaseline \/ WriteBackup \/ EnterCommitting => core' = core
  BY DEF StartModule, ActivateModule, PollRunner, ReviewIssues, SettleReturned,
     CompleteUpdate, Configure, Prepare, CreateStaging, FillStaging, VerifyBaseline,
     WriteBackup, EnterCommitting, Advance
<1>2. SwapOut \/ RevealStaging \/ SwapIn \/ DropRollback \/ DropOverlay \/ ForgetOverlay
      \/ Succeed \/ RestoreRollback \/ RecordOutcome \/ CleanStaging \/ MarkFailed \/ FailRun
      => core' = core
  BY DEF SwapOut, RevealStaging, SwapIn, DropRollback, DropOverlay, ForgetOverlay, Succeed,
     RestoreRollback, RecordOutcome, CleanStaging, MarkFailed, FailRun, Advance
<1>3. ASSUME NEW p, NEW state, NEW q, WriteJournal(p, state, q) PROVE core' = core
  BY <1>3 DEF WriteJournal
<1>4. Failing => core' = core
  BY DEF Failing, FailRunner, FailAt
<1>5. User => core' = core
  BY DEF User, BeginCancellation, SettleCancellation, RecoverJob, InspectDiscard, DiscardJob
<1> QED BY <1>1, <1>2, <1>3, <1>4, <1>5 DEF Pipeline

\* The backend serves no request before every switch is resolved.
THEOREM StartupServesResolved == Spec => StartupResolves
<1> DEFINE Resolved == dataset' # "absent" /\ journal' \in {"none", "committed", "rolled_back"}
<1>1. ASSUME TypeOK, IInv, JInv, [Next]_vars, core # "up", core' = "up"
      PROVE  Resolved
  <2> USE <1>1 DEF TypeOK, IInv, JInv, ThreadInv, OverlayInv, JournalInv,
        AbsentDatasetIsJournaled, ResolvedJournals, JournalStates, NoJournal, disk
  <2>1. CASE Pipeline \/ Failing \/ User
    BY <2>1, ThreadKeepsStartup
  <2>2. CASE Crash \/ Stop \/ Boot
    BY <2>2 DEF Crash, Stop, Boot
  <2>3. CASE Recovery
    <3>1. CASE ScanOverlay
      BY <3>1 DEF ScanOverlay, Abort
    <3>2. CASE Conclude
      BY <3>2 DEF Conclude
    <3> QED BY <2>3, <3>1, <3>2 DEF Recovery, SweepStaging, SweepRollback, RecoverDataset,
          DropStaging, RecordVerdict, PromoteStaging, RecoverDropRollback, Recovering, Abort
  <2> QED BY <2>1, <2>2, <2>3 DEF Next, vars, startup
<1>2. TypeOK /\ IInv /\ JInv /\ [Next]_vars
        => [core # "up" /\ core' = "up" => dataset' # "absent"
                /\ journal' \in {NoJournal, "committed", "rolled_back"}]_vars
  BY <1>1 DEF NoJournal
<1> QED BY <1>2, Invariants, PTL DEF Spec, StartupResolves

-----------------------------------------------------------------------------
(* The journal tells the truth until a third fault                        *)

\* Directories, copies and flags agree, whatever fails.
PlaceInv ==
  /\ dataset = "new" => staging = "absent"
  /\ journal # NoJournal => backup
  /\ pc \in {"link", "fill", "baseline", "backup"} => ~backup
  /\ stagingPromoted => dataset = "new"
  /\ restored => dataset = "old"
  /\ pc \in AfterSwitch \/ (pc \in {"restore", "outcome"} /\ dataset = "new") => stagingPromoted
  /\ pc \in {"reveal", "swap_in"} => journal = "rollback_created"
  /\ pc = "update" /\ update.to = "succeeded" => dataset = "new"
  /\ journal \in {"prepared", "backup_verified", "rollback_required"} => dataset # "new"
  /\ core \in StartupStages \ {"scan"} => backup
  /\ core = "restore" => journal \in {"prepared", "backup_verified", "rollback_required"}
  /\ core \in {"drop_staging", "record"} => dataset = "old"
  /\ core \in {"promote", "drop_rollback", "record_committed"} => journal = "rollback_created"
  /\ pc = "clean" /\ journal = "rollback_created" => outcome = "unwritten"

\* A journal that still says the switch is half-done over the old dataset has cost a failing
\* step and a failing or interrupted report of it; one more loses the staging tree that
\* tells recover() so.
FaultsInv ==
  /\ pc = "restore" /\ journal = "rollback_created" /\ dataset = "absent" => faults >= 1
  /\ journal = "rollback_created" /\ dataset = "old" =>
       /\ faults >= 2 \/ (faults >= 1 /\ pc = "outcome")
       /\ staging # "absent" \/ core \in {"drop_staging", "record"} \/ faults >= 3

\* What holds as long as no third fault strikes.
TruthInv ==
  faults <= 2 =>
    /\ JournalTruthful
    /\ core = "promote" => dataset # "old"
    /\ core \in {"drop_rollback", "record_committed"} => dataset = "new"
    /\ verdict = "committed" => dataset = "new"

TInv == PlaceInv /\ FaultsInv /\ TruthInv

\* Every step of the thread keeps the journal's word.
LEMMA TruthThread == ASSUME TypeOK, IInv, JInv, TInv, Pipeline PROVE TInv'
<1> USE DEF TInv, PlaceInv, FaultsInv, TruthInv, JournalTruthful, IInv, DirectoryInv, ThreadInv,
        UpdateInv, RecoveryInv, BeforeSwitch, WithStaging, WithBackup, AfterSwitch, Detached, JInv,
        FlagsInv, OverlayInv, JournalInv, TypeOK, disk, row, locals, startup, thread, api, Fault, NoFault,
        NoUpdate, BeginUpdate, Raise, Advance, Abort, Recovering, NoJournal, Promoted, Reinstated
<1>1. CASE StartModule
  BY <1>1 DEF StartModule
<1>2. CASE ActivateModule
  BY <1>2 DEF ActivateModule
<1>3. CASE PollRunner
  BY <1>3 DEF PollRunner
<1>4. CASE ReviewIssues
  BY <1>4 DEF ReviewIssues
<1>5. CASE SettleReturned
  BY <1>5 DEF SettleReturned
<1>6. CASE CompleteUpdate
  BY <1>6 DEF CompleteUpdate
<1>7. CASE Configure
  BY <1>7 DEF Configure
<1>8. CASE Prepare
  BY <1>8 DEF Prepare
<1>9. CASE CreateStaging
  BY <1>9 DEF CreateStaging
<1>10. CASE FillStaging
  BY <1>10 DEF FillStaging
<1>11. CASE VerifyBaseline
  BY <1>11 DEF VerifyBaseline
<1>12. CASE WriteBackup
  BY <1>12 DEF WriteBackup
<1>13. CASE WriteJournal("journal_prepared", "prepared", "journal_backup")
  BY <1>13 DEF WriteJournal
<1>14. CASE WriteJournal("journal_backup", "backup_verified", "committing")
  BY <1>14 DEF WriteJournal
<1>15. CASE EnterCommitting
  BY <1>15 DEF EnterCommitting, MaySetStatus, JobTransitions, JobStatuses
<1>16. CASE SwapOut
  BY <1>16 DEF SwapOut
<1>17. CASE WriteJournal("journal_rollback", "rollback_created", "reveal")
  BY <1>17 DEF WriteJournal
<1>18. CASE RevealStaging
  BY <1>18 DEF RevealStaging
<1>19. CASE SwapIn
  BY <1>19 DEF SwapIn
<1>20. CASE WriteJournal("journal_committed", "committed", "drop_rollback")
  BY <1>20 DEF WriteJournal
<1>21. CASE DropRollback
  BY <1>21 DEF DropRollback
<1>22. CASE DropOverlay
  BY <1>22 DEF DropOverlay
<1>23. CASE ForgetOverlay
  BY <1>23 DEF ForgetOverlay
<1>24. CASE Succeed
  BY <1>24 DEF Succeed
<1>25. CASE RestoreRollback
  BY <1>25 DEF RestoreRollback
<1>26. CASE RecordOutcome
  BY <1>26 DEF RecordOutcome, HandlerVerdict, JournalStates
<1>27. CASE CleanStaging
  BY <1>27 DEF CleanStaging
<1>28. CASE MarkFailed
  BY <1>28 DEF MarkFailed
<1>29. CASE FailRun
  BY <1>29 DEF FailRun
<1> QED
  BY <1>1, <1>2, <1>3, <1>4, <1>5, <1>6, <1>7, <1>8, <1>9, <1>10, <1>11, <1>12, <1>13,
     <1>14, <1>15, <1>16, <1>17, <1>18, <1>19, <1>20, <1>21, <1>22, <1>23, <1>24, <1>25,
     <1>26, <1>27, <1>28, <1>29 DEF Pipeline

\* Every step of startup recovery keeps the journal's word, or is a third fault.
LEMMA TruthRecovery == ASSUME TypeOK, IInv, JInv, TInv, Recovery PROVE TInv'
<1> USE DEF TInv, PlaceInv, FaultsInv, TruthInv, JournalTruthful, IInv, DirectoryInv, ThreadInv,
        UpdateInv, RecoveryInv, BeforeSwitch, WithStaging, WithBackup, AfterSwitch, Detached, JInv,
        FlagsInv, OverlayInv, JournalInv, TypeOK, disk, row, locals, startup, thread, api, Fault, NoFault,
        NoUpdate, BeginUpdate, Raise, Advance, Abort, Recovering, NoJournal, Promoted, Reinstated,
        StartupStages, JournalStates, ResolvedJournals
<1>1. CASE ScanOverlay
  BY <1>1 DEF ScanOverlay, ResolvedJournals
<1>2. CASE SweepStaging
  BY <1>2 DEF SweepStaging
<1>3. CASE SweepRollback
  BY <1>3 DEF SweepRollback
<1>4. CASE RecoverDataset
  BY <1>4 DEF RecoverDataset
<1>5. CASE DropStaging
  BY <1>5 DEF DropStaging
<1>6. CASE RecordVerdict("record", "rolled_back")
  BY <1>6 DEF RecordVerdict, ResolvedJournals
<1>7. CASE PromoteStaging
  BY <1>7 DEF PromoteStaging
<1>8. CASE RecoverDropRollback
  BY <1>8 DEF RecoverDropRollback
<1>9. CASE RecordVerdict("record_committed", "committed")
  BY <1>9 DEF RecordVerdict, ResolvedJournals
<1>10. CASE Conclude
  BY <1>10 DEF Conclude
<1> QED
  BY <1>1, <1>2, <1>3, <1>4, <1>5, <1>6, <1>7, <1>8, <1>9, <1>10 DEF Recovery

\* Every step of the API, and every failure and restart, keeps the journal's word.
LEMMA TruthOther == ASSUME TypeOK, IInv, JInv, TInv, Failing \/ User \/ Crash \/ Stop \/ Boot PROVE TInv'
<1> USE DEF TInv, PlaceInv, FaultsInv, TruthInv, JournalTruthful, IInv, DirectoryInv, ThreadInv,
        UpdateInv, RecoveryInv, BeforeSwitch, WithStaging, WithBackup, AfterSwitch, Detached, JInv,
        FlagsInv, OverlayInv, JournalInv, TypeOK, disk, row, locals, startup, thread, api, Fault, NoFault,
        NoUpdate, BeginUpdate, Raise, Advance, Abort, Recovering, NoJournal, Promoted, Reinstated,
        StartupStages, JournalStates, ResolvedJournals
<1>1. CASE FailRunner
  BY <1>1 DEF FailRunner
<1>2. CASE \E p \in Fallible : FailAt(p)
  BY <1>2 DEF FailAt, Fallible
<1>3. CASE BeginCancellation
  BY <1>3 DEF BeginCancellation, ResumeAfterCancel, Cancellable
<1>4. CASE SettleCancellation
  BY <1>4 DEF SettleCancellation
<1>5. CASE RecoverJob
  BY <1>5 DEF RecoverJob
<1>6. CASE DiscardJob
  BY <1>6 DEF DiscardJob, MayRemove, CanDiscard, HasUnresolvedJournal, JournalStates, ResolvedJournals
<1>7. CASE Crash
  BY <1>7 DEF Crash, ThreadGone
<1>8. CASE Stop
  BY <1>8 DEF Stop
<1>9. CASE Boot
  BY <1>9 DEF Boot, NonInterruptible
<1>10. CASE InspectDiscard
  BY <1>10 DEF InspectDiscard
<1> QED
  BY <1>1, <1>2, <1>3, <1>4, <1>5, <1>6, <1>7, <1>8, <1>9, <1>10 DEF Failing, User

\* What the journal says and what it has cost is inductive.
LEMMA TruthInductive ==
  TypeOK /\ IInv /\ JInv /\ TInv /\ [Next]_vars => TInv'
<1> SUFFICES ASSUME TypeOK, IInv, JInv, TInv, [Next]_vars PROVE TInv'
  OBVIOUS
<1>1. CASE UNCHANGED vars
  BY <1>1 DEF vars, disk, row, startup, thread, locals, api, TInv, PlaceInv, FaultsInv, TruthInv,
     JournalTruthful
<1> QED BY <1>1, TruthThread, TruthRecovery, TruthOther DEF Next

\* Up to two faults of any kind, a resolved journal and a succeeded job tell the truth about
\* the dataset (commit's handler, recover, pipeline_recovery).
THEOREM TruthfulUntilThirdFault == Spec => []TruthfulWithinTwoFaults
<1>1. Init => TInv
  BY FaultsAssumption DEF Init, TInv, PlaceInv, FaultsInv, TruthInv, JournalTruthful, NoJournal, NoUpdate,
     AfterSwitch, StartupStages, BeforeSwitch, WithStaging, WithBackup, Detached
<1>2. TInv => TruthfulWithinTwoFaults
  BY DEF TInv, TruthInv, TruthfulWithinTwoFaults
<1> QED BY <1>1, <1>2, Invariants, TruthInductive, PTL DEF Spec

-----------------------------------------------------------------------------
\* A step that leaves the dataset path and the backup alone is no step of the switch.
LEMMA SwitchStutters ==
  ASSUME dataset' = dataset, backup' = backup PROVE UNCHANGED Switch!vars
BY DEF Switch!vars

\* Every step of commit() and of its recovery is a step of DatasetSwitch, or none.
LEMMA SwitchStep ==
  ASSUME TypeOK, IInv, [Next]_vars PROVE [Switch!Next]_(Switch!vars)
<1> USE DEF IInv, DirectoryInv, ThreadInv, TypeOK
<1>1. CASE WriteBackup
  BY <1>1 DEF WriteBackup, Advance, Switch!Next, Switch!Save
<1>2. CASE SwapOut
  BY <1>2 DEF SwapOut, Advance, BeforeSwitch, WithBackup, Switch!Next, Switch!Detach
<1>3. CASE SwapIn
  <2>1. dataset = "absent" /\ dataset' = "new" /\ backup' = backup
    BY <1>3 DEF SwapIn, Advance, Promoted, Detached
  <2> QED BY <2>1 DEF Switch!Next, Switch!Publish
<1>4. CASE RestoreRollback
  <2>1. CASE dataset' = dataset
    BY <1>4, <2>1, SwitchStutters DEF RestoreRollback
  <2>2. CASE dataset' # dataset
    <3>1. dataset = "absent" /\ dataset' = "old" /\ backup' = backup
      BY <1>4, <2>2 DEF RestoreRollback, Reinstated
    <3> QED BY <3>1 DEF Switch!Next, Switch!Reattach
  <2> QED BY <2>1, <2>2
<1>5. CASE RecoverDataset
  <2>1. CASE dataset' = dataset
    BY <1>5, <2>1, SwitchStutters DEF RecoverDataset, Recovering
  <2>2. CASE dataset' # dataset
    <3>1. dataset = "absent" /\ dataset' = "old" /\ backup' = backup
      BY <1>5, <2>2 DEF RecoverDataset, Recovering, Reinstated
    <3> QED BY <3>1 DEF Switch!Next, Switch!Reattach
  <2> QED BY <2>1, <2>2
<1>6. CASE PromoteStaging
  <2>1. CASE dataset' = dataset
    BY <1>6, <2>1, SwitchStutters DEF PromoteStaging, Recovering
  <2>2. CASE dataset' # dataset
    <3>1. dataset = "absent" /\ dataset' = "new" /\ backup' = backup
      BY <1>6, <2>2 DEF PromoteStaging, Recovering, Promoted
    <3> QED BY <3>1 DEF Switch!Next, Switch!Publish
  <2> QED BY <2>1, <2>2
<1>7. CASE Pipeline /\ ~(WriteBackup \/ SwapOut \/ SwapIn \/ RestoreRollback)
  <2>1. dataset' = dataset /\ backup' = backup
    <3> USE DEF disk
    <3>1. StartModule \/ ActivateModule \/ PollRunner \/ ReviewIssues \/ SettleReturned
          \/ CompleteUpdate \/ Configure \/ Prepare \/ CreateStaging \/ FillStaging
          \/ VerifyBaseline \/ EnterCommitting => dataset' = dataset /\ backup' = backup
      BY DEF StartModule, ActivateModule, PollRunner, ReviewIssues, SettleReturned,
         CompleteUpdate, Configure, Prepare, CreateStaging, FillStaging, VerifyBaseline,
         EnterCommitting
    <3>2. RevealStaging \/ DropRollback \/ DropOverlay \/ ForgetOverlay \/ Succeed
          \/ RecordOutcome \/ CleanStaging \/ MarkFailed \/ FailRun
          => dataset' = dataset /\ backup' = backup
      BY DEF RevealStaging, DropRollback, DropOverlay, ForgetOverlay, Succeed,
         RecordOutcome, CleanStaging, MarkFailed, FailRun
    <3>3. ASSUME NEW p, NEW state, NEW q, WriteJournal(p, state, q)
          PROVE  dataset' = dataset /\ backup' = backup
      BY <3>3 DEF WriteJournal
    <3> QED BY <1>7, <3>1, <3>2, <3>3 DEF Pipeline
  <2> QED BY <2>1, SwitchStutters
<1>8. CASE Recovery /\ ~(RecoverDataset \/ PromoteStaging)
  <2>1. dataset' = dataset /\ backup' = backup
    BY <1>8 DEF Recovery, ScanOverlay, SweepStaging, SweepRollback, DropStaging,
       RecordVerdict, RecoverDropRollback, Conclude, Recovering, disk
  <2> QED BY <2>1, SwitchStutters
<1>9. CASE Failing \/ User \/ Crash \/ Stop \/ Boot \/ UNCHANGED vars
  <2>1. dataset' = dataset /\ backup' = backup
    BY <1>9 DEF Failing, FailRunner, FailAt, User, BeginCancellation, SettleCancellation,
       RecoverJob, InspectDiscard, DiscardJob, Crash, Stop, Boot, disk, vars
  <2> QED BY <2>1, SwitchStutters
<1> QED BY <1>1, <1>2, <1>3, <1>4, <1>5, <1>6, <1>7, <1>8, <1>9 DEF Next

\* commit(), its handler and startup recovery together implement the abstract switch.
THEOREM CommitImplementsSwitch == Spec => SwitchSpec
<1>1. Init => Switch!Init
  BY DEF Init, Switch!Init
<1> QED BY <1>1, SwitchStep, Invariants, PTL DEF Spec, SwitchSpec, Switch!Spec

-----------------------------------------------------------------------------
(* A restoration of annotations switches the same directories             *)

\* What is kept per switch is a function.
SwitchTypes ==
  /\ staging = [a \in Restore!Switches |-> staging[a]]
  /\ rollback = [a \in Restore!Switches |-> rollback[a]]
  /\ journal = [a \in Restore!Switches |-> journal[a]]
  /\ pc = [a \in Restore!Switches |-> pc[a]]
  /\ faults \in Nat

\* The steps before the rollback directory goes, and what it takes to lose a tree: switches
\* that overlap, a failing step, and before the next startup a second fault.
Dropping == {"promoted", "check", "drop"}
Broken == overlapped /\ faults >= 1 /\ (up # "up" => faults >= 2)

\* What each switch has staged and journaled at its place.
StagedAt(a) ==
  /\ pc[a] \in {"detach", "detached", "promote"} => staging[a] = a
  /\ a \in Exports /\ pc[a] \in {"idle", "stage", "refused"} => journal[a] = "none"
  /\ a \in Exports /\ staging[a] = "partial" => journal[a] = "none"
  /\ pc[a] = "promoted" => a \in promoted /\ staging[a] = "absent"
  /\ pc[a] \in {"check", "drop"} => journal[a] = "committed" /\ a \in promoted
  /\ pc[a] \in {"stage", "detach"} => rollback[a] = "absent"
  /\ a \in Restores => pc[a] # "succeeded" /\ pc[a] # "failed"
  /\ up # "up" => pc[a] \in {"idle", "failed", "succeeded"}
StagedInv == \A a \in Restore!Switches : StagedAt(a)

\* A dataset is in part only after switches that overlapped, and a rollback directory only
\* where its switch was over.
PartialInv ==
  /\ dataset = "partial" => Broken
  /\ \A a \in Restore!Switches : rollback[a] = "partial" =>
       /\ faults >= 1
       /\ Broken \/ (a \in Exports => journal[a] = "committed")
       /\ Broken \/ pc[a] \notin {"detached", "promote", "promoted"}
       /\ Broken \/ pc[a] # "handler" \/ a \in promoted

\* A switch that is over and nobody overlapped leaves its dataset.
SoloInv ==
  ~overlapped => \A a \in Restore!Switches :
    pc[a] \in Dropping \/ (pc[a] = "handler" /\ rollback[a] = "partial") => Restore!Whole(dataset)

\* A whole tree stands at the path, or beside it where no step under way removes it.
TreeInv ==
  faults <= 1 \/ ~overlapped =>
    \/ Restore!Whole(dataset)
    \/ \E a \in Restore!Switches : Restore!Whole(rollback[a]) /\ pc[a] \notin Dropping

RInv == SwitchTypes /\ StagedInv /\ PartialInv /\ SoloInv /\ TreeInv

\* What a step of one switch keeps, it keeps whoever takes it.
LEMMA SwitchSteps ==
  ASSUME Restore!Distinct, RInv, NEW a \in Restore!Switches,
         \/ Restore!Begin(a) \/ Restore!Steps(a) \/ Restore!Mismatch(a) \/ Restore!StepFails(a)
         \/ Restore!Answer(a)
  PROVE  RInv'
<1> USE DEF RInv, SwitchTypes, StagedInv, StagedAt, PartialInv, SoloInv, TreeInv, Dropping,
        Broken, Restore!Distinct, Restore!Switches, Restore!Exists, Restore!Whole, Restore!Absent, Restore!Partial,
        Restore!NoJournal, Restore!At, Restore!Goto, Restore!Write, Restore!trees
<1>1. CASE Restore!Begin(a)
  BY <1>1 DEF Restore!Begin
<1>2. CASE Restore!Stage(a)
  BY <1>2 DEF Restore!Stage
<1>3. CASE Restore!Detach(a)
  BY <1>3 DEF Restore!Detach, Restore!Overlap, Restore!Switching
<1>4. CASE Restore!JournalDetached(a)
  BY <1>4 DEF Restore!JournalDetached
<1>5. CASE Restore!Promote(a)
  <2> USE <1>5 DEF Restore!Promote
  <2>1. SwitchTypes'
    OBVIOUS
  <2>2. StagedInv'
    OBVIOUS
  <2>3. PartialInv'
    OBVIOUS
  <2>4. SoloInv'
    OBVIOUS
  <2>5. TreeInv'
    OBVIOUS
  <2> QED BY <2>1, <2>2, <2>3, <2>4, <2>5
<1>6. CASE Restore!JournalCommitted(a)
  <2> USE <1>6 DEF Restore!JournalCommitted
  <2>1. SwitchTypes' /\ StagedInv'
    OBVIOUS
  <2>2. PartialInv'
    OBVIOUS
  <2>3. SoloInv'
    OBVIOUS
  <2>4. TreeInv'
    OBVIOUS
  <2> QED BY <2>1, <2>2, <2>3, <2>4
<1>7. CASE Restore!CheckDataset(a)
  BY <1>7 DEF Restore!CheckDataset
<1>8. CASE Restore!DropRollback(a)
  BY <1>8 DEF Restore!DropRollback
<1>9. CASE Restore!Mismatch(a)
  <2> USE <1>9 DEF Restore!Mismatch
  <2>1. SwitchTypes'
    OBVIOUS
  <2>2. StagedInv'
    OBVIOUS
  <2>3. PartialInv'
    OBVIOUS
  <2>4. SoloInv'
    OBVIOUS
  <2>5. TreeInv'
    OBVIOUS
  <2> QED BY <2>1, <2>2, <2>3, <2>4, <2>5
<1>10. CASE Restore!StepFails(a)
  <2>1. /\ up = "up" /\ faults' = faults + 1
        /\ pc[a] \in {"stage", "detach", "detached", "promote", "promoted", "drop"}
        /\ UNCHANGED <<dataset, journal, promoted, up, overlapped>>
    BY <1>10 DEF Restore!StepFails
  <2>2. SwitchTypes'
    <3>1. pc[a] = "stage" \/ staging' = staging
      BY <1>10 DEF Restore!StepFails
    <3>2. pc[a] = "drop" \/ rollback' = rollback
      BY <1>10 DEF Restore!StepFails
    <3>3. staging' = [b \in Restore!Switches |-> staging'[b]]
      BY <1>10, <3>1 DEF Restore!StepFails
    <3>4. rollback' = [b \in Restore!Switches |-> rollback'[b]]
      BY <1>10, <3>2 DEF Restore!StepFails
    <3>5. pc' = [b \in Restore!Switches |-> pc'[b]] /\ journal' = [b \in Restore!Switches |-> journal'[b]]
      BY <1>10 DEF Restore!StepFails
    <3> QED BY <2>1, <3>3, <3>4, <3>5
  <2>3. \A b \in Restore!Switches :
          /\ pc'[b] = IF b = a THEN "handler" ELSE pc[b]
          /\ staging'[b] = IF b = a /\ pc[a] = "stage" THEN "partial" ELSE staging[b]
          /\ rollback'[b] = IF b = a /\ pc[a] = "drop" THEN "partial" ELSE rollback[b]
    BY <1>10 DEF Restore!StepFails
  <2>4. StagedInv'
    <3> HIDE DEF PartialInv, SoloInv, TreeInv, SwitchTypes
    <3>1. ASSUME NEW b \in Restore!Switches, b # a PROVE StagedAt(b)'
      BY <2>1, <2>3, <3>1
    <3>2. StagedAt(a)'
      BY <2>1, <2>3
    <3> QED BY <3>1, <3>2
  <2>5. PartialInv'
    <3>1. (Broken => Broken') /\ faults' >= 1 /\ (dataset' = "partial" => Broken')
      BY <2>1
    <3>2. ASSUME NEW b \in Restore!Switches, rollback'[b] = "partial"
          PROVE  /\ Broken' \/ (b \in Exports => journal'[b] = "committed")
                 /\ Broken' \/ pc'[b] \notin {"detached", "promote", "promoted"}
                 /\ Broken' \/ pc'[b] # "handler" \/ b \in promoted'
      <4>1. CASE b = a
        BY <2>1, <2>3, <3>1, <3>2, <4>1
      <4>2. CASE b # a
        BY <2>1, <2>3, <3>1, <3>2, <4>2
      <4> QED BY <4>1, <4>2
    <3> QED BY <3>1, <3>2
  <2>6. SoloInv'
    <3> HIDE DEF TreeInv, SwitchTypes
    <3>1. ASSUME NEW b \in Restore!Switches, b # a, ~overlapped,
                 pc[b] \in Dropping \/ (pc[b] = "handler" /\ rollback[b] = "partial")
          PROVE  Restore!Whole(dataset)
      BY <3>1
    <3>2. ASSUME ~overlapped, pc[a] = "drop" \/ rollback[a] = "partial" PROVE Restore!Whole(dataset)
      BY <2>1, <3>2
    <3> HIDE DEF StagedInv, PartialInv
    <3> QED BY <2>1, <2>3, <3>1, <3>2
  <2>7. TreeInv'
    <3>1. SUFFICES ASSUME ~Restore!Whole(dataset), faults' <= 1 \/ ~overlapped'
                   PROVE  \E b \in Restore!Switches : Restore!Whole(rollback'[b]) /\ pc'[b] \notin Dropping
      BY <2>1
    <3>2. PICK b \in Restore!Switches : Restore!Whole(rollback[b]) /\ pc[b] \notin Dropping
      <4>1. faults <= 1 \/ ~overlapped
        BY <2>1, <3>1
      <4> HIDE DEF SwitchTypes, StagedInv, PartialInv, SoloInv, Dropping, Restore!Whole, Restore!Distinct
      <4> QED BY <3>1, <4>1
    <3> QED BY <2>1, <2>3, <3>2
  <2> QED BY <2>2, <2>4, <2>5, <2>6, <2>7
<1>11. CASE Restore!Answer(a)
  BY <1>11 DEF Restore!Answer
<1> QED
  BY <1>1, <1>2, <1>3, <1>4, <1>5, <1>6, <1>7, <1>8, <1>9, <1>10, <1>11 DEF Restore!Steps

\* The handler of a failed switch, with or without a failing rename of its own.
LEMMA SwitchHandlers ==
  ASSUME Restore!Distinct, RInv, NEW a \in Restore!Switches,
         Restore!HandleRestore(a) \/ Restore!HandleExport(a)
  PROVE  RInv'
<1> USE DEF RInv, SwitchTypes, StagedInv, StagedAt, PartialInv, SoloInv, TreeInv, Dropping,
        Broken, Restore!Distinct, Restore!Switches, Restore!Exists, Restore!Whole, Restore!Absent, Restore!Partial,
        Restore!NoJournal, Restore!At, Restore!Goto, Restore!Write, Restore!trees
<1>1. /\ up = "up" /\ up' = up /\ pc[a] = "handler"
      /\ faults' \in {faults, faults + 1}
      /\ UNCHANGED <<promoted, overlapped>>
      /\ \A b \in Restore!Switches \ {a} : pc'[b] = pc[b]
      /\ pc' = [b \in Restore!Switches |-> pc'[b]]
      /\ (a \in Restores /\ pc'[a] = "refused") \/ (a \in Exports /\ pc'[a] = "failed")
  BY DEF Restore!HandleRestore, Restore!HandleExport
<1>2. \/ UNCHANGED <<dataset, rollback>>
      \/ /\ dataset = "absent" /\ rollback[a] # "absent" /\ dataset' = rollback[a]
         /\ rollback' = [rollback EXCEPT ![a] = "absent"]
  BY DEF Restore!HandleRestore, Restore!HandleExport, Restore!Reinstate
<1>3. staging' = staging \/ staging' = [staging EXCEPT ![a] = "absent"]
  BY DEF Restore!HandleRestore, Restore!HandleExport
<1>4. /\ \A b \in Restore!Switches \ {a} : journal'[b] = journal[b]
      /\ journal' = [b \in Restore!Switches |-> journal'[b]]
      /\ journal[a] = "none" => journal'[a] = "none"
      /\ a \in Exports /\ a \in promoted /\ journal[a] # "none" => journal'[a] = "committed"
  BY DEF Restore!HandleRestore, Restore!HandleExport
<1>5. Broken => Broken'
  BY <1>1
<1>6. SwitchTypes'
  BY <1>1, <1>2, <1>3, <1>4
<1>7. StagedInv'
  <2>1. ASSUME NEW b \in Restore!Switches, b # a PROVE StagedAt(b)'
    <3> HIDE DEF PartialInv, SoloInv, TreeInv
    <3>1. staging'[b] = staging[b] /\ rollback'[b] = rollback[b]
      BY <1>2, <1>3, <2>1
    <3> HIDE DEF SwitchTypes
    <3> QED BY <1>1, <1>4, <2>1, <3>1
  <2>2. StagedAt(a)'
    BY <1>1, <1>3, <1>4, <1>2
  <2> QED BY <2>1, <2>2
<1>8. PartialInv'
  <2>1. dataset' = "partial" => Broken'
    BY <1>1, <1>2, <1>5
  <2>2. ASSUME NEW b \in Restore!Switches, rollback'[b] = "partial"
        PROVE  /\ faults' >= 1
               /\ Broken' \/ (b \in Exports => journal'[b] = "committed")
               /\ Broken' \/ pc'[b] \notin {"detached", "promote", "promoted"}
               /\ Broken' \/ pc'[b] # "handler" \/ b \in promoted'
    <3>1. rollback[b] = "partial" /\ faults' >= 1
      <4> HIDE DEF StagedInv, StagedAt, SoloInv, TreeInv, Broken
      <4>1. rollback[b] = "partial"
        BY <1>2, <2>2
      <4> QED BY <1>1, <4>1
    <3>2. CASE b = a
      BY <1>1, <1>4, <1>5, <3>1, <3>2
    <3>3. CASE b # a
      BY <1>1, <1>4, <1>5, <3>1, <3>3
    <3> QED BY <3>1, <3>2, <3>3
  <2> QED BY <2>1, <2>2
<1>9. SoloInv'
  BY <1>1, <1>2
<1>10. TreeInv'
  BY <1>1, <1>2
<1> QED BY <1>6, <1>7, <1>8, <1>9, <1>10

\* The process dies.
LEMMA SwitchCrash ==
  ASSUME Restore!Distinct, RInv, Restore!Crash PROVE RInv'
<1> USE DEF RInv, SwitchTypes, StagedInv, StagedAt, PartialInv, SoloInv, TreeInv, Dropping,
        Broken, Restore!Distinct, Restore!Switches, Restore!Exists, Restore!Whole, Restore!Absent, Restore!Partial,
        Restore!NoJournal
<1>1. /\ up = "up" /\ up' = "down" /\ faults' = faults + 1
      /\ UNCHANGED <<dataset, journal, overlapped>>
      /\ \A b \in Restore!Switches :
           pc'[b] = IF pc[b] = "succeeded" THEN "succeeded"
                    ELSE IF b \in Exports /\ pc[b] # "idle" THEN "failed" ELSE "idle"
  BY DEF Restore!Crash
<1>2. /\ \A b \in Restore!Switches :
           /\ staging'[b] = staging[b] \/ (pc[b] = "stage" /\ staging'[b] = "partial")
           /\ rollback'[b] = rollback[b] \/ (pc[b] = "drop" /\ rollback'[b] = "partial")
      /\ SwitchTypes'
  BY DEF Restore!Crash
<1>3. Broken => Broken'
  BY <1>1
<1>4. StagedInv'
  <2> HIDE DEF PartialInv, SoloInv, TreeInv, SwitchTypes, Restore!Whole
  <2> QED BY <1>1, <1>2
<1>5. PartialInv'
  <2>1. ASSUME NEW b \in Restore!Switches, rollback'[b] = "partial"
        PROVE  Broken' \/ (b \in Exports => journal'[b] = "committed")
    BY <1>1, <1>2, <1>3, <2>1
  <2>2. faults' >= 1 /\ (dataset' = "partial" => Broken')
    BY <1>1, <1>3
  <2>3. \A b \in Restore!Switches : pc'[b] \in {"idle", "failed", "succeeded"}
    BY <1>1
  <2> HIDE DEF Broken
  <2> QED BY <2>1, <2>2, <2>3
<1>6. SoloInv'
  BY <1>1, <1>2
<1>7. TreeInv'
  <2>1. SUFFICES ASSUME ~Restore!Whole(dataset), faults' <= 1 \/ ~overlapped' PROVE TreeInv'
    BY <1>1
  <2>2. PICK b \in Restore!Switches : Restore!Whole(rollback[b]) /\ pc[b] \notin Dropping
    <3> HIDE DEF StagedInv, StagedAt, PartialInv, SoloInv, Broken, Dropping, Restore!Whole, Restore!Distinct
    <3> QED BY <1>1, <2>1
  <2> QED BY <1>1, <1>2, <2>2
<1> QED BY <1>2, <1>4, <1>5, <1>6, <1>7

\* Startup recovers what the exports have journaled.
LEMMA SwitchStartup ==
  ASSUME Restore!Distinct, RInv, Restore!Startup PROVE RInv'
<1> USE DEF RInv, SwitchTypes, StagedInv, StagedAt, PartialInv, SoloInv, TreeInv, Dropping,
        Broken, Restore!Distinct, Restore!Switches, Restore!Exists, Restore!Whole, Restore!Absent, Restore!Partial,
        Restore!NoJournal, Restore!Write, Restore!trees
<1>1. up = "down" /\ UNCHANGED <<pc, promoted, faults, overlapped>>
  BY DEF Restore!Startup
<1>2. CASE up' = "up" /\ UNCHANGED <<dataset, staging, rollback, journal>>
  BY <1>1, <1>2
<1>3. ASSUME NEW a \in Exports, Restore!RecoverResolved(a) PROVE RInv'
  <2> USE <1>1, <1>3 DEF Restore!RecoverResolved
  <2>1. dataset' = dataset /\ up' = up /\ journal' = journal /\ SwitchTypes'
    OBVIOUS
  <2>2. /\ dataset = "absent" => rollback' = rollback
        /\ \A b \in Restore!Switches : /\ staging'[b] \in {"absent", staging[b]}
                                     /\ rollback'[b] \in {"absent", rollback[b]}
    OBVIOUS
  <2>3. StagedInv'
    <3> HIDE DEF PartialInv, SoloInv, TreeInv, SwitchTypes, Restore!RecoverResolved
    <3> QED BY <2>1, <2>2
  <2>4. PartialInv'
    <3> HIDE DEF StagedInv, SoloInv, TreeInv, SwitchTypes, Restore!RecoverResolved
    <3> QED BY <2>1, <2>2
  <2>5. SoloInv'
    BY <2>1, <2>2
  <2>6. CASE dataset = "absent"
    BY <2>1, <2>2, <2>3, <2>4, <2>5, <2>6
  <2>7. CASE dataset = "partial"
    <3>1. overlapped /\ ~(faults <= 1)
      BY <1>1, <2>7
    <3>2. TreeInv'
      BY <1>1, <3>1
    <3> HIDE DEF SwitchTypes, StagedInv, PartialInv, SoloInv, TreeInv
    <3> QED BY <2>1, <2>3, <2>4, <2>5, <3>2
  <2>8. CASE Restore!Whole(dataset)
    BY <2>1, <2>3, <2>4, <2>5, <2>8
  <2> QED BY <2>6, <2>7, <2>8
<1>4. ASSUME NEW a \in Exports, Restore!RecoverBack(a) PROVE RInv'
  <2>1. CASE UNCHANGED <<dataset, rollback>>
    BY <1>1, <1>4, <2>1 DEF Restore!RecoverBack
  <2>2. CASE dataset = "absent" /\ rollback[a] # "absent"
    <3>1. SwitchTypes'
      BY <1>1, <1>4, <2>2 DEF Restore!RecoverBack, Restore!Reinstate
    <3>2. StagedInv'
      BY <1>1, <1>4, <2>2 DEF Restore!RecoverBack, Restore!Reinstate
    <3>3. PartialInv'
      BY <1>1, <1>4, <2>2 DEF Restore!RecoverBack, Restore!Reinstate
    <3>4. SoloInv'
      BY <1>1, <1>4, <2>2 DEF Restore!RecoverBack, Restore!Reinstate
    <3>5. TreeInv'
      BY <1>1, <1>4, <2>2 DEF Restore!RecoverBack, Restore!Reinstate
    <3> QED BY <3>1, <3>2, <3>3, <3>4, <3>5
  <2> QED BY <1>4, <2>1, <2>2 DEF Restore!RecoverBack, Restore!Reinstate
<1>5. ASSUME NEW a \in Exports, Restore!RecoverForward(a) PROVE RInv'
  <2>1. CASE dataset # "absent" /\ rollback[a] = "absent" /\ staging[a] # "absent"
    <3>1. SwitchTypes'
      BY <1>1, <1>5, <2>1 DEF Restore!RecoverForward
    <3>2. StagedInv'
      <4> HIDE DEF PartialInv, SoloInv, TreeInv
      <4>1. /\ staging' = [staging EXCEPT ![a] = "absent"] /\ up' = up
            /\ \A b \in Restore!Switches : rollback'[b] \in {"absent", rollback[b]}
            /\ \A b \in Restore!Switches \ {a} : journal'[b] = journal[b]
        BY <1>5, <2>1 DEF Restore!RecoverForward
      <4>2. ASSUME NEW b \in Restore!Switches, b # a PROVE StagedAt(b)'
        BY <1>1, <4>1, <4>2
      <4>3. StagedAt(a)'
        BY <1>1, <1>5, <4>1 DEF Restore!RecoverForward
      <4> QED BY <4>2, <4>3
    <3>3. PartialInv'
      BY <1>1, <1>5, <2>1 DEF Restore!RecoverForward
    <3>4. SoloInv'
      BY <1>1, <1>5, <2>1 DEF Restore!RecoverForward
    <3>5. TreeInv'
      BY <1>1, <1>5, <2>1 DEF Restore!RecoverForward
    <3> QED BY <3>1, <3>2, <3>3, <3>4, <3>5
  <2>2. CASE dataset # "absent" /\ (rollback[a] # "absent" \/ staging[a] = "absent")
    <3>1. /\ dataset' = dataset /\ staging' = staging /\ rollback' = [rollback EXCEPT ![a] = "absent"]
          /\ journal' = [journal EXCEPT ![a] = "committed"] /\ up' = up
      BY <1>5, <2>2 DEF Restore!RecoverForward
    <3>2. SwitchTypes' /\ StagedInv'
      BY <1>1, <3>1, <1>5 DEF Restore!RecoverForward
    <3>3. PartialInv'
      BY <1>1, <2>2, <3>1
    <3>4. SoloInv'
      BY <1>1, <2>2, <3>1
    <3>5. TreeInv'
      BY <1>1, <2>2, <3>1
    <3> QED BY <3>2, <3>3, <3>4, <3>5
  <2>3. CASE dataset = "absent" /\ staging[a] # "absent"
    <3>1. SwitchTypes'
      BY <1>1, <1>5, <2>3 DEF Restore!RecoverForward
    <3>2. StagedInv'
      <4> HIDE DEF PartialInv, SoloInv, TreeInv
      <4>1. /\ staging' = [staging EXCEPT ![a] = "absent"] /\ up' = up
            /\ \A b \in Restore!Switches : rollback'[b] \in {"absent", rollback[b]}
            /\ \A b \in Restore!Switches \ {a} : journal'[b] = journal[b]
        BY <1>5, <2>3 DEF Restore!RecoverForward
      <4>2. ASSUME NEW b \in Restore!Switches, b # a PROVE StagedAt(b)'
        BY <1>1, <4>1, <4>2
      <4>3. StagedAt(a)'
        BY <1>1, <1>5, <4>1 DEF Restore!RecoverForward
      <4> QED BY <4>2, <4>3
    <3>3. PartialInv'
      BY <1>1, <1>5, <2>3 DEF Restore!RecoverForward
    <3>4. SoloInv'
      BY <1>1, <1>5, <2>3 DEF Restore!RecoverForward
    <3>5. TreeInv'
      BY <1>1, <1>5, <2>3 DEF Restore!RecoverForward
    <3> QED BY <3>1, <3>2, <3>3, <3>4, <3>5
  <2>4. CASE dataset = "absent" /\ staging[a] = "absent"
    <3>1. SwitchTypes'
      BY <1>1, <1>5, <2>4 DEF Restore!RecoverForward
    <3>2. StagedInv'
      BY <1>1, <1>5, <2>4 DEF Restore!RecoverForward
    <3>3. PartialInv'
      BY <1>1, <1>5, <2>4 DEF Restore!RecoverForward
    <3>4. SoloInv'
      BY <1>1, <1>5, <2>4 DEF Restore!RecoverForward
    <3>5. TreeInv'
      BY <1>1, <1>5, <2>4 DEF Restore!RecoverForward
    <3> QED BY <3>1, <3>2, <3>3, <3>4, <3>5
  <2> QED BY <2>1, <2>2, <2>3, <2>4
<1> QED BY <1>2, <1>3, <1>4, <1>5 DEF Restore!Startup

\* Restorations, commits, failures and restarts keep a whole tree of the dataset, with one
\* fault among switches that overlap and with any number among switches that do not
\* (AnnotationRestoreCoordinator.restore, ExportCommitCoordinator.commit).
THEOREM WholeTreeKept == RestoreSpec => []WholeTreeStands
<1>1. RestoreInit => RInv
  BY DEF RestoreInit, Restore!Init, RInv, SwitchTypes, StagedInv, StagedAt, PartialInv, SoloInv, TreeInv, Dropping,
        Broken, Restore!Distinct, Restore!Whole, Restore!Absent, Restore!Partial, Restore!NoJournal, Restore!Switches
<1>2. RInv /\ [Restore!Next /\ UNCHANGED <<commitVars, textVars>>]_<<vars, switchVars, textVars>> => RInv'
  <2> SUFFICES ASSUME RInv, [Restore!Next /\ UNCHANGED <<commitVars, textVars>>]_<<vars, switchVars, textVars>> PROVE RInv'
    OBVIOUS
  <2> USE RestoreAssumption
  <2>1. CASE UNCHANGED <<vars, switchVars, textVars>>
    BY <2>1 DEF vars, disk, thread, switchVars, RInv, SwitchTypes, StagedInv, StagedAt, PartialInv,
       SoloInv, TreeInv, Broken, Dropping, Restore!Whole
  <2>2. CASE \E a \in Restore!Switches :
               \/ Restore!Begin(a) \/ Restore!Steps(a) \/ Restore!Mismatch(a) \/ Restore!StepFails(a)
               \/ Restore!Answer(a)
    BY <2>2, SwitchSteps
  <2>3. CASE \E a \in Restore!Switches : Restore!HandleRestore(a) \/ Restore!HandleExport(a)
    BY <2>3, SwitchHandlers
  <2> QED BY <2>1, <2>2, <2>3, SwitchCrash, SwitchStartup DEF Restore!Next, Restore!Switches
<1>3. RInv => WholeTreeStands
  BY DEF RInv, TreeInv, WholeTreeStands, Restore!WholeTreeStands
<1> QED BY <1>1, <1>2, <1>3, PTL DEF RestoreSpec

-----------------------------------------------------------------------------
(* What a sample goes through: the inductive invariant                     *)

AllRounds == [Indexes -> 0 .. 2]
Changing == {"classify", "replace", "dropout"}
Jsons ==
  [shape : UserShapes \cup {"nine"}, count : Counts, rounds : AllRounds, dropped : BOOLEAN, path : Seq(Changing)]
Texts == [kind : {"source", "raw", "tagger", "flat"}, rounds : AllRounds]
Records == [index : Indexes, json : Jsons]

\* An absent file is {}, a file the set of its content.
FileOf(S, T) == S = {} \/ (S = {Sample!The(S)} /\ Sample!The(S) \in T)
Produced(S) == IF at = "caption" THEN FileOf(S, Texts) ELSE FileOf(S, Jsons)

SampleTypes ==
  /\ FileOf(txt, Texts) /\ FileOf(json, Jsons) /\ FileOf(ovTxt, Texts) /\ FileOf(ovJson, Jsons)
  /\ config \in Configs /\ phase \in {"none", "running", "interrupted", "reviewing", "failed"}
  /\ repair \in BOOLEAN /\ start \in {"caption", "classify", "dropout", "export"} /\ (~repair => start = "caption")
  /\ at \in {"workspace", "caption", "classify", "replace", "dropout", "export"}
  /\ sample \in {"pending", "leased", "prepared", "completed", "failed", "skipped"}
  /\ step \in {"none", "read", "write", "move", "mark", "complete"}

\* The overlay of any other job is given up or begun anew.
Active == phase \in {"running", "interrupted"}

\* Where the runner is with a sample of each status.
StepInv ==
  Active =>
    /\ sample \in {"pending", "leased", "prepared"} => Sample!Enabled(at) /\ at # "workspace"
    /\ sample \in {"pending", "leased", "prepared", "completed"} <=> issue = "none"
    /\ sample = "prepared" => at # "export"
    /\ at = "workspace" => sample = "completed"
    /\ step \in {"read", "write"} => sample = "leased"
    /\ step \in {"move", "mark"} => sample = "prepared"
    /\ step = "complete" => sample = IF at = "export" THEN "leased" ELSE "prepared"
    /\ step = "mark" => at = "replace"
    /\ phase = "interrupted" => step = "none"

\* What was prepared is in its file or in the overlay, so that recovery never does it again.
PreparedInv ==
  Active =>
    /\ Produced(out) /\ Produced(staged) /\ Produced(file)
    /\ step \in {"none", "read"} => out = {}
    /\ step = "write" => out # {}
    /\ at # "export" /\ (sample # "prepared" \/ step \in {"mark", "complete"}) => file = {}
    /\ sample = "prepared" => staged # {} /\ (file = staged \/ Sample!Target = staged)
    /\ step = "move" => file = staged
    /\ step \in {"mark", "complete"} /\ at # "export" => Sample!Target = staged
    /\ at = "export" /\ (step = "complete" \/ sample = "completed") => staged # {}

\* The annotation was replaced, if there is one.
Replaced(S, i) == S # {} => Sample!The(S).rounds[i] >= 1

\* The record was true when it was written, and a mark says that what is worked on was replaced.
RecordInv == FileOf(record, Records) /\ \A r \in record : r.json.rounds[r.index] >= 1
MarkInv ==
  Active =>
    /\ mark \in {{}, {config.index}}
    /\ mark # {} => at \in {"replace", "dropout", "export"} /\ Replaced(Sample!WorkJson, config.index)
    /\ at = "replace" /\ sample \in {"pending", "leased"} => mark = {}
    /\ mark # {} \/ at = "replace" => Replaced(staged, config.index) /\ Replaced(out, config.index)

\* What the JSON went through when a module is done with it.
Paths(c, m) ==
  CASE m \in {"workspace", "caption"} -> {<<>>}
    [] m = "classify" -> {Sample!Only(c, "classify")}
    [] m = "replace" -> {Sample!Only(c, "classify"), Sample!Only(c, "classify") \o Sample!Only(c, "replace")}
    [] OTHER -> {Sample!Asked(c), Sample!AskedButReplace(c)}
Done(c, S, m) ==
  S # {} =>
    /\ Sample!The(S).path \in Paths(c, m)
    /\ m \in {"replace", "dropout", "export"} /\ "replace" \in c.enabled => Replaced(S, c.index)
Earlier(m) == CASE m = "classify" -> "caption" [] m = "replace" -> "classify" [] m = "dropout" -> "replace"
                [] m = "export" -> "dropout" [] OTHER -> "caption"
WorkInv ==
  /\ json # {} => Sample!The(json).path = <<>>
  /\ Active /\ ~repair =>
    /\ at \in {"workspace", "caption"} => ovJson = {}
    /\ sample \in {"pending", "leased"} => Done(config, Sample!WorkJson, Earlier(at))
    /\ sample = "completed" => Done(config, Sample!WorkJson, at)
    /\ sample = "prepared" /\ at # "caption" => Done(config, staged, at)
    /\ step = "write" /\ at # "caption" => Done(config, out, at)
    /\ at = "export" /\ (step = "complete" \/ sample = "completed") => Done(config, staged, at)

SampleInv == SampleTypes /\ StepInv /\ PreparedInv /\ RecordInv /\ MarkInv /\ WorkInv

-----------------------------------------------------------------------------
(* Files and annotations                                                   *)

LEMMA TheOnly == ASSUME NEW x PROVE Sample!The({x}) = x
BY DEF Sample!The

LEMMA FileIn ==
  ASSUME NEW T, NEW x \in T PROVE FileOf({x}, T) /\ FileOf({}, T) /\ {x} # {}
BY TheOnly DEF FileOf

LEMMA IndexIn == ASSUME NEW c \in Configs PROVE c.index \in Indexes
BY SampleAssumption DEF Sample!TextAssumption

\* A round of replacement is counted, and never forgotten.
LEMMA RoundCounts ==
  ASSUME NEW rounds \in AllRounds, NEW i \in Indexes
  PROVE  /\ Sample!Round(rounds, i) \in AllRounds /\ Sample!Round(rounds, i)[i] >= 1
         /\ rounds[i] \in 0 .. 2 /\ Sample!NoRounds \in AllRounds
BY DEF AllRounds, Sample!Round, Sample!NoRounds

\* The bytes of an annotation are an annotation, without the history.
LEMMA BytesOf ==
  ASSUME NEW j \in Jsons
  PROVE  Sample!Bytes(j) \in Jsons /\ Sample!Bytes(j).path = <<>> /\ Sample!Bytes(j).rounds = j.rounds
<1>1. <<>> \in Seq(Changing)
  OBVIOUS
<1> QED BY <1>1 DEF Jsons, Sample!Bytes

\* What each module makes of an annotation.
LEMMA ClassifiedAnew ==
  ASSUME NEW rounds \in AllRounds, NEW count \in Counts
  PROVE  /\ Sample!Json("nine", count, rounds, <<"classify">>) \in Jsons
         /\ Sample!Json("nine", count, rounds, <<"classify">>).path = <<"classify">>
<1>1. <<"classify">> \in Seq(Changing) /\ "nine" \in UserShapes \cup {"nine"} /\ FALSE \in BOOLEAN
  BY DEF Changing
<1> QED BY <1>1 DEF Jsons, Sample!Json

LEMMA Classified ==
  ASSUME NEW j \in Jsons, NEW count \in Counts
  PROVE  /\ [j EXCEPT !.count = count, !.path = Append(@, "classify")] \in Jsons
         /\ [j EXCEPT !.count = count, !.path = Append(@, "classify")].path = Append(j.path, "classify")
<1>1. Append(j.path, "classify") \in Seq(Changing)
  BY DEF Jsons, Changing
<1> QED BY <1>1 DEF Jsons

LEMMA ReplacedOnce ==
  ASSUME NEW j \in Jsons, NEW i \in Indexes
  PROVE  /\ [j EXCEPT !.rounds = Sample!Round(@, i), !.path = Append(@, "replace")] \in Jsons
         /\ [j EXCEPT !.rounds = Sample!Round(@, i), !.path = Append(@, "replace")].path = Append(j.path, "replace")
         /\ [j EXCEPT !.rounds = Sample!Round(@, i), !.path = Append(@, "replace")].rounds[i] >= 1
<1>1. j.rounds \in AllRounds /\ j.path \in Seq(Changing)
  BY DEF Jsons
<1>2. Sample!Round(j.rounds, i) \in AllRounds /\ Sample!Round(j.rounds, i)[i] >= 1
  BY <1>1, RoundCounts
<1>3. Append(j.path, "replace") \in Seq(Changing)
  BY <1>1 DEF Changing
<1> QED BY <1>2, <1>3 DEF Jsons

LEMMA DroppedOnce ==
  ASSUME NEW j \in Jsons, NEW drops \in BOOLEAN
  PROVE  /\ [j EXCEPT !.dropped = @ \/ drops, !.path = Append(@, "dropout")] \in Jsons
         /\ [j EXCEPT !.dropped = @ \/ drops, !.path = Append(@, "dropout")].path = Append(j.path, "dropout")
         /\ [j EXCEPT !.dropped = @ \/ drops, !.path = Append(@, "dropout")].rounds = j.rounds
<1>1. (j.dropped \/ drops) \in BOOLEAN
  OBVIOUS
<1>2. Append(j.path, "dropout") \in Seq(Changing)
  BY DEF Jsons, Changing
<1> QED BY <1>1, <1>2 DEF Jsons

LEMMA NormalOnce ==
  ASSUME NEW j \in Jsons
  PROVE  Sample!Normalised(j) \in Jsons /\ Sample!Normalised(j).path = j.path /\ Sample!Normalised(j).rounds = j.rounds
BY DEF Jsons, Sample!Normalised

\* The work of a module follows that of the modules before it; one that is off adds none.
LEMMA PathClassify ==
  ASSUME NEW c
  PROVE
  /\ "classify" \in c.enabled => Append(<<>>, "classify") \in Paths(c, "classify") /\ <<"classify">> \in Paths(c, "classify")
  /\ "classify" \notin c.enabled => <<>> \in Paths(c, "classify")
BY DEF Paths, Sample!Only

LEMMA OnlyOf ==
  ASSUME NEW c, NEW m \in Changing
  PROVE  /\ Sample!Only(c, m) \in Seq(Changing)
         /\ m \in c.enabled => \A p \in Seq(Changing) : Append(p, m) = p \o Sample!Only(c, m)
         /\ m \notin c.enabled => \A p \in Seq(Changing) : p \o Sample!Only(c, m) = p
<1>1. CASE m \in c.enabled
  BY <1>1, AppendIsConcat DEF Sample!Only
<1>2. CASE m \notin c.enabled
  BY <1>2 DEF Sample!Only
<1> QED BY <1>1, <1>2

LEMMA PathReplace ==
  ASSUME NEW c, NEW p \in Paths(c, "classify")
  PROVE  /\ "replace" \in c.enabled => Append(p, "replace") \in Paths(c, "replace")
         /\ p \in Paths(c, "replace")
<1>1. p = Sample!Only(c, "classify") /\ p \in Seq(Changing) /\ "replace" \in Changing
  BY OnlyOf DEF Paths, Changing
<1> QED BY <1>1, OnlyOf DEF Paths

LEMMA PathDropout ==
  ASSUME NEW c, NEW p \in Paths(c, "replace")
  PROVE  /\ "dropout" \in c.enabled => Append(p, "dropout") \in Paths(c, "dropout")
         /\ "dropout" \notin c.enabled => p \in Paths(c, "dropout")
         /\ Paths(c, "export") = Paths(c, "dropout")
<1>1. /\ Sample!Only(c, "classify") \in Seq(Changing) /\ Sample!Only(c, "replace") \in Seq(Changing)
      /\ "dropout" \in Changing
  BY OnlyOf DEF Changing
<1>2. p = Sample!Only(c, "classify") \/ p = Sample!Only(c, "classify") \o Sample!Only(c, "replace")
  BY DEF Paths
<1>3. p \in Seq(Changing) /\ p \o Sample!Only(c, "dropout") \in Paths(c, "dropout")
  <2>1. p \in Seq(Changing)
    BY <1>1, <1>2, ConcatProperties
  <2>2. Paths(c, "dropout") = {Sample!Asked(c), Sample!AskedButReplace(c)}
    BY DEF Paths
  <2>3. p \o Sample!Only(c, "dropout") \in {Sample!Asked(c), Sample!AskedButReplace(c)}
    BY <1>2, Zenon DEF Sample!Asked, Sample!AskedButReplace
  <2> QED BY <2>1, <2>2, <2>3
<1>4. Paths(c, "export") = Paths(c, "dropout")
  BY DEF Paths
<1> QED BY <1>1, <1>3, <1>4, OnlyOf

-----------------------------------------------------------------------------
(* What a sample goes through: its steps                                   *)

LEMMA SampleStarts == ASSUME Sample!Init PROVE SampleInv
<1>1. config \in Configs
  BY SampleAssumption DEF Sample!Init, Sample!TextAssumption
<1>2. FileOf(txt, Texts)
  <2>1. Sample!Text("source", Sample!NoRounds) \in Texts
    BY DEF Sample!Text, Texts, Sample!NoRounds, AllRounds
  <2>2. FileOf({Sample!Text("source", Sample!NoRounds)}, Texts) /\ FileOf({}, Texts)
    BY <2>1, FileIn
  <2>3. txt = {} \/ txt = {Sample!Text("source", Sample!NoRounds)}
    BY SampleAssumption DEF Sample!Init, Sample!TextAssumption
  <2> QED BY <2>2, <2>3
<1>3. FileOf(json, Jsons) /\ (json # {} => Sample!The(json).path = <<>>)
  <2>1. CASE json = {}
    BY <2>1 DEF FileOf
  <2>2. CASE json # {}
    <3>1. PICK shape \in UserShapes, count \in Counts : json = {Sample!Json(shape, count, Sample!NoRounds, <<>>)}
      BY <2>2 DEF Sample!Init, Sample!UserJson
    <3>2. /\ Sample!Json(shape, count, Sample!NoRounds, <<>>) \in Jsons
          /\ Sample!Json(shape, count, Sample!NoRounds, <<>>).path = <<>>
      <4>1. Sample!NoRounds \in AllRounds /\ <<>> \in Seq(Changing)
        BY DEF Sample!NoRounds, AllRounds
      <4> QED BY <4>1 DEF Jsons, Sample!Json
    <3> QED BY <3>1, <3>2, FileIn, TheOnly
  <2> QED BY <2>1, <2>2
<1>4. SampleTypes
  BY <1>1, <1>2, <1>3 DEF Sample!Init, SampleTypes, FileOf
<1> QED BY <1>3, <1>4
  DEF Sample!Init, SampleInv, StepInv, PreparedInv, RecordInv, MarkInv, WorkInv, Active, FileOf

\* A new job begins with an empty overlay.
LEMMA JobKeeps ==
  ASSUME SampleInv, Sample!StartJob \/ Sample!RepairJob \/ Sample!Discard
  PROVE  SampleInv'
<1>1. CASE Sample!Discard
  BY <1>1 DEF Sample!Discard, SampleInv, SampleTypes, StepInv, PreparedInv, RecordInv, MarkInv, WorkInv, Active, FileOf,
    Sample!dataset, Sample!order, Sample!queue, Sample!overlay
<1>2. CASE Sample!StartJob \/ Sample!RepairJob
  <2>1. \E c \in Configs, from \in {"caption", "classify", "dropout", "export"}, child \in BOOLEAN :
          Sample!FreshJob(c, from, child) /\ (~child => from = "caption")
    BY <1>2 DEF Sample!StartJob, Sample!RepairJob, SampleInv, SampleTypes
  <2>2. ovJson' = {} /\ UNCHANGED Sample!dataset
    BY <1>2 DEF Sample!StartJob, Sample!RepairJob
  <2>3. SampleTypes' /\ StepInv'
    BY <2>1, <2>2 DEF Sample!FreshJob, SampleInv, SampleTypes, StepInv, Sample!dataset, FileOf
  <2>4. PreparedInv' /\ RecordInv' /\ MarkInv'
    BY <2>1, <2>2 DEF Sample!FreshJob, SampleInv, PreparedInv, RecordInv, MarkInv, Produced, Sample!dataset, FileOf,
      Replaced
  <2>5. WorkInv'
    BY <2>1, <2>2 DEF Sample!FreshJob, SampleInv, WorkInv, Done, Paths, Sample!WorkJson, Sample!dataset
  <2> QED BY <2>3, <2>4, <2>5 DEF SampleInv
<1> QED BY <1>1, <1>2

\* The modules in their order.
LEMMA PlaceOf ==
  /\ Sample!Position("caption") = 1 /\ Sample!Position("classify") = 2 /\ Sample!Position("replace") = 3
  /\ Sample!Position("dropout") = 4 /\ Sample!Position("export") = 5
BY DEF Sample!Position, Sample!Modules

LEMMA NextOf ==
  /\ Sample!Modules[Sample!Position("caption") + 1] = "classify"
  /\ Sample!Modules[Sample!Position("classify") + 1] = "replace"
  /\ Sample!Modules[Sample!Position("replace") + 1] = "dropout"
  /\ Sample!Modules[Sample!Position("dropout") + 1] = "export"
BY PlaceOf DEF Sample!Modules

\* The work done before a module that is off is the work done after it.
LEMMA DoneOver ==
  ASSUME NEW c, NEW S, NEW m \in Changing, m \notin c.enabled, Done(c, S, Earlier(m))
  PROVE  Done(c, S, m)
<1> USE DEF Done, Earlier, Changing
<1>1. CASE m = "classify"
  <2>1. Paths(c, "caption") = {<<>>}
    BY DEF Paths
  <2> QED BY <1>1, <2>1, PathClassify
<1>2. CASE m = "replace"
  BY <1>2, PathReplace
<1>3. CASE m = "dropout"
  BY <1>3, PathDropout
<1> QED BY <1>1, <1>2, <1>3

\* The scheduler takes a sample into a module or over it.
LEMMA EnterKeeps == ASSUME SampleInv, Sample!EnterModule PROVE SampleInv'
<1> USE DEF SampleInv, Sample!dataset, Sample!order, Sample!task, Sample!overlay, Sample!runner
<1> DEFINE next == IF at = "workspace" THEN "caption" ELSE Sample!Modules[Sample!Position(at) + 1]
           takes == Sample!Enabled(next) /\ Sample!Position(next) >= Sample!Position(start)
<1>1. /\ at' = next /\ staged' = {} /\ phase = "running" /\ step = "none" /\ sample \in {"completed", "skipped", "failed"}
      /\ sample' = IF issue # "none" THEN (IF next = "export" THEN "skipped" ELSE sample)
                   ELSE IF takes THEN "pending" ELSE "completed"
      /\ UNCHANGED <<txt, json, record, phase, config, start, repair, issue, file, ovTxt, ovJson, mark, step, out>>
  BY DEF Sample!EnterModule
<1>2. \/ at = "workspace" /\ next = "caption"
      \/ at = Earlier(next) /\ next \in {"classify", "replace", "dropout", "export"}
  BY NextOf DEF Sample!EnterModule, SampleTypes, Earlier
<1>3. /\ next = "export" => takes
      /\ takes => Sample!Enabled(next)
      /\ ~repair /\ ~takes => next \notin config.enabled
  <2>1. next = "export" => Sample!Position(next) = 5
    BY PlaceOf
  <2>2. Sample!Position(start) \in 1 .. 5 /\ (start = "caption" => Sample!Position(start) = 1)
    BY PlaceOf DEF SampleTypes
  <2>3. Sample!Position(next) \in 1 .. 5
    <3> HIDE DEF next
    <3> QED BY <1>2, PlaceOf DEF Earlier
  <2> HIDE DEF next
  <2> QED BY <2>1, <2>2, <2>3 DEF Sample!Enabled, SampleTypes
<1> HIDE DEF next, takes
<1>4. SampleTypes'
  BY <1>1, <1>2 DEF SampleTypes
<1>5. StepInv'
  BY <1>1, <1>2, <1>3 DEF StepInv, Active, Sample!Enabled
<1>6. out = {} /\ file = {} /\ out' = {} /\ file' = {}
  BY <1>1, <1>2 DEF PreparedInv, Active, Earlier
<1>7. PreparedInv'
  BY <1>1, <1>2, <1>3, <1>6 DEF PreparedInv, Produced, FileOf
<1>8. RecordInv'
  BY <1>1 DEF RecordInv
<1>9. MarkInv'
  BY <1>1, <1>2, <1>6 DEF MarkInv, Active, Replaced, Sample!WorkJson, Earlier
<1>10. WorkInv'
  <2>1. (json # {} => Sample!The(json).path = <<>>)'
    BY <1>1 DEF WorkInv
  <2>2. ASSUME ~repair PROVE at' = "caption" => ovJson' = {}
    BY <1>1, <1>2, <2>2 DEF WorkInv, Active, Earlier
  <2>3. ASSUME ~repair, sample' \in {"pending", "completed"} PROVE Done(config, Sample!WorkJson, Earlier(next))
    <3>1. sample = "completed"
      BY <1>1, <2>3 DEF StepInv, Active
    <3>2. Done(config, Sample!WorkJson, at)
      BY <1>1, <2>3, <3>1 DEF WorkInv, Active
    <3>3. CASE at = "workspace"
      BY <1>2, <3>2, <3>3 DEF Done, Paths, Earlier
    <3> QED BY <1>2, <3>2, <3>3
  <2>4. ASSUME ~repair, sample' = "completed" PROVE Done(config, Sample!WorkJson, next)
    <3>1. next # "export" /\ next \notin config.enabled
      BY <1>1, <1>3, <2>4 DEF StepInv, Active
    <3>2. CASE next \in Changing
      BY <2>3, <2>4, <3>1, <3>2, DoneOver
    <3>3. CASE next = "caption"
      BY <2>3, <2>4, <3>3 DEF Earlier
    <3> QED BY <1>2, <3>1, <3>2, <3>3 DEF Changing
  <2>5. sample' \notin {"leased", "prepared"} /\ step' = "none" /\ repair' = repair /\ config' = config
    BY <1>1
  <2>6. Sample!WorkJson' = Sample!WorkJson /\ at' = next /\ (next = "export" => sample' # "completed")
    BY <1>1, <1>3 DEF Sample!WorkJson
  <2>7. at' # "workspace"
    BY <1>1, <1>2
  <2> QED BY <2>1, <2>2, <2>3, <2>4, <2>5, <2>6, <2>7 DEF WorkInv
<1> QED BY <1>4, <1>5, <1>7, <1>8, <1>9, <1>10

\* The runner takes it, or gives it back.
LEMMA LeaseKeeps == ASSUME SampleInv, Sample!Claim \/ Sample!Release PROVE SampleInv'
<1> USE DEF SampleInv, Sample!dataset, Sample!order, Sample!task, Sample!overlay
<1>1. CASE Sample!Claim
  BY <1>1 DEF Sample!Claim, SampleTypes, StepInv, PreparedInv, RecordInv, MarkInv, WorkInv, Active, FileOf, Produced,
    Replaced, Done, Paths, Sample!Enabled, Sample!WorkJson, Sample!Only, Sample!Asked, Sample!AskedButReplace,
    Sample!Target
<1>2. CASE Sample!Release
  BY <1>2 DEF Sample!Release, SampleTypes, StepInv, PreparedInv, RecordInv, MarkInv, WorkInv, Active, FileOf, Produced,
    Replaced, Done, Paths, Sample!Enabled, Sample!WorkJson, Sample!Only, Sample!Asked, Sample!AskedButReplace,
    Sample!Target
<1> QED BY <1>1, <1>2

\* The runner settles a sample without an answer, or as the record or the mark tells it.
LEMMA SettleKeeps ==
  ASSUME SampleInv, phase = "running", step = "read", NEW result, NEW problem, Sample!Settle(result, problem),
         UNCHANGED <<Sample!dataset, Sample!task, crashes, at, staged, file, ovTxt, ovJson>>,
         \/ result = "failed" /\ problem # "none"
         \/ /\ result = "completed" /\ problem = "none" /\ at # "export"
            /\ ~repair => Done(config, Sample!WorkJson, at),
         \/ mark' = mark
         \/ mark' = {config.index} /\ at = "replace" /\ result = "completed" /\ Replaced(Sample!WorkJson, config.index)
  PROVE  SampleInv'
<1> USE DEF SampleInv, Sample!dataset, Sample!order, Sample!task
<1>1. sample = "leased" /\ sample' = result /\ issue' = problem /\ step' = "none" /\ out = {} /\ out' = {}
  BY DEF StepInv, PreparedInv, Active, Sample!Settle
<1>2. /\ UNCHANGED <<txt, json, record, phase, config, start, repair, original, at, staged, file, ovTxt, ovJson>>
      /\ Sample!WorkJson' = Sample!WorkJson
  BY DEF Sample!WorkJson
<1>3. SampleTypes' /\ StepInv'
  BY <1>1, <1>2 DEF SampleTypes, StepInv, Active
<1>4. PreparedInv'
  BY <1>1, <1>2 DEF PreparedInv, Active, Produced, FileOf
<1>5. RecordInv'
  BY <1>2 DEF RecordInv
<1>6. MarkInv'
  BY <1>1, <1>2 DEF MarkInv, Active, Replaced
<1>7. WorkInv'
  BY <1>1, <1>2 DEF WorkInv, Active
<1> QED BY <1>3, <1>4, <1>5, <1>6, <1>7

\* The worker answers.
LEMMA AnswerKeeps ==
  ASSUME SampleInv, phase = "running", step = "read", NEW content, Sample!Answers(content),
         UNCHANGED <<Sample!dataset, Sample!task, crashes>>,
         content \in IF at = "caption" THEN Texts ELSE Jsons,
         mark # {} \/ at = "replace" => content.rounds[config.index] >= 1,
         ~repair /\ at # "caption" => Done(config, {content}, at)
  PROVE  SampleInv'
<1> USE DEF SampleInv, Sample!dataset, Sample!order, Sample!task, Sample!queue, Sample!overlay
<1>1. sample = "leased" /\ step' = "write" /\ out' = {content} /\ Sample!The(out') = content /\ out' # {}
  BY TheOnly DEF StepInv, Active, Sample!Answers
<1>2. /\ UNCHANGED <<txt, json, record, phase, config, start, repair, original, at, sample, issue, staged, file, ovTxt,
                    ovJson, mark>>
      /\ Sample!WorkJson' = Sample!WorkJson
  BY DEF Sample!WorkJson, Sample!Answers
<1>3. SampleTypes' /\ StepInv'
  BY <1>1, <1>2 DEF SampleTypes, StepInv, Active, Sample!Enabled
<1>4. PreparedInv'
  BY <1>1, <1>2 DEF PreparedInv, Active, Produced, FileOf, Sample!Target
<1>5. RecordInv'
  BY <1>2 DEF RecordInv
<1>6. MarkInv'
  BY <1>1, <1>2 DEF MarkInv, Active, Replaced
<1>7. WorkInv'
  BY <1>1, <1>2 DEF WorkInv, Active
<1> QED BY <1>3, <1>4, <1>5, <1>6, <1>7

\* What the runner reads is an annotation of the dataset or of the overlay.
LEMMA WorkIn ==
  ASSUME SampleInv
  PROVE  FileOf(Sample!WorkJson, Jsons) /\ FileOf(Sample!WorkTxt, Texts) /\ config.index \in Indexes
BY IndexIn DEF SampleInv, SampleTypes, Sample!WorkJson, Sample!WorkTxt

\* What a sample that is read has gone through.
LEMMA ReadDone ==
  ASSUME SampleInv, phase = "running", step = "read"
  PROVE  /\ sample = "leased" /\ at # "workspace" /\ (at # "export" => at \in config.enabled)
         /\ ~repair => Done(config, Sample!WorkJson, Earlier(at))
BY DEF SampleInv, StepInv, WorkInv, Active, Sample!Enabled

LEMMA CaptionKeeps == ASSUME SampleInv, Sample!CaptionSample PROVE SampleInv'
<1>1. phase = "running" /\ step = "read" /\ at = "caption" /\ UNCHANGED <<Sample!dataset, Sample!task, crashes>>
  BY DEF Sample!CaptionSample, Sample!Working
<1>2. CASE \E problem \in {"caption", "final", "warning"} : Sample!Fails(problem)
  BY <1>1, <1>2, SettleKeeps DEF Sample!Fails, Sample!overlay
<1>3. CASE Sample!Completes
  <2>1. ~repair => Done(config, Sample!WorkJson, "caption")
    BY <1>1, ReadDone DEF Earlier
  <2> QED BY <1>1, <1>3, <2>1, SettleKeeps DEF Sample!Completes, Sample!overlay
<1>4. CASE Sample!Answers(Sample!Text("tagger", Sample!NoRounds))
  <2>1. Sample!Text("tagger", Sample!NoRounds) \in Texts
    BY DEF Sample!Text, Texts, Sample!NoRounds, AllRounds
  <2>2. mark = {}
    BY <1>1 DEF SampleInv, MarkInv, Active
  <2> QED BY <1>1, <1>4, <2>1, <2>2, AnswerKeeps
<1> QED BY <1>2, <1>3, <1>4 DEF Sample!CaptionSample, Sample!CaptionAnswer

LEMMA ClassifyKeeps == ASSUME SampleInv, Sample!ClassifySample PROVE SampleInv'
<1>1. phase = "running" /\ step = "read" /\ at = "classify" /\ UNCHANGED <<Sample!dataset, Sample!task, crashes>>
  BY DEF Sample!ClassifySample, Sample!Working
<1>2. CASE \E problem \in {"classify", "final"} : Sample!Fails(problem)
  BY <1>1, <1>2, SettleKeeps DEF Sample!Fails, Sample!overlay
<1>3. ASSUME Sample!ClassifyInput # {}, NEW count \in Counts,
             Sample!Answers(Sample!Compose(Sample!The(Sample!ClassifyInput).rounds, count))
      PROVE  SampleInv'
  <2> DEFINE rounds == Sample!The(Sample!ClassifyInput).rounds
             content == Sample!Compose(rounds, count)
  <2>1. rounds \in AllRounds
    <3>1. Sample!Text("raw", Sample!NoRounds) \in Texts
      BY DEF Sample!Text, Texts, Sample!NoRounds, AllRounds
    <3>2. FileOf(Sample!ClassifyInput, Texts)
      BY <3>1, FileIn, WorkIn DEF Sample!ClassifyInput
    <3> QED BY <1>3, <3>2 DEF FileOf, Texts
  <2>2. mark = {} /\ "classify" \in config.enabled /\ (~repair => Done(config, Sample!WorkJson, "caption"))
    BY <1>1, ReadDone DEF SampleInv, MarkInv, Active, Earlier
  <2>3. content \in Jsons /\ (~repair => content.path \in Paths(config, "classify"))
    <3>1. CASE content = Sample!Json("nine", count, rounds, <<"classify">>)
      <4> HIDE DEF content, rounds
      <4> QED BY <2>1, <2>2, <3>1, ClassifiedAnew, PathClassify
    <3>2. CASE /\ Sample!WorkJson # {}
               /\ content = [Sample!The(Sample!WorkJson) EXCEPT !.count = count, !.path = Append(@, "classify")]
      <4>1. Sample!The(Sample!WorkJson) \in Jsons
        BY <3>2, WorkIn DEF FileOf
      <4>2. ~repair => Sample!The(Sample!WorkJson).path = <<>>
        BY <2>2, <3>2 DEF Done, Paths
      <4> HIDE DEF content, rounds
      <4> QED BY <2>1, <2>2, <3>2, <4>1, <4>2, Classified, PathClassify
    <3> QED BY <3>1, <3>2 DEF Sample!Compose
  <2>4. Sample!The({content}) = content
    BY TheOnly
  <2> HIDE DEF content
  <2>5. ~repair => Done(config, {content}, "classify")
    BY <2>3, <2>4 DEF Done
  <2>6. Sample!Answers(content)
    BY <1>3 DEF content
  <2> QED BY <1>1, <2>2, <2>3, <2>5, <2>6, AnswerKeeps
<1> QED BY <1>2, <1>3 DEF Sample!ClassifySample, Sample!ClassifyAnswer

\* A JSON that is made from the working JSON by a module that is on has the work of the modules
\* before it, and its own.
LEMMA ReplaceKeeps == ASSUME SampleInv, Sample!ReplaceSample PROVE SampleInv'
<1>1. phase = "running" /\ step = "read" /\ at = "replace" /\ UNCHANGED <<Sample!dataset, Sample!task, crashes>>
  BY DEF Sample!ReplaceSample, Sample!Working
<1>2. CASE Sample!Fails("final")
  BY <1>1, <1>2, SettleKeeps DEF Sample!Fails, Sample!overlay
<1>3. mark = {} /\ "replace" \in config.enabled /\ (~repair => Done(config, Sample!WorkJson, "classify"))
  BY <1>1, ReadDone DEF SampleInv, MarkInv, Active, Earlier
<1> DEFINE j == Sample!The(Sample!WorkJson)
<1>4. CASE Sample!WorkJson # {} /\ Sample!Recorded(j) /\ Sample!Settle("completed", "none") /\ mark' = {config.index}
           /\ UNCHANGED <<at, staged, file, ovTxt, ovJson>>
  <2>1. Replaced(Sample!WorkJson, config.index)
    <3>1. j \in Jsons
      BY <1>4, WorkIn DEF FileOf
    <3>2. Sample!Bytes(j).rounds[config.index] >= 1
      BY <1>4 DEF SampleInv, RecordInv, Sample!Recorded
    <3> QED BY <3>1, <3>2, BytesOf DEF Replaced
  <2>2. ~repair => Done(config, Sample!WorkJson, "replace")
    BY <1>3, <1>4, <2>1, PathReplace DEF Done
  <2> QED BY <1>1, <1>4, <2>1, <2>2, SettleKeeps
<1>5. ASSUME Sample!WorkJson # {}, Sample!ReplaceAnswer(j), ~Sample!Fails("final") PROVE SampleInv'
  <2> DEFINE content == [j EXCEPT !.rounds = Sample!Round(@, config.index), !.path = Append(@, "replace")]
  <2>1. j \in Jsons /\ config.index \in Indexes
    BY <1>5, WorkIn DEF FileOf
  <2>2. content \in Jsons /\ content.path = Append(j.path, "replace") /\ content.rounds[config.index] >= 1
    BY <2>1, ReplacedOnce
  <2>3. Sample!Answers(content)
    BY <1>5 DEF Sample!ReplaceAnswer
  <2>4. ~repair => j.path \in Paths(config, "classify")
    BY <1>3, <1>5 DEF Done
  <2>5. Sample!The({content}) = content
    BY TheOnly
  <2> HIDE DEF content, j
  <2>6. ~repair => Done(config, {content}, "replace")
    BY <1>3, <2>2, <2>4, <2>5, PathReplace DEF Done, Replaced
  <2> QED BY <1>1, <2>2, <2>3, <2>6, AnswerKeeps
<1> QED BY <1>2, <1>3, <1>4, <1>5 DEF Sample!ReplaceSample

LEMMA DropoutKeeps == ASSUME SampleInv, Sample!DropoutSample PROVE SampleInv'
<1>1. phase = "running" /\ step = "read" /\ at = "dropout" /\ UNCHANGED <<Sample!dataset, Sample!task, crashes>>
  BY DEF Sample!DropoutSample, Sample!Working
<1>2. CASE \E problem \in {"classify", "dropout"} : Sample!Fails(problem)
  BY <1>1, <1>2, SettleKeeps DEF Sample!Fails, Sample!overlay
<1> DEFINE j == Sample!The(Sample!WorkJson)
<1>3. ASSUME Sample!WorkJson # {}, NEW drops \in BOOLEAN,
             Sample!Answers([j EXCEPT !.dropped = @ \/ drops, !.path = Append(@, "dropout")])
      PROVE  SampleInv'
  <2> DEFINE content == [j EXCEPT !.dropped = @ \/ drops, !.path = Append(@, "dropout")]
  <2>1. j \in Jsons
    BY <1>3, WorkIn DEF FileOf
  <2>2. content \in Jsons /\ content.path = Append(j.path, "dropout") /\ content.rounds = j.rounds
    BY <2>1, DroppedOnce
  <2>3. "dropout" \in config.enabled /\ (~repair => Done(config, Sample!WorkJson, "replace"))
    BY <1>1, ReadDone DEF Earlier
  <2>4. ~repair => /\ j.path \in Paths(config, "replace")
                   /\ "replace" \in config.enabled => j.rounds[config.index] >= 1
    BY <1>3, <2>3 DEF Done, Replaced
  <2>5. mark # {} => j.rounds[config.index] >= 1
    BY <1>1, <1>3 DEF SampleInv, MarkInv, Active, Replaced
  <2>6. Sample!Answers(content) /\ Sample!The({content}) = content
    BY <1>3, TheOnly
  <2> HIDE DEF content, j
  <2>7. ~repair => Done(config, {content}, "dropout")
    BY <2>2, <2>3, <2>4, <2>6, PathDropout DEF Done, Replaced
  <2> QED BY <1>1, <2>2, <2>5, <2>6, <2>7, AnswerKeeps
<1> QED BY <1>2, <1>3 DEF Sample!DropoutSample, Sample!DropoutAnswer

LEMMA ExportKeeps == ASSUME SampleInv, Sample!ExportSample PROVE SampleInv'
<1>1. phase = "running" /\ step = "read" /\ at = "export" /\ UNCHANGED <<Sample!dataset, Sample!task, crashes>>
  BY DEF Sample!ExportSample, Sample!Working
<1>2. CASE \E problem \in {"classify", "final"} : Sample!Fails(problem)
  BY <1>1, <1>2, SettleKeeps DEF Sample!Fails, Sample!overlay
<1> DEFINE j == Sample!The(Sample!WorkJson)
           content == Sample!Normalised(j)
<1>3. ASSUME Sample!WorkJson # {}, Sample!Answers(content) PROVE SampleInv'
  <2>1. j \in Jsons
    BY <1>3, WorkIn DEF FileOf
  <2>2. content \in Jsons /\ content.path = j.path /\ content.rounds = j.rounds
    BY <2>1, NormalOnce
  <2>3. ~repair => Done(config, Sample!WorkJson, "dropout")
    BY <1>1, ReadDone DEF Earlier
  <2>4. ~repair => /\ j.path \in Paths(config, "dropout")
                   /\ "replace" \in config.enabled => j.rounds[config.index] >= 1
    BY <1>3, <2>3 DEF Done, Replaced
  <2>5. mark # {} => j.rounds[config.index] >= 1
    BY <1>1, <1>3 DEF SampleInv, MarkInv, Active, Replaced
  <2>6. Sample!The({content}) = content
    BY TheOnly
  <2>7. Paths(config, "export") = Paths(config, "dropout")
    BY DEF Paths
  <2> HIDE DEF content, j
  <2>8. ~repair => Done(config, {content}, "export")
    BY <2>2, <2>4, <2>6, <2>7 DEF Done, Replaced
  <2> QED BY <1>1, <1>3, <2>2, <2>5, <2>8, AnswerKeeps
<1> QED BY <1>2, <1>3 DEF Sample!ExportSample, Sample!ExportProblem

-----------------------------------------------------------------------------
(* An answer is stored, published, or lost in a crash                      *)

\* The prepared file, the overlay, the mark, the status.
LEMMA PrepareKeeps == ASSUME SampleInv, Sample!Prepare PROVE SampleInv'
<1> USE DEF SampleInv, Sample!dataset, Sample!order, Sample!task
<1>1. sample = "leased" /\ out # {} /\ Produced(out)
  BY DEF Sample!Prepare, StepInv, PreparedInv, Active
<1>2. Sample!WorkJson' = Sample!WorkJson /\ Produced(out)' = Produced(out)
  BY DEF Sample!Prepare, Sample!WorkJson, Produced
<1>3. SampleTypes' /\ StepInv'
  BY <1>1 DEF Sample!Prepare, SampleTypes, StepInv, Active, Sample!Enabled
<1>4. PreparedInv'
  BY <1>1, <1>2 DEF Sample!Prepare, PreparedInv, Active, Produced
<1>5. RecordInv' /\ MarkInv'
  BY <1>1, <1>2 DEF Sample!Prepare, RecordInv, MarkInv, Active
<1>6. WorkInv'
  BY <1>1, <1>2 DEF Sample!Prepare, WorkInv, Active
<1> QED BY <1>3, <1>4, <1>5, <1>6

LEMMA MoveKeeps == ASSUME SampleInv, Sample!Move PROVE SampleInv'
<1> USE DEF SampleInv, Sample!dataset, Sample!order, Sample!task, Sample!queue
<1>1. /\ sample = "prepared" /\ staged # {} /\ file = staged /\ Produced(staged) /\ at # "export" /\ phase = "running"
      /\ at # "workspace"
  BY DEF Sample!Move, StepInv, PreparedInv, Active
<1>2. /\ file' = {}
      /\ IF at = "caption" THEN ovTxt' = staged /\ ovJson' = ovJson ELSE ovJson' = staged /\ ovTxt' = ovTxt
      /\ UNCHANGED <<txt, json, record, phase, config, start, repair, original, jobs, at, sample, issue, staged, mark, out>>
      /\ step' = IF at = "replace" THEN "mark" ELSE "complete"
  BY <1>1 DEF Sample!Move, Sample!MoveIntoOverlay
<1>3. FileOf(ovTxt, Texts)' /\ FileOf(ovJson, Jsons)'
  BY <1>1, <1>2 DEF Produced, SampleTypes
<1>4. SampleTypes' /\ StepInv'
  BY <1>1, <1>2, <1>3 DEF SampleTypes, StepInv, Active, Sample!Enabled
<1>5. PreparedInv'
  <2>1. Produced(out)' /\ Produced(staged)' /\ Produced(file)' /\ Sample!Target' = staged'
    BY <1>1, <1>2 DEF PreparedInv, Active, Produced, FileOf, Sample!Target
  <2> QED BY <1>1, <1>2, <2>1 DEF PreparedInv, Active
<1>6. Sample!WorkJson' = IF at = "caption" THEN Sample!WorkJson ELSE staged
  BY <1>1, <1>2 DEF Sample!WorkJson
<1>7. RecordInv' /\ MarkInv'
  BY <1>1, <1>2, <1>6 DEF RecordInv, MarkInv, Active
<1>8. WorkInv'
  BY <1>1, <1>2 DEF WorkInv, Active
<1> QED BY <1>4, <1>5, <1>7, <1>8

LEMMA MarkKeeps == ASSUME SampleInv, Sample!MarkReplaced PROVE SampleInv'
<1> USE DEF SampleInv, Sample!dataset, Sample!order, Sample!task, Sample!queue
<1>1. at = "replace" /\ sample = "prepared" /\ phase = "running" /\ step = "mark" /\ ovJson = staged /\ staged # {}
  BY DEF Sample!MarkReplaced, StepInv, PreparedInv, Active, Sample!Target
<1>2. Sample!WorkJson' = Sample!WorkJson /\ Sample!WorkJson = staged
  BY <1>1 DEF Sample!MarkReplaced, Sample!WorkJson
<1>3. SampleTypes' /\ StepInv'
  BY <1>1 DEF Sample!MarkReplaced, SampleTypes, StepInv, Active, Sample!Enabled
<1>4. PreparedInv'
  BY <1>1 DEF Sample!MarkReplaced, PreparedInv, Active, Produced, Sample!Target
<1>5. RecordInv' /\ MarkInv'
  BY <1>1, <1>2 DEF Sample!MarkReplaced, RecordInv, MarkInv, Active
<1>6. WorkInv'
  BY <1>1, <1>2 DEF Sample!MarkReplaced, WorkInv, Active
<1> QED BY <1>3, <1>4, <1>5, <1>6

LEMMA CompleteKeeps == ASSUME SampleInv, Sample!Complete PROVE SampleInv'
<1> USE DEF SampleInv, Sample!dataset, Sample!order, Sample!task, Sample!overlay
<1>1. /\ phase = "running" /\ step = "complete" /\ at # "workspace" /\ sample' = "completed" /\ issue' = "none"
      /\ step' = "none" /\ out' = {} /\ Sample!Enabled(at) /\ sample = (IF at = "export" THEN "leased" ELSE "prepared")
      /\ UNCHANGED <<txt, json, record, phase, config, start, repair, original, jobs, at, staged, file, ovTxt, ovJson, mark>>
  BY DEF Sample!Complete, Sample!Settle, StepInv, Active
<1>2. Sample!WorkJson' = Sample!WorkJson /\ Sample!Target' = Sample!Target /\ (Produced(staged) /\ Produced(file))'
  BY <1>1 DEF Sample!WorkJson, Sample!Target, PreparedInv, Active, Produced
<1>3. SampleTypes' /\ StepInv'
  BY <1>1 DEF SampleTypes, StepInv, Active
<1>4. PreparedInv'
  BY <1>1, <1>2 DEF PreparedInv, Active, Produced, FileOf
<1>5. RecordInv' /\ MarkInv'
  BY <1>1, <1>2 DEF RecordInv, MarkInv, Active, Replaced
<1>6. ASSUME ~repair PROVE Done(config, Sample!WorkJson, at)
  <2>1. CASE at = "caption"
    <3>1. ovJson = {} /\ (json # {} => Sample!The(json).path = <<>>)
      BY <1>1, <1>6, <2>1 DEF WorkInv, Active
    <3> QED BY <2>1, <3>1 DEF Sample!WorkJson, Done, Paths
  <2>2. CASE at \in Changing
    <3>1. ovJson = staged /\ staged # {} /\ Done(config, staged, at)
      BY <1>1, <1>6, <2>2 DEF PreparedInv, WorkInv, Active, Sample!Target, Changing
    <3> QED BY <3>1 DEF Sample!WorkJson
  <2>3. CASE at = "export"
    <3>1. Done(config, Sample!WorkJson, "dropout")
      BY <1>1, <1>6, <2>3 DEF WorkInv, Active, Earlier
    <3> QED BY <2>3, <3>1 DEF Done, Paths
  <2> QED BY <1>1, <2>1, <2>2, <2>3 DEF SampleTypes, Changing
<1>7. WorkInv'
  BY <1>1, <1>2, <1>6 DEF WorkInv, Active
<1> QED BY <1>3, <1>4, <1>5, <1>7

LEMMA StageKeeps == ASSUME SampleInv, Sample!StageArtifacts PROVE SampleInv'
<1> USE DEF SampleInv, Sample!dataset, Sample!order, Sample!task
<1>1. sample = "leased" /\ out # {} /\ Produced(out) /\ at = "export"
  BY DEF Sample!StageArtifacts, StepInv, PreparedInv, Active
<1>2. Sample!WorkJson' = Sample!WorkJson /\ Produced(out)' = Produced(out)
  BY DEF Sample!StageArtifacts, Sample!WorkJson, Produced
<1>3. SampleTypes' /\ StepInv'
  BY <1>1 DEF Sample!StageArtifacts, SampleTypes, StepInv, Active, Sample!Enabled
<1>4. PreparedInv'
  BY <1>1, <1>2 DEF Sample!StageArtifacts, PreparedInv, Active, Produced
<1>5. RecordInv' /\ MarkInv'
  BY <1>1, <1>2 DEF Sample!StageArtifacts, RecordInv, MarkInv, Active
<1>6. WorkInv'
  BY <1>1, <1>2 DEF Sample!StageArtifacts, WorkInv, Active
<1> QED BY <1>3, <1>4, <1>5, <1>6

\* The job is over, or has stopped: nothing is left to keep but what the dataset and its record say.
LEMMA StopKeeps == ASSUME SampleInv, Sample!Raise \/ Sample!Review PROVE SampleInv'
<1> USE DEF SampleInv, Sample!dataset, Sample!order, Sample!overlay, Sample!queue, Sample!runner
<1>1. SampleTypes' /\ ~Active'
  BY DEF Sample!Raise, Sample!Review, SampleTypes, Active
<1>2. UNCHANGED <<record, json>>
  BY DEF Sample!Raise, Sample!Review
<1> QED BY <1>1, <1>2 DEF StepInv, PreparedInv, RecordInv, MarkInv, WorkInv

\* What is published of a marked sample was replaced, and so its row is true.
LEMMA PublishKeeps == ASSUME SampleInv, Sample!Publish PROVE SampleInv'
<1> USE DEF SampleInv, Sample!dataset, Sample!order, Sample!overlay, Sample!queue, Sample!runner
<1> DEFINE j == Sample!Bytes(Sample!The(staged))
<1>1. phase = "running" /\ phase' = "none" /\ ~Active' /\ Active /\ at = "export" /\ step = "none"
      /\ UNCHANGED <<config, start, repair, original, jobs, at, sample, issue, staged, file, ovTxt, ovJson, mark, step, out>>
  BY DEF Sample!Publish, Active
<1>2. CASE sample = "skipped"
  BY <1>1, <1>2 DEF Sample!Publish, SampleTypes, StepInv, PreparedInv, RecordInv, MarkInv, WorkInv
<1>3. CASE sample = "completed"
  <2>1. staged # {} /\ FileOf(staged, Jsons) /\ Sample!The(staged) \in Jsons
    BY <1>1, <1>3 DEF PreparedInv, Produced, FileOf
  <2>2. j \in Jsons /\ j.path = <<>> /\ j.rounds = Sample!The(staged).rounds /\ j.rounds \in AllRounds
    BY <2>1, BytesOf DEF Jsons
  <2>3. /\ txt' = IF config.format = "json" THEN {} ELSE {Sample!Text("flat", j.rounds)}
        /\ json' = IF config.format = "flat_txt" THEN {} ELSE {j}
        /\ record' = Sample!Applied(Sample!Changes(j))
    BY <1>3 DEF Sample!Publish
  <2> HIDE DEF j
  <2>4. FileOf(txt', Texts) /\ FileOf(json', Jsons) /\ (json' # {} => Sample!The(json').path = <<>>)
    <3>1. Sample!Text("flat", j.rounds) \in Texts
      BY <2>2 DEF Sample!Text, Texts
    <3> QED BY <2>2, <2>3, <3>1, FileIn, TheOnly
  <2>5. FileOf(record', Records) /\ \A r \in record' : r.json.rounds[r.index] >= 1
    <3>1. CASE record' = {} \/ record' = record
      BY <3>1 DEF RecordInv, FileOf
    <3>2. CASE mark # {} /\ record' = {[index |-> Sample!The(mark), json |-> j]}
      <4>1. Sample!The(mark) = config.index /\ config.index \in Indexes
        BY <1>1, <3>2, TheOnly, IndexIn DEF MarkInv, SampleTypes
      <4>2. j.rounds[config.index] >= 1
        BY <1>1, <2>1, <2>2, <3>2 DEF MarkInv, Replaced
      <4>3. [index |-> config.index, json |-> j] \in Records
        BY <2>2, <4>1 DEF Records
      <4> QED BY <3>2, <4>1, <4>2, <4>3, FileIn
    <3>3. \A S : Sample!Last(<<S>>) = S
      BY DEF Sample!Last
    <3> QED BY <2>3, <3>1, <3>2, <3>3 DEF Sample!Changes, Sample!Applied
  <2>6. SampleTypes'
    BY <1>1, <2>4 DEF SampleTypes
  <2> QED BY <1>1, <2>4, <2>5, <2>6 DEF StepInv, PreparedInv, RecordInv, MarkInv, WorkInv
<1> QED BY <1>2, <1>3 DEF Sample!Publish

LEMMA CrashKeeps == ASSUME SampleInv, Sample!Crash PROVE SampleInv'
<1> USE DEF SampleInv, Sample!dataset, Sample!order, Sample!queue, Sample!overlay
<1>1. /\ phase = "running" /\ phase' = "interrupted" /\ step' = "none" /\ out' = {} /\ Active /\ Active'
      /\ UNCHANGED <<txt, json, record, config, start, repair, original, jobs, at, sample, issue, staged, file, ovTxt,
                    ovJson, mark>>
  BY DEF Sample!Crash, Active
<1>2. Sample!WorkJson' = Sample!WorkJson /\ Sample!Target' = Sample!Target /\ (Produced(staged) /\ Produced(file))'
  BY <1>1 DEF Sample!WorkJson, Sample!Target, PreparedInv, Produced
<1>3. SampleTypes' /\ StepInv'
  BY <1>1 DEF SampleTypes, StepInv, Sample!Enabled
<1>4. PreparedInv'
  BY <1>1, <1>2 DEF PreparedInv, Produced, FileOf
<1>5. RecordInv' /\ MarkInv'
  BY <1>1, <1>2 DEF RecordInv, MarkInv, Replaced
<1>6. WorkInv'
  BY <1>1, <1>2 DEF WorkInv
<1> QED BY <1>3, <1>4, <1>5, <1>6

\* What was prepared is found again, in its file or in the overlay: recovery completes it.
LEMMA RecoverKeeps == ASSUME SampleInv, Sample!Recover PROVE SampleInv'
<1> USE DEF SampleInv, Sample!dataset, Sample!order, Sample!runner
<1>1. /\ phase = "interrupted" /\ phase' = "running" /\ step = "none" /\ out = {} /\ Active /\ Active'
      /\ UNCHANGED <<txt, json, record, config, start, repair, original, jobs, at, issue, staged, step, out>>
  BY DEF Sample!Recover, StepInv, PreparedInv, Active
<1>2. CASE sample = "prepared"
  <2>1. staged # {} /\ (file = staged \/ Sample!Target = staged) /\ Produced(staged) /\ at # "export" /\ at # "workspace"
        /\ Sample!Enabled(at) /\ issue = "none"
    BY <1>1, <1>2 DEF PreparedInv, StepInv
  <2>2. Sample!SameBytes(Sample!Target, staged) \/ Sample!SameBytes(file, staged)
    BY <2>1 DEF Sample!SameBytes
  <2>3. /\ sample' = "completed" /\ file' = {} /\ mark' = mark
        /\ IF at = "caption" THEN ovTxt' = staged /\ ovJson' = ovJson ELSE ovJson' = staged /\ ovTxt' = ovTxt
    BY <1>2, <2>2 DEF Sample!Recover, Sample!RecoverPrepared, Sample!MoveIntoOverlay
  <2>4. SampleTypes' /\ StepInv'
    BY <1>1, <2>1, <2>3 DEF SampleTypes, StepInv, Produced, Sample!Enabled
  <2>5. PreparedInv'
    BY <1>1, <2>1, <2>3 DEF PreparedInv, Produced, FileOf
  <2>6. Sample!WorkJson' = IF at = "caption" THEN Sample!WorkJson ELSE staged
    BY <1>1, <2>1, <2>3 DEF Sample!WorkJson
  <2>7. RecordInv' /\ MarkInv'
    BY <1>1, <1>2, <2>1, <2>3, <2>6 DEF RecordInv, MarkInv, Replaced
  <2>8. ASSUME ~repair PROVE Done(config, Sample!WorkJson', at)
    <3>1. CASE at = "caption"
      <4>1. ovJson = {} /\ (json # {} => Sample!The(json).path = <<>>)
        BY <1>1, <2>8, <3>1 DEF WorkInv
      <4> QED BY <2>6, <3>1, <4>1 DEF Sample!WorkJson, Done, Paths
    <3>2. CASE at # "caption"
      BY <1>1, <1>2, <2>6, <2>8, <3>2 DEF WorkInv
    <3> QED BY <3>1, <3>2
  <2>9. WorkInv'
    BY <1>1, <2>1, <2>3, <2>8 DEF WorkInv
  <2> QED BY <2>4, <2>5, <2>7, <2>9
<1>3. CASE sample # "prepared"
  <2>1. sample' = (IF sample = "leased" THEN "pending" ELSE sample) /\ UNCHANGED <<file, ovTxt, ovJson, mark>>
    BY <1>3 DEF Sample!Recover, Sample!overlay
  <2>2. Sample!WorkJson' = Sample!WorkJson /\ (Produced(staged) /\ Produced(file))'
    BY <1>1, <2>1 DEF Sample!WorkJson, PreparedInv, Produced
  <2>3. SampleTypes' /\ StepInv'
    BY <1>1, <1>3, <2>1 DEF SampleTypes, StepInv, Sample!Enabled
  <2>4. PreparedInv'
    BY <1>1, <1>3, <2>1, <2>2 DEF PreparedInv, Produced, FileOf
  <2>5. RecordInv' /\ MarkInv'
    BY <1>1, <1>3, <2>1, <2>2 DEF RecordInv, MarkInv, Replaced
  <2>6. WorkInv'
    BY <1>1, <1>3, <2>1, <2>2 DEF WorkInv
  <2> QED BY <2>3, <2>4, <2>5, <2>6
<1> QED BY <1>2, <1>3

-----------------------------------------------------------------------------
(* What a sample goes through: the theorems                                *)

LEMMA SampleNext == ASSUME SampleInv, Sample!Next PROVE SampleInv'
<1>1. CASE Sample!StartJob \/ Sample!RepairJob \/ Sample!Discard
  BY <1>1, JobKeeps
<1>2. CASE Sample!EnterModule \/ Sample!Claim \/ Sample!Release
  BY <1>2, EnterKeeps, LeaseKeeps
<1>3. CASE Sample!CaptionSample \/ Sample!ClassifySample \/ Sample!ReplaceSample \/ Sample!DropoutSample
           \/ Sample!ExportSample
  BY <1>3, CaptionKeeps, ClassifyKeeps, ReplaceKeeps, DropoutKeeps, ExportKeeps
<1>4. CASE Sample!Prepare \/ Sample!Move \/ Sample!MarkReplaced \/ Sample!Complete \/ Sample!Raise
  BY <1>4, PrepareKeeps, MoveKeeps, MarkKeeps, CompleteKeeps, StopKeeps
<1>5. CASE Sample!StageArtifacts \/ Sample!Publish \/ Sample!Review \/ Sample!Crash \/ Sample!Recover
  BY <1>5, StageKeeps, PublishKeeps, StopKeeps, CrashKeeps, RecoverKeeps
<1> QED BY <1>1, <1>2, <1>3, <1>4, <1>5 DEF Sample!Next

LEMMA SampleInvariant == SampleSpec => []SampleInv
<1>1. SampleInit => SampleInv
  BY SampleStarts DEF SampleInit
<1>2. SampleInv /\ UNCHANGED textVars => SampleInv'
  BY DEF textVars, SampleInv, SampleTypes, StepInv, PreparedInv, RecordInv, MarkInv, WorkInv, Active, Produced,
    Sample!Enabled, Sample!Target, Sample!WorkJson
<1>3. SampleInv /\ [Sample!Next /\ UNCHANGED <<vars, switchVars>>]_<<vars, switchVars, textVars>> => SampleInv'
  BY <1>2, SampleNext
<1> QED BY <1>1, <1>3, PTL DEF SampleSpec

\* The record of a replacement is true: it never vouches for a JSON that was not replaced, whatever
\* was crashed, recovered, repaired or given up between the replacement and the commit that records
\* it (the provenance of replace_provenance.py, its mark in the overlay, commit_prepared).
THEOREM RecordIsTrue == SampleSpec => []MatchMeansReplaced
<1>1. SampleInv => MatchMeansReplaced
  BY DEF SampleInv, RecordInv, MatchMeansReplaced, Sample!MatchMeansReplaced
<1> QED BY <1>1, SampleInvariant, PTL

\* What an ordinary job publishes is the work it was asked for, in order and once: a step that was
\* interrupted is either done again on what it had read, or completed from what it had prepared,
\* never done on its own output (the runners of pipeline.py, BoundedScheduler.recover).
THEOREM PublishedAsAsked == SampleSpec => WorkPublished
<1> DEFINE A ==
      (phase = "running" /\ phase' = "none" /\ sample = "completed" /\ ~repair) =>
        /\ Sample!The(staged).path \in {Sample!Asked(config), Sample!AskedButReplace(config)}
        /\ "replace" \in config.enabled => Sample!The(staged).rounds[config.index] >= 1
<1>1. SampleInv /\ [Sample!Next /\ UNCHANGED <<vars, switchVars>>]_<<vars, switchVars, textVars>> => [A]_Sample!vars
  <2> SUFFICES ASSUME SampleInv, Sample!Next, phase = "running", phase' = "none", sample = "completed", ~repair
               PROVE  A
    BY DEF textVars, Sample!vars, Sample!dataset, Sample!order, Sample!task, Sample!queue, Sample!overlay, Sample!runner
  <2>1. at = "export"
    BY DEF Sample!Next, Sample!StartJob, Sample!RepairJob, Sample!Discard, Sample!EnterModule, Sample!Claim,
      Sample!Release, Sample!CaptionSample, Sample!ClassifySample, Sample!ReplaceSample, Sample!DropoutSample,
      Sample!ExportSample, Sample!Prepare, Sample!Move, Sample!MarkReplaced, Sample!Complete, Sample!Raise,
      Sample!StageArtifacts, Sample!Publish, Sample!Review, Sample!Crash, Sample!Recover, Sample!task, Sample!Settle
  <2>2. staged # {} /\ Done(config, staged, "export")
    BY <2>1 DEF SampleInv, PreparedInv, WorkInv, Active
  <2> QED BY <2>2 DEF Done, Paths, Replaced
<1> QED BY <1>1, SampleInvariant, PTL DEF SampleSpec, WorkPublished, Sample!WorkPublished

=============================================================================

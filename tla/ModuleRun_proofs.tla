-------------------------- MODULE ModuleRun_proofs --------------------------
(***************************************************************************)
(* Proofs about ModuleRun, for every number of modules, samples, faults    *)
(* and worker exits: its invariants hold, and the samples go through the   *)
(* modules as SampleFlow promises.                                         *)
(***************************************************************************)
EXTENDS ModuleRun, FiniteSetTheorems, WellFoundedInduction, TLAPS

-----------------------------------------------------------------------------
(* The inductive invariant                                                 *)

\* start_module before the thread holds the module.
Entering == {"start", "summary", "reset", "activate"}

\* A job row update that starts a module, and any other.
Launching == pc = "update" /\ update.next = "launch"

\* The stages in which the runner's leases are the samples in flight.
Holding == Working \cup {"release", "exited", "return_leases", "fatal"}

\* What a status update will write, and where the job cannot be running.
StatusInv ==
  /\ pc \in {"idle", "recover", "release", "returned"} => status # "running"
  /\ pc = "update" =>
       \/ update.to = "running" /\ update.next = "launch" /\ update.at = module
       \/ /\ update.to \in {"failed", "reviewing", "exporting"}
          /\ update.next \in {"raise", "idle"} /\ update.at = current

\* Leases belong to the runner that holds them.
LeaseInv ==
  /\ pc \in Holding => InFlight = held
  /\ pc \in Entering \cup {"next", "hand_over", "returned"} \/ Launching => InFlight = {}
  /\ pc \notin Holding \cup {"set_failed", "raise", "update"} => held = {}
  /\ pc = "update" /\ update.next # "raise" => held = {}
  /\ pc \in {"launch", "poll", "claim", "drained"} => held = {}
  /\ pc \in {"exchange", "settle", "commit", "complete"} => todo = {}
  /\ pc \in {"check", "exchange", "settle", "exited", "return_leases"} =>
       \A s \in held : sample[s] = "leased"
  /\ pc \in {"commit", "complete"} =>
       /\ held # {} /\ sample[First(held)] = "prepared"
       /\ \A s \in held \ {First(held)} : sample[s] = "leased"
  /\ pc = "idle" /\ status = "paused" => InFlight = {}
  /\ status = "cancelled_recoverable" => InFlight = {}
  /\ api = "settle" /\ status = "cancelling" => InFlight = {}

\* The module the samples have reached.
Front ==
  IF current < NumModules /\ summary[current + 1] \notin {"absent", "paused"}
  THEN current + 1 ELSE current

\* Every sample has reached the front or waits, completed, for its page to be moved there.
PlaceInv ==
  /\ \A s \in Samples :
       sample[s] # "failed" =>
         at[s] = Front \/ (at[s] = Front - 1 /\ sample[s] = "completed" /\ Front \notin started)
  /\ pc = "activate" => \A s \in Samples : sample[s] # "failed" => at[s] = Front
  /\ \A s \in InFlight : at[s] \in started

\* Where the thread is in the order of the modules.
OrderInv ==
  /\ \A k \in Modules : k > Front => summary[k] \in {"absent", "paused"}
  /\ pc \in {"start", "summary"} =>
       \/ module = current
       \/ module = current + 1 /\ summary[module] \in {"absent", "paused"}
  /\ pc = "summary" /\ seenActive => module = current
  /\ pc \in {"reset", "activate"} \/ Launching =>
       module = Front /\ module \in {current, current + 1}
  /\ pc \in Holding \cup {"set_failed", "next", "hand_over"} =>
       module = current /\ Front = current /\ current \in started
  /\ pc \in {"next", "hand_over"} => summary[current] \in {"completed", "completed_with_issues"}

\* What a module summary says of its module.
SummaryInv ==
  /\ \A m \in Modules : summary[m] \notin {"skipped", "skipped_not_available"}
  /\ \A m \in Modules : summary[m] \notin {"absent", "pending", "paused"} => m \in started
  /\ \A m \in Modules :
       m \notin started => completed[m] = 0 /\ failed[m] = 0 /\ restarts[m] = 0
  /\ \A m \in Modules : summary[m] = "absent" => m \notin started
  /\ Launching => module \in started
  /\ pc = "exited" => restarts[module] < MaxExits
  /\ pc \in Holding \ {"fatal"} \/ Launching => summary[module] \in {"running", "paused"}

\* Artifacts, ahead of the completion that is about to follow.
ArtifactInv ==
  /\ ArtifactBeforeCompletion
  /\ pc = "complete" => written[First(held)] = at[First(held)]

IInv ==
  /\ StatusInv /\ LeaseInv /\ PlaceInv /\ OrderInv /\ SummaryInv
  /\ ArtifactInv /\ CountsMatch /\ FinishedTruthful

-----------------------------------------------------------------------------
(* Numbers and sets                                                        *)

Below == {p \in Nat \X Nat : p[1] < p[2]}

\* A nonempty set of naturals has a least element.
LEMMA Least == ASSUME NEW S \in SUBSET Nat, S # {} PROVE \E x \in S : \A y \in S : x <= y
<1>1. IsWellFoundedOn(Below, Nat)
  <2>1. Below = OpToRel(<, Nat)
    BY DEF OpToRel, Below
  <2> QED BY <2>1, NatLessThanWellFounded
<1>2. PICK x \in S : \A y \in S : ~(<<y, x>> \in Below)
  BY <1>1, WFMin
<1>3. ASSUME NEW y \in S PROVE x <= y
  <2>1. x \in Nat /\ y \in Nat
    OBVIOUS
  <2>2. ~(<<y, x>> \in Below)
    BY <1>2
  <2>3. ~(y < x)
    BY <2>1, <2>2 DEF Below
  <2> QED BY <2>1, <2>3
<1> QED BY <1>3

\* The next sample of a batch is one of the batch.
LEMMA FirstIn == ASSUME NEW S \in SUBSET Samples, S # {} PROVE First(S) \in S
<1>1. S \in SUBSET Nat
  BY SamplesAssumption DEF Samples
<1>2. PICK x \in S : \A y \in S : x <= y
  BY <1>1, Least
<1> QED BY <1>2 DEF First

\* A page of samples is only empty when there is nothing to page.
LEMMA PageNotEmpty ==
  ASSUME NEW S \in SUBSET Samples, S # {} PROVE Lowest(S, PageSize) # {}
<1>1. S \in SUBSET Nat
  BY SamplesAssumption DEF Samples
<1>2. PICK f \in S : \A t \in S : f <= t
  BY <1>1, Least
<1>3. {t \in S : t <= f} = {f}
  <2>1. f \in Nat /\ \A t \in S : t \in Nat
    BY <1>1
  <2>2. \A t \in S : t <= f => t = f
    BY <2>1, <1>2
  <2>3. f <= f
    BY <2>1
  <2> QED BY <2>2, <2>3
<1>4. Cardinality({f}) = 1
  BY FS_Singleton
<1>5. 1 <= PageSize
  BY PageAssumption
<1> QED BY <1>2, <1>3, <1>4, <1>5 DEF Lowest

\* A page is taken from the samples it is given.
LEMMA LowestSubset == ASSUME NEW S, NEW n PROVE Lowest(S, n) \subseteq S
  BY DEF Lowest

\* Samples are finite.
LEMMA SamplesFinite == IsFiniteSet(Samples)
<1>1. 1 \in Int /\ NumSamples \in Int
  BY SamplesAssumption
<1> QED BY <1>1, FS_Interval DEF Samples

\* A set of samples grows by one with every new member.
LEMMA OneMore ==
  ASSUME NEW S \in SUBSET Samples, NEW s \in Samples, s \notin S
  PROVE  Cardinality(S \cup {s}) = Cardinality(S) + 1
  BY SamplesFinite, FS_Subset, FS_AddElement

-----------------------------------------------------------------------------
(* Steps that leave the samples alone                                      *)

\* What the steps outside the pipeline thread's own course do.
Environment == RunnerError \/ WorkerExits \/ User \/ Serve \/ Crash \/ Stop

\* Samples, artifacts and counters stay, no artifact gets due and no module finishes.
Quiet ==
  /\ UNCHANGED <<queue, completed, failed>>
  /\ pc' = "complete" => pc = "complete" /\ held' = held
  /\ \A m \in Modules :
       summary'[m] \in {"completed", "completed_with_issues"} => summary'[m] = summary[m]

\* Every step is quiet but those of the actions listed here.
LEMMA QuietOr ==
  ASSUME TypeOK, StatusInv, Next
  PROVE  \/ Quiet
         \/ ResetPage \/ Claim \/ FinishModule \/ CheckLease \/ ReleaseUnstarted \/ SettleIssue
         \/ StageArtifact \/ CommitArtifact \/ CompleteSample
         \/ FailModule \/ ReturnModuleLeases
         \/ RecoverSample
<1> USE DEF TypeOK, Quiet, row, ledger, queue, local
<1>1. CASE CompleteUpdate
  BY <1>1 DEF CompleteUpdate, StatusInv
<1>2. CASE ReadJob \/ ReadSummary \/ StartPrepaused \/ Launch
  BY <1>2 DEF ReadJob, ReadSummary, StartPrepaused, Launch
<1>3. CASE Poll \/ SendBatch \/ Answer \/ BatchSettled
  BY <1>3 DEF Poll, SendBatch, Answer, BatchSettled
<1>4. CASE WorkerExited \/ SettleReturned \/ NextModule \/ RunnerError
  BY <1>4 DEF WorkerExited, SettleReturned, NextModule, RunnerError
<1>5. CASE WorkerExits \/ Pause \/ Resume \/ BeginCancellation
  BY <1>5 DEF WorkerExits, Pause, Resume, BeginCancellation
<1>6. CASE BeginRecovery \/ CountInFlight \/ SettleCancellation \/ RestartJob
  BY <1>6 DEF BeginRecovery, CountInFlight, SettleCancellation, RestartJob
<1>7. CASE Crash \/ Stop
  BY <1>7 DEF Crash, Reboot, Stop
<1>8. CASE Activate \/ FailJob \/ HandOver \/ FailRun
  BY <1>8 DEF Activate, FailJob, HandOver, FailRun, BeginUpdate
<1>9. CASE \E m \in Modules : PauseFuture(m)
  BY <1>9 DEF PauseFuture
<1>10. CASE \E m \in Modules : CancelFuturePause(m)
  BY <1>10 DEF CancelFuturePause
<1> QED BY <1>1, <1>2, <1>3, <1>4, <1>5, <1>6, <1>7, <1>8, <1>9, <1>10 DEF Next, Pipeline,
    User, Serve

-----------------------------------------------------------------------------
(* Types                                                                   *)

\* Every variable keeps its type: the steps of the pipeline thread ...
LEMMA TypeByPipeline == ASSUME TypeOK, IInv, Pipeline PROVE TypeOK'
<1> USE DEF TypeOK, row, ledger, queue, local, Fault, NoUpdate, ModuleStatuses, SummaryStatuses,
        SampleStatuses, ThreadStages, BeginUpdate, JobStatuses, NoStatus
<1>1. CASE CompleteUpdate
  <2>1. update.to \in JobStatuses /\ update.at \in Modules /\ update.next \in ThreadStages
    BY <1>1 DEF CompleteUpdate
  <2>2. NoUpdate \in [to : JobStatuses, at : Modules, next : ThreadStages]
    BY <1>1, ModulesAssumption DEF Modules
  <2> QED BY <1>1, <2>1, <2>2 DEF CompleteUpdate
<1>2. CASE ReadJob
  <2>1. pc' \in ThreadStages
    BY <1>2 DEF ReadJob
  <2>2. seenActive' \in BOOLEAN
    BY <1>2 DEF ReadJob, Active
  <2> QED BY <1>2, <2>1, <2>2 DEF ReadJob
<1>3. CASE ReadSummary
  <2>1. pc' \in ThreadStages
    BY <1>3 DEF ReadSummary
  <2>2. summary' \in [Modules -> SummaryStatuses]
    BY <1>3 DEF ReadSummary
  <2> QED BY <1>3, <2>1, <2>2 DEF ReadSummary
<1>4. CASE StartPrepaused
  <2>1. status' \in JobStatuses /\ resume' \in JobStatuses \cup {NoStatus}
    BY <1>4 DEF StartPrepaused
  <2>2. current' \in Modules /\ pc' \in ThreadStages
    BY <1>4 DEF StartPrepaused
  <2> QED BY <1>4, <2>1, <2>2 DEF StartPrepaused
<1>5. CASE ResetPage
  <2>1. sample' \in [Samples -> SampleStatuses] /\ at' \in [Samples -> Modules]
    BY <1>5 DEF ResetPage
  <2> QED BY <1>5, <2>1 DEF ResetPage
<1>6. CASE Activate \/ Launch \/ ReleaseUnstarted
  BY <1>6 DEF Activate, Launch, ReleaseUnstarted, ReturnToPending
<1>7. CASE Answer \/ BatchSettled \/ FailModule
  BY <1>7 DEF Answer, BatchSettled, FailModule, ReturnToPending
<1>8. CASE FailJob \/ ReturnModuleLeases \/ SettleReturned
  BY <1>8 DEF FailJob, ReturnModuleLeases, ReturnToPending, SettleReturned
<1>9. CASE HandOver \/ FailRun
  BY <1>9 DEF HandOver, FailRun
<1>10. CASE Poll
  BY <1>10 DEF Poll, Yielding
<1>11. CASE Claim
  <2>1. sample' \in [Samples -> SampleStatuses] /\ held' \in SUBSET Samples /\ todo' = held'
    BY <1>11 DEF Claim, Lowest
  <2>2. pc' \in ThreadStages
    BY <1>11 DEF Claim
  <2>3. /\ UNCHANGED <<row, ledger, at, written, module>>
        /\ UNCHANGED <<seenActive, returned, update, api, faults>>
    BY <1>11 DEF Claim
  <2> QED BY <2>1, <2>2, <2>3
<1>12. CASE FinishModule
  <2>1. pc' \in ThreadStages
    BY <1>12 DEF FinishModule
  <2>2. summary' \in [Modules -> SummaryStatuses]
    BY <1>12 DEF FinishModule, FinalStatus
  <2>3. returned' \in {"paused", "cancelling"}
    BY <1>12 DEF FinishModule, Yielding
  <2> QED BY <1>12, <2>1, <2>2, <2>3 DEF FinishModule
<1>13. CASE CheckLease
  <2>1. sample' \in [Samples -> SampleStatuses]
    BY <1>13 DEF CheckLease, FailSample
  <2>2. failed' \in [Modules -> Nat]
    BY <1>13 DEF CheckLease, FailSample
  <2>3. returned' \in {"paused", "cancelling"}
    BY <1>13 DEF CheckLease, FailSample, Yielding
  <2>4. held' \in SUBSET Samples /\ todo' \in SUBSET held'
    BY <1>13 DEF CheckLease, FailSample
  <2> QED BY <1>13, <2>1, <2>2, <2>3, <2>4 DEF CheckLease, FailSample
<1>14. CASE SendBatch
  <2>1. pc' \in ThreadStages
    BY <1>14 DEF SendBatch
  <2>2. returned' \in {"paused", "cancelling"}
    BY <1>14 DEF SendBatch, Yielding
  <2> QED BY <1>14, <2>1, <2>2 DEF SendBatch
<1>15. CASE SettleIssue
  <2>1. sample' \in [Samples -> SampleStatuses]
    BY <1>15 DEF SettleIssue, FailSample
  <2>2. failed' \in [Modules -> Nat]
    BY <1>15 DEF SettleIssue, FailSample
  <2>3. held' \in SUBSET Samples /\ todo' \in SUBSET held'
    BY <1>15 DEF SettleIssue, FailSample, IInv, LeaseInv
  <2> QED BY <1>15, <2>1, <2>2, <2>3 DEF SettleIssue, FailSample
<1>16. CASE StageArtifact
  <2>1. sample' \in [Samples -> SampleStatuses]
    BY <1>16 DEF StageArtifact
  <2> QED BY <1>16, <2>1 DEF StageArtifact
<1>17. CASE CommitArtifact
  <2>1. module \in 0 .. NumModules
    BY <1>17, ModulesAssumption DEF CommitArtifact, Modules
  <2>2. written' \in [Samples -> 0 .. NumModules]
    BY <1>17, <2>1 DEF CommitArtifact
  <2> QED BY <1>17, <2>1, <2>2 DEF CommitArtifact
<1>18. CASE CompleteSample
  <2>1. sample' \in [Samples -> SampleStatuses]
    BY <1>18 DEF CompleteSample
  <2>2. completed' \in [Modules -> Nat]
    BY <1>18 DEF CompleteSample
  <2>3. held' \in SUBSET Samples /\ todo' \in SUBSET held'
    BY <1>18 DEF CompleteSample, IInv, LeaseInv
  <2> QED BY <1>18, <2>1, <2>2, <2>3 DEF CompleteSample
<1>19. CASE WorkerExited
  <2>1. restarts' \in [Modules -> 0 .. MaxExits]
    BY <1>19, LimitsAssumption DEF WorkerExited, IInv, SummaryInv
  <2>2. summary' \in [Modules -> SummaryStatuses] /\ pc' \in ThreadStages
    BY <1>19 DEF WorkerExited
  <2> QED BY <1>19, <2>1, <2>2 DEF WorkerExited
<1>20. CASE NextModule
  <2>1. module' \in Modules
    BY <1>20, ModulesAssumption DEF NextModule, Modules
  <2> QED BY <1>20, <2>1 DEF NextModule
<1> QED BY <1>1, <1>2, <1>3, <1>4, <1>5, <1>6, <1>7, <1>8, <1>9, <1>10, <1>11, <1>12, <1>13,
    <1>14, <1>15, <1>16, <1>17, <1>18, <1>19, <1>20 DEF Pipeline

\* ... and all the others.
LEMMA TypeByEnvironment == ASSUME TypeOK, IInv, Environment PROVE TypeOK'
<1> USE DEF TypeOK, row, ledger, queue, local, Fault, NoUpdate, ModuleStatuses, SummaryStatuses,
        SampleStatuses, ThreadStages, BeginUpdate, JobStatuses, NoStatus
<1>1. CASE RunnerError
  <2>1. faults' \in 0 .. MaxFaults
    BY <1>1, LimitsAssumption DEF RunnerError
  <2> QED BY <1>1, <2>1 DEF RunnerError
<1>2. CASE WorkerExits \/ Pause \/ Resume
  BY <1>2 DEF WorkerExits, Pause, Resume
<1>3. CASE BeginRecovery \/ CountInFlight \/ SettleCancellation
  BY <1>3 DEF BeginRecovery, CountInFlight, SettleCancellation
<1>4. CASE RestartJob
  BY <1>4 DEF RestartJob
<1>5. CASE \E m \in Modules : PauseFuture(m)
  BY <1>5 DEF PauseFuture
<1>6. CASE \E m \in Modules : CancelFuturePause(m)
  BY <1>6 DEF CancelFuturePause
<1>7. CASE BeginCancellation
  BY <1>7 DEF BeginCancellation, ResumeAfterCancel, ResumeAfterInterrupt
<1>8. CASE RecoverSample
  <2>1. sample' \in [Samples -> SampleStatuses]
    BY <1>8 DEF RecoverSample
  <2>2. completed' \in [Modules -> Nat]
    BY <1>8 DEF RecoverSample
  <2>3. \A s \in Samples : at[s] \in 0 .. NumModules
    BY <1>8, ModulesAssumption DEF RecoverSample, Modules
  <2>4. written' \in [Samples -> 0 .. NumModules]
    BY <1>8, <2>3 DEF RecoverSample
  <2>5. faults' \in 0 .. MaxFaults
    BY <1>8, LimitsAssumption DEF RecoverSample
  <2> QED BY <1>8, <2>1, <2>2, <2>3, <2>4, <2>5 DEF RecoverSample
<1>9. CASE Crash
  <2>1. status' \in JobStatuses /\ resume' \in JobStatuses \cup {NoStatus}
    BY <1>9 DEF Crash, Reboot, ResumeAfterInterrupt
  <2>2. update' \in [to : JobStatuses, at : Modules, next : ThreadStages]
    BY <1>9, ModulesAssumption DEF Crash, Reboot, Modules
  <2>3. faults' \in 0 .. MaxFaults
    BY <1>9, LimitsAssumption DEF Crash
  <2> QED BY <1>9, <2>1, <2>2, <2>3 DEF Crash, Reboot
<1>10. CASE Stop
  <2>1. status' \in JobStatuses /\ resume' \in JobStatuses \cup {NoStatus}
    BY <1>10 DEF Stop, Reboot, ResumeAfterInterrupt
  <2>2. update' \in [to : JobStatuses, at : Modules, next : ThreadStages]
    BY <1>10, ModulesAssumption DEF Stop, Reboot, Modules
  <2> QED BY <1>10, <2>1, <2>2 DEF Stop, Reboot
<1> QED BY <1>1, <1>2, <1>3, <1>4, <1>5, <1>6, <1>7, <1>8, <1>9, <1>10 DEF Environment,
    User, Serve

-----------------------------------------------------------------------------
(* Status, order and summaries of the modules                              *)

\* The job only says `running` while the thread is at work on it.
LEMMA StatusByPipeline == ASSUME TypeOK, IInv, Pipeline PROVE StatusInv'
<1> USE DEF TypeOK, IInv, StatusInv, OrderInv, row, ledger, queue, local, NoUpdate,
        BeginUpdate, MaySetStatus, JobTransitions, JobStatuses, NoStatus, Active, Yielding,
        ThreadAlive, Holding, Working
<1>1. CASE CompleteUpdate \/ ReadJob \/ ReadSummary
  BY <1>1 DEF CompleteUpdate, ReadJob, ReadSummary
<1>2. CASE StartPrepaused \/ ResetPage \/ Activate
  BY <1>2 DEF StartPrepaused, ResetPage, Activate
<1>3. CASE Launch \/ Poll \/ Claim
  BY <1>3 DEF Launch, Poll, Claim
<1>4. CASE FinishModule \/ CheckLease \/ SendBatch
  BY <1>4 DEF FinishModule, CheckLease, FailSample, SendBatch
<1>5. CASE ReleaseUnstarted \/ Answer \/ SettleIssue
  BY <1>5 DEF ReleaseUnstarted, ReturnToPending, Answer, SettleIssue, FailSample
<1>6. CASE StageArtifact \/ CommitArtifact \/ CompleteSample
  BY <1>6 DEF StageArtifact, CommitArtifact, CompleteSample
<1>7. CASE BatchSettled \/ FailModule \/ FailJob
  BY <1>7 DEF BatchSettled, FailModule, ReturnToPending, FailJob
<1>8. CASE WorkerExited \/ ReturnModuleLeases \/ SettleReturned
  BY <1>8 DEF WorkerExited, ReturnModuleLeases, ReturnToPending, SettleReturned
<1>9. CASE NextModule \/ HandOver \/ FailRun
  BY <1>9 DEF NextModule, HandOver, FailRun
<1> QED BY <1>1, <1>2, <1>3, <1>4, <1>5, <1>6, <1>7, <1>8, <1>9 DEF Pipeline

\* The API and the failures keep it so.
LEMMA StatusByEnvironment == ASSUME TypeOK, IInv, Environment PROVE StatusInv'
<1> USE DEF TypeOK, IInv, StatusInv, OrderInv, row, ledger, queue, local, NoUpdate,
        BeginUpdate, MaySetStatus, JobTransitions, JobStatuses, NoStatus, Active, Yielding,
        ThreadAlive, Holding, Working
<1>1. CASE RunnerError \/ WorkerExits \/ Pause
  BY <1>1 DEF RunnerError, WorkerExits, Pause
<1>2. CASE Resume \/ BeginCancellation \/ BeginRecovery
  BY <1>2 DEF Resume, BeginCancellation, BeginRecovery
<1>3. CASE CountInFlight \/ SettleCancellation \/ RecoverSample
  BY <1>3 DEF CountInFlight, SettleCancellation, RecoverSample
<1>4. CASE RestartJob
  BY <1>4 DEF RestartJob
<1>5. CASE \E m \in Modules : PauseFuture(m)
  BY <1>5 DEF PauseFuture
<1>6. CASE \E m \in Modules : CancelFuturePause(m)
  BY <1>6 DEF CancelFuturePause
<1>7. CASE Crash \/ Stop
  BY <1>7 DEF Crash, Reboot, Stop, NonInterruptible, TerminalStatuses
<1> QED BY <1>1, <1>2, <1>3, <1>4, <1>5, <1>6, <1>7 DEF Environment, User, Serve

\* The thread goes through the modules in order, and later ones have not begun.
LEMMA OrderByPipeline == ASSUME TypeOK, IInv, Pipeline PROVE OrderInv'
<1> USE ModulesAssumption DEF TypeOK, IInv, StatusInv, OrderInv, SummaryInv, Front, row,
        ledger, queue, local, NoUpdate, BeginUpdate, MaySetStatus, JobTransitions,
        JobStatuses, NoStatus, Active, Yielding, ThreadAlive, Holding, Working, Launching,
        Modules
<1>1. CASE CompleteUpdate
  <2>1. CASE Launching
    <3>1. current' = module /\ pc' = "launch" /\ UNCHANGED <<summary, started, module>>
      BY <1>1, <2>1 DEF CompleteUpdate
    <3>2. Front = module /\ Front' = module
      BY <2>1, <3>1
    <3> QED BY <2>1, <3>1, <3>2
  <2>2. CASE ~Launching
    <3>1. /\ current' = current /\ pc' \in {"raise", "idle"}
          /\ UNCHANGED <<summary, started, module>>
      BY <1>1, <2>2 DEF CompleteUpdate
    <3> QED BY <3>1
  <2> QED BY <2>1, <2>2
<1>2. CASE ReadJob
  BY <1>2 DEF ReadJob
<1>3. CASE ResetPage
  BY <1>3 DEF ResetPage
<1>4. CASE Launch
  BY <1>4 DEF Launch
<1>5. CASE Poll
  BY <1>5 DEF Poll
<1>6. CASE Claim
  BY <1>6 DEF Claim
<1>7. CASE CheckLease
  BY <1>7 DEF CheckLease, FailSample
<1>8. CASE SendBatch
  BY <1>8 DEF SendBatch
<1>9. CASE ReleaseUnstarted
  BY <1>9 DEF ReleaseUnstarted, ReturnToPending
<1>10. CASE Answer
  BY <1>10 DEF Answer
<1>11. CASE SettleIssue
  BY <1>11 DEF SettleIssue, FailSample
<1>12. CASE StageArtifact
  BY <1>12 DEF StageArtifact
<1>13. CASE CommitArtifact
  BY <1>13 DEF CommitArtifact
<1>14. CASE CompleteSample
  BY <1>14 DEF CompleteSample
<1>15. CASE BatchSettled
  BY <1>15 DEF BatchSettled
<1>16. CASE FailModule
  BY SMTT(30), <1>16 DEF FailModule, ReturnToPending
<1>17. CASE FailJob
  BY <1>17 DEF FailJob
<1>18. CASE ReturnModuleLeases
  BY <1>18 DEF ReturnModuleLeases, ReturnToPending
<1>19. CASE SettleReturned
  BY <1>19 DEF SettleReturned
<1>20. CASE NextModule
  BY <1>20 DEF NextModule
<1>21. CASE HandOver
  BY <1>21 DEF HandOver
<1>22. CASE FailRun
  BY SMTT(30), <1>22 DEF FailRun
<1>23. CASE ReadSummary
  <2> USE DEF ReadSummary
  <2>1. module \in {current, current + 1} /\ Front \in {current, current + 1}
    BY <1>23
  <2>2. CASE InOrder(module) /\ summary[module] = "absent"
    <3>1. pc' = "reset" /\ summary' = [summary EXCEPT ![module] = "pending"]
      BY <1>23, <2>2
    <3>2. \A k \in Modules : k > module => summary'[k] \in {"absent", "paused"}
      BY SMTT(30), <2>2, <3>1 DEF InOrder
    <3>3. Front' = module
      BY <1>23, <2>1, <2>2, <3>1, <3>2
    <3> QED BY <1>23, <2>1, <3>1, <3>2, <3>3
  <2>3. CASE ~(InOrder(module) /\ summary[module] = "absent")
    <3>1. summary' = summary /\ Front' = Front
      BY <1>23, <2>3
    <3>2. CASE pc' = "raise"
      BY <1>23, <3>1, <3>2
    <3>3. CASE pc' # "raise"
      <4>1. InOrder(module) /\ summary[module] \notin {"absent", "paused"}
        BY <1>23, <2>3, <3>3
      <4>2. module = current
        BY <1>23, <4>1
      <4>3. Front = current
        BY <4>1, <4>2 DEF InOrder
      <4>4. pc' \in {"reset", "launch"} /\ (pc' = "launch" => summary[module] = "running")
        BY <1>23, <2>3, <3>3, <4>1
      <4> QED BY <1>23, <3>1, <4>2, <4>3, <4>4
    <3> QED BY <3>2, <3>3
  <2> QED BY <2>2, <2>3
<1>24. CASE StartPrepaused
  <2>1. CASE UNCHANGED row
    BY SMTT(30), <1>24, <2>1 DEF StartPrepaused
  <2>2. CASE ~UNCHANGED row
    <3>1. /\ current' = module
          /\ module = current + 1
          /\ pc' = "idle"
          /\ summary[module] = "paused"
      BY <1>24, <2>2 DEF StartPrepaused
    <3>2. Front = current /\ UNCHANGED <<summary, started, module>>
      BY <1>24, <3>1 DEF StartPrepaused
    <3>3. Front' = current'
      BY SMTT(30), <3>1, <3>2
    <3> QED BY <3>1, <3>2, <3>3
  <2> QED BY <2>1, <2>2
<1>25. CASE Activate
  <2>1. summary' = [summary EXCEPT ![module] = "running"] /\ UNCHANGED <<current, module>>
    BY <1>25 DEF Activate
  <2>2. Front' = module /\ Front = module
    BY <1>25, <2>1 DEF Activate
  <2>3. \A k \in Modules : k > Front' => summary'[k] \in {"absent", "paused"}
    BY SMTT(30), <2>1, <2>2
  <2>4. pc' \in {"update", "raise"}
    BY <1>25 DEF Activate
  <2> QED BY <1>25, <2>2, <2>3, <2>4 DEF Activate
<1>26. CASE FinishModule
  <2>1. module = current /\ Front = current /\ current \in started
    BY <1>26 DEF FinishModule
  <2>2. /\ UNCHANGED <<current, module, started, update>>
        /\ pc' \in {"fatal", "returned", "next", "raise"}
    BY <1>26 DEF FinishModule
  <2>3. \A k \in Modules : k # module => summary'[k] = summary[k]
    BY <1>26 DEF FinishModule
  <2>4. pc' = "next" => summary'[module] \in {"completed", "completed_with_issues"}
    BY <1>26 DEF FinishModule, FinalStatus
  <2>5. \A k \in Modules : k > Front => k # module
    BY <2>1
  <2>6. current < NumModules => summary'[current + 1] = summary[current + 1]
    <3>1. current < NumModules => current + 1 \in Modules /\ current + 1 # module
      BY <2>1
    <3> QED BY <2>3, <3>1
  <2>7. Front' = Front
    BY <2>1, <2>2, <2>6
  <2>8. \A k \in Modules : k > Front' => summary'[k] \in {"absent", "paused"}
    BY ZenonT(30), <2>3, <2>5, <2>7
  <2> QED BY <2>1, <2>2, <2>4, <2>7, <2>8
<1>27. CASE WorkerExited
  <2>1. module = current /\ Front = current /\ current \in started
    BY <1>27 DEF WorkerExited
  <2>2. /\ UNCHANGED <<current, module, started, update>>
        /\ pc' \in {"raise", "return_leases", "set_failed"}
    BY <1>27 DEF WorkerExited
  <2>3. \A k \in Modules : k # module => summary'[k] = summary[k]
    BY <1>27 DEF WorkerExited
  <2>5. \A k \in Modules : k > Front => k # module
    BY <2>1
  <2>6. current < NumModules => summary'[current + 1] = summary[current + 1]
    <3>1. current < NumModules => current + 1 \in Modules /\ current + 1 # module
      BY <2>1
    <3> QED BY <2>3, <3>1
  <2>7. Front' = Front
    BY <2>1, <2>2, <2>6
  <2>8. \A k \in Modules : k > Front' => summary'[k] \in {"absent", "paused"}
    BY ZenonT(30), <2>3, <2>5, <2>7
  <2> QED BY <2>1, <2>2, <2>7, <2>8
<1> QED BY <1>1, <1>2, <1>3, <1>4, <1>5, <1>6, <1>7, <1>8, <1>9, <1>10, <1>11, <1>12, <1>13,
    <1>14, <1>15, <1>16, <1>17, <1>18, <1>19, <1>20, <1>21, <1>22, <1>23, <1>24, <1>25,
    <1>26, <1>27 DEF Pipeline

\* No pause, cancellation, recovery or failure upsets the order.
LEMMA OrderByEnvironment == ASSUME TypeOK, IInv, Environment PROVE OrderInv'
<1> USE ModulesAssumption DEF TypeOK, IInv, StatusInv, OrderInv, SummaryInv, Front, row,
        ledger, queue, local, NoUpdate, BeginUpdate, MaySetStatus, JobTransitions,
        JobStatuses, NoStatus, Active, Yielding, ThreadAlive, Holding, Working, Launching,
        Modules
<1>1. CASE RunnerError
  BY <1>1 DEF RunnerError
<1>2. CASE WorkerExits
  BY <1>2 DEF WorkerExits
<1>3. CASE Pause
  BY SMTT(30), <1>3 DEF Pause
<1>4. CASE BeginCancellation
  BY <1>4 DEF BeginCancellation
<1>5. CASE BeginRecovery
  BY <1>5 DEF BeginRecovery
<1>6. CASE CountInFlight
  BY <1>6 DEF CountInFlight
<1>7. CASE SettleCancellation
  BY <1>7 DEF SettleCancellation
<1>8. CASE RecoverSample
  BY <1>8 DEF RecoverSample
<1>9. CASE RestartJob
  BY <1>9 DEF RestartJob
<1>10. CASE Resume
  <2>1. module' = current /\ pc' = "start" /\ UNCHANGED <<current, started, update>>
    BY <1>10 DEF Resume
  <2>2. \A k \in Modules : k # current => summary'[k] = summary[k]
    BY <1>10 DEF Resume
  <2>3. current < NumModules => summary'[current + 1] = summary[current + 1]
    <3>1. current < NumModules => current + 1 \in Modules /\ current + 1 # current
      OBVIOUS
    <3> QED BY <2>2, <3>1
  <2>4. Front' = Front /\ \A k \in Modules : k > Front => k # current
    BY SMTT(30), <2>1, <2>3
  <2> QED BY SMTT(30), <2>1, <2>2, <2>4
<1>11. CASE \E m \in Modules : PauseFuture(m)
  <2>1. PICK m \in Modules : PauseFuture(m)
    BY <1>11
  <2>2. summary[m] = "absent" /\ summary' = [summary EXCEPT ![m] = "paused"]
    BY <2>1 DEF PauseFuture
  <2>3. UNCHANGED <<current, module, started, update, pc, seenActive>>
    BY <2>1 DEF PauseFuture
  <2>4. Front' = Front
    BY SMTT(30), <2>2, <2>3
  <2>5. \A k \in Modules :
           summary[k] \in {"absent", "paused"} <=> summary'[k] \in {"absent", "paused"}
    BY <2>2
  <2>6. \A k \in Modules : k # m => summary'[k] = summary[k]
    BY <2>2
  <2> QED BY SMTT(30), <2>2, <2>3, <2>4, <2>5, <2>6
<1>12. CASE \E m \in Modules : CancelFuturePause(m)
  <2>1. PICK m \in Modules : CancelFuturePause(m)
    BY <1>12
  <2>2. summary[m] = "paused" /\ summary' = [summary EXCEPT ![m] = "absent"]
    BY <2>1 DEF CancelFuturePause
  <2>3. UNCHANGED <<current, module, started, update, pc, seenActive>>
    BY <2>1 DEF CancelFuturePause
  <2>4. Front' = Front
    BY SMTT(30), <2>2, <2>3
  <2>5. \A k \in Modules :
           summary[k] \in {"absent", "paused"} <=> summary'[k] \in {"absent", "paused"}
    BY <2>2
  <2>6. \A k \in Modules : k # m => summary'[k] = summary[k]
    BY <2>2
  <2> QED BY SMTT(30), <2>2, <2>3, <2>4, <2>5, <2>6
<1>13. CASE Crash
  BY <1>13 DEF Crash, Reboot, NonInterruptible, TerminalStatuses
<1>14. CASE Stop
  BY <1>14 DEF Stop, Reboot, NonInterruptible, TerminalStatuses
<1> QED BY <1>1, <1>2, <1>3, <1>4, <1>5, <1>6, <1>7, <1>8, <1>9, <1>10, <1>11, <1>12, <1>13,
    <1>14 DEF Environment, User, Serve

\* Summaries follow their modules: the thread ...
LEMMA SummaryByPipeline == ASSUME TypeOK, IInv, Pipeline PROVE SummaryInv'
<1> USE ModulesAssumption DEF TypeOK, IInv, StatusInv, OrderInv, LeaseInv, PlaceInv,
        SummaryInv, Front, row, ledger, queue, local, NoUpdate, BeginUpdate, MaySetStatus,
        JobTransitions, JobStatuses, NoStatus, Active, Yielding, ThreadAlive, Holding,
        Working, Launching, Modules
<1>1. CASE CompleteUpdate
  BY <1>1 DEF CompleteUpdate
<1>2. CASE ReadJob
  BY <1>2 DEF ReadJob
<1>3. CASE StartPrepaused
  BY <1>3 DEF StartPrepaused
<1>4. CASE ResetPage
  BY <1>4 DEF ResetPage
<1>5. CASE Activate
  BY <1>5 DEF Activate
<1>6. CASE Launch
  BY <1>6 DEF Launch
<1>7. CASE Poll
  BY <1>7 DEF Poll
<1>8. CASE Claim
  BY <1>8 DEF Claim
<1>9. CASE SendBatch
  BY <1>9 DEF SendBatch
<1>10. CASE ReleaseUnstarted
  BY <1>10 DEF ReleaseUnstarted, ReturnToPending
<1>11. CASE Answer
  BY <1>11 DEF Answer
<1>12. CASE StageArtifact
  BY <1>12 DEF StageArtifact
<1>13. CASE CommitArtifact
  BY <1>13 DEF CommitArtifact
<1>14. CASE CompleteSample
  BY <1>14 DEF CompleteSample
<1>15. CASE BatchSettled
  BY <1>15 DEF BatchSettled
<1>16. CASE FailModule
  BY SMTT(30), <1>16 DEF FailModule, ReturnToPending
<1>17. CASE FailJob
  BY <1>17 DEF FailJob
<1>18. CASE ReturnModuleLeases
  BY <1>18 DEF ReturnModuleLeases, ReturnToPending
<1>19. CASE SettleReturned
  BY <1>19 DEF SettleReturned
<1>20. CASE NextModule
  BY <1>20 DEF NextModule
<1>21. CASE FailRun
  BY <1>21 DEF FailRun
<1>22. CASE ReadSummary
  BY SMTT(30), <1>22 DEF ReadSummary, InOrder, ModuleTransitions,
     ModuleStatuses, FinalModuleStatuses
<1>23. CASE FinishModule
  BY <1>23 DEF FinishModule, FinalStatus, ModuleTransitions, ModuleStatuses
<1>24. CASE CheckLease
  <2>1. module \in started /\ \A m \in Modules \ {module} : failed'[m] = failed[m]
    BY ZenonT(30), <1>24 DEF CheckLease, FailSample
  <2>2. /\ UNCHANGED <<summary, started, completed, restarts, module, update>>
        /\ pc' \in {"check", "release"}
    BY <1>24 DEF CheckLease, FailSample
  <2>3. summary[module] \in {"running", "paused"}
    BY <1>24 DEF CheckLease
  <2> QED BY SMTT(30), <2>1, <2>2, <2>3
<1>25. CASE SettleIssue
  BY <1>25, FirstIn DEF SettleIssue, FailSample
<1>26. CASE WorkerExited
  <2>1. /\ module \in started
        /\ \A m \in Modules \ {module} : restarts'[m] = restarts[m] /\ summary'[m] = summary[m]
    BY ZenonT(30), <1>26 DEF WorkerExited
  <2>2. /\ UNCHANGED <<started, completed, failed, module, update>>
        /\ pc' \in {"raise", "return_leases", "set_failed"}
    BY <1>26 DEF WorkerExited
  <2>3. /\ summary'[module] \in {"running", "paused", "failed"}
        /\ (pc' = "return_leases" => summary'[module] \in {"running", "paused"})
    BY SMTT(30), <1>26 DEF WorkerExited
  <2>4. \A m \in Modules : summary'[m] \in {"absent", "pending", "paused"} \/ m \in started
    BY <2>1
  <2>5. \A m \in Modules : summary'[m] = "absent" => m \notin started
    BY <2>1, <2>3
  <2>6. \A m \in Modules : summary'[m] \notin {"skipped", "skipped_not_available"}
    BY <2>1, <2>3
  <2>7. \A m \in Modules :
           m \notin started => completed[m] = 0 /\ failed[m] = 0 /\ restarts'[m] = 0
    BY ZenonT(30), <2>1
  <2> QED BY <2>2, <2>3, <2>4, <2>5, <2>6, <2>7
<1>27. CASE HandOver
  <2>1. UNCHANGED <<ledger, module>> /\ pc' \in {"update", "raise"}
    BY <1>27 DEF HandOver
  <2>2. pc' = "update" => update'.next = "idle"
    BY <1>27 DEF HandOver
  <2> QED BY <2>1, <2>2
<1> QED BY <1>1, <1>2, <1>3, <1>4, <1>5, <1>6, <1>7, <1>8, <1>9, <1>10, <1>11, <1>12, <1>13,
    <1>14, <1>15, <1>16, <1>17, <1>18, <1>19, <1>20, <1>21, <1>22, <1>23, <1>24, <1>25,
    <1>26, <1>27 DEF Pipeline

\* ... the API, recovery and restarts.
LEMMA SummaryByEnvironment == ASSUME TypeOK, IInv, Environment PROVE SummaryInv'
<1> USE ModulesAssumption DEF TypeOK, IInv, StatusInv, OrderInv, LeaseInv, PlaceInv,
        SummaryInv, Front, row, ledger, queue, local, NoUpdate, BeginUpdate, MaySetStatus,
        JobTransitions, JobStatuses, NoStatus, Active, Yielding, ThreadAlive, Holding,
        Working, Launching, Modules
<1>1. CASE RunnerError
  BY <1>1 DEF RunnerError
<1>2. CASE WorkerExits
  BY <1>2 DEF WorkerExits
<1>3. CASE Pause
  BY SMTT(30), <1>3 DEF Pause
<1>4. CASE BeginCancellation
  BY <1>4 DEF BeginCancellation
<1>5. CASE BeginRecovery
  BY <1>5 DEF BeginRecovery
<1>6. CASE CountInFlight
  BY <1>6 DEF CountInFlight
<1>7. CASE SettleCancellation
  BY <1>7 DEF SettleCancellation
<1>8. CASE RestartJob
  BY <1>8 DEF RestartJob
<1>9. CASE Resume
  <2>1. UNCHANGED <<started, completed, failed, restarts, update, current>> /\ pc' = "start"
    BY <1>9 DEF Resume
  <2>2. summary' =
         [summary EXCEPT ![current] = IF Unstarted(current) THEN "pending" ELSE "running"]
    BY <1>9 DEF Resume
  <2>3. Unstarted(current) \/ current \in started
    BY DEF Unstarted
  <2>4. summary[current] = "paused"
    BY <1>9 DEF Resume
  <2> QED BY ZenonT(30), <2>1, <2>2, <2>3, <2>4
<1>10. CASE \E m \in Modules : PauseFuture(m)
  BY SMTT(30), <1>10 DEF PauseFuture
<1>11. CASE \E m \in Modules : CancelFuturePause(m)
  <2>1. PICK m \in Modules : CancelFuturePause(m)
    BY <1>11
  <2>2. m \notin started /\ summary[m] = "paused" /\ summary' = [summary EXCEPT ![m] = "absent"]
    BY <2>1 DEF CancelFuturePause, Unstarted
  <2>3. UNCHANGED <<started, completed, failed, restarts, module, update, pc, current>>
    BY <2>1 DEF CancelFuturePause
  <2>4. pc \in Holding \ {"fatal"} \/ Launching => module # m
    BY SMTT(30), <2>2
  <2> QED BY SMTT(30), <2>2, <2>3, <2>4
<1>12. CASE RecoverSample
  <2>1. First(InFlight) \in InFlight
    BY <1>12, FirstIn DEF RecoverSample, InFlight
  <2>2. at[First(InFlight)] \in started
    BY <2>1 DEF InFlight
  <2>3. \A m \in Modules \ started : completed'[m] = completed[m]
    BY <1>12, <2>1, <2>2 DEF RecoverSample, InFlight
  <2> QED BY <1>12, <2>3 DEF RecoverSample
<1>13. CASE Crash
  BY <1>13 DEF Crash, Reboot, NonInterruptible, TerminalStatuses
<1>14. CASE Stop
  BY <1>14 DEF Stop, Reboot, NonInterruptible, TerminalStatuses
<1> QED BY <1>1, <1>2, <1>3, <1>4, <1>5, <1>6, <1>7, <1>8, <1>9, <1>10, <1>11, <1>12, <1>13,
    <1>14 DEF Environment, User, Serve

-----------------------------------------------------------------------------
(* Leases and the place of the samples                                     *)

\* What a claim takes and what it gives back.
ClaimTakes(expired, batch) ==
  /\ \A s \in expired : sample[s] = "leased"
  /\ \A s \in batch : at[s] = module /\ (sample[s] = "pending" \/ s \in expired)
  /\ sample' = [s \in Samples |-> IF s \in batch THEN "leased"
                                ELSE IF s \in expired THEN "pending" ELSE sample[s]]
  /\ held' = batch /\ todo' = batch
  /\ (batch = {} /\ pc' = "drained") \/ (Active(module) /\ pc' = "check")

\* A claim leases a batch of the module's own samples, pending or expired.
LEMMA Claimed ==
  ASSUME Claim PROVE \E expired, batch \in SUBSET Samples : ClaimTakes(expired, batch)
<1>1. PICK expired \in SUBSET {s \in Samples : Active(module) /\ sample[s] = "leased"} :
        LET room == InFlightLimit - Cardinality(InFlight \ expired)
            free == {s \in Samples : at[s] = module /\ (sample[s] = "pending" \/ s \in expired)}
            batch == IF Active(module)
                     THEN Lowest(free, IF BatchSize < room THEN BatchSize ELSE room) ELSE {}
        IN  /\ sample' = [s \in Samples |->
                            IF s \in batch THEN "leased"
                            ELSE IF s \in expired THEN "pending" ELSE sample[s]]
            /\ held' = batch /\ todo' = batch
            /\ pc' = IF batch = {} THEN "drained" ELSE "check"
  BY Zenon DEF Claim
<1> DEFINE room == InFlightLimit - Cardinality(InFlight \ expired)
           free == {s \in Samples : at[s] = module /\ (sample[s] = "pending" \/ s \in expired)}
           batch == IF Active(module)
                    THEN Lowest(free, IF BatchSize < room THEN BatchSize ELSE room) ELSE {}
<1>2. /\ sample' = [s \in Samples |-> IF s \in batch THEN "leased"
                                     ELSE IF s \in expired THEN "pending" ELSE sample[s]]
      /\ held' = batch /\ todo' = batch
      /\ pc' = IF batch = {} THEN "drained" ELSE "check"
  BY <1>1
<1>3. batch \subseteq free /\ (~Active(module) => batch = {})
  BY LowestSubset
<1> HIDE DEF batch
<1>4. /\ batch \in SUBSET Samples
      /\ \A s \in batch : at[s] = module /\ (sample[s] = "pending" \/ s \in expired)
  BY <1>3
<1>5. expired \in SUBSET Samples /\ \A s \in expired : sample[s] = "leased"
  BY <1>1
<1>6. (batch = {} /\ pc' = "drained") \/ (Active(module) /\ pc' = "check")
  <2>1. CASE batch = {}
    BY <1>2, <2>1
  <2>2. CASE batch # {}
    BY <1>2, <1>3, <2>2
  <2> QED BY <2>1, <2>2
<1> HIDE <1>1
<1> QED BY <1>2, <1>4, <1>5, <1>6 DEF ClaimTakes
\* A step that keeps the front, and only touches samples that are there, keeps every
\* sample in its place.
LEMMA PlaceKept ==
  ASSUME PlaceInv, Front' = Front, UNCHANGED <<started, at>>,
         pc' = "activate" => pc = "activate",
         \A s \in Samples :
           sample'[s] = sample[s] \/ (sample[s] # "failed" /\ Front \in started)
  PROVE  PlaceInv'
  BY DEF PlaceInv, InFlight
\* A module that says it is completed leaves nothing but completed and failed samples.
LEMMA Drained ==
  ASSUME TypeOK, IInv, module = current + 1, Front = current, InOrder(module),
         module \in Modules
  PROVE  \A s \in Samples : sample[s] # "failed" => at[s] = current /\ sample[s] = "completed"
<1> USE ModulesAssumption DEF TypeOK, IInv, PlaceInv, SummaryInv, Modules
<1>1. summary[current] \in {"completed", "completed_with_issues"}
  BY DEF InOrder, FinalModuleStatuses
<1>2. current \in started
  BY <1>1
<1>3. \A s \in Samples : sample[s] # "failed" => at[s] = current
  BY <1>2
<1>4. Unsettled(current) = {}
  BY <1>1 DEF FinishedTruthful
<1> QED BY <1>3, <1>4 DEF Unsettled, SampleStatuses

\* What a runner holds are samples of its module, which is the job's and started.
LEMMA HeldAt ==
  ASSUME TypeOK, IInv, pc \in Holding
  PROVE  \A s \in held : at[s] = module /\ sample[s] \in {"leased", "prepared"}
<1>1. InFlight = held
  BY DEF IInv, LeaseInv
<1>2. Front = module /\ Front \in started
  BY DEF IInv, OrderInv
<1>3. \A s \in InFlight : at[s] = Front
  BY DEF IInv, PlaceInv, InFlight
<1> QED BY <1>1, <1>2, <1>3 DEF InFlight

\* What a sample is as long as its module has neither completed nor failed it.
InWork == {"pending", "leased", "prepared"}

\* Claiming, staging and returning only touch samples of the module that is running.
LEMMA OnlyWork ==
  ASSUME TypeOK, IInv,
         Claim \/ ReleaseUnstarted \/ StageArtifact \/ FailModule \/ ReturnModuleLeases
  PROVE  /\ UNCHANGED <<at, written, completed, failed>>
         /\ \A s \in Samples :
              \/ sample'[s] = sample[s]
              \/ at[s] = module /\ {sample[s], sample'[s]} \subseteq InWork
<1> USE DEF row, ledger, queue, local, InWork
<1>1. CASE Claim
  <2>1. PICK expired, batch \in SUBSET Samples : ClaimTakes(expired, batch)
    BY <1>1, Claimed
  <2>2. \A s \in expired : at[s] = module
    <3>1. \A s \in expired : s \in InFlight
      BY <2>1 DEF ClaimTakes, InFlight
    <3>2. InFlight = held
      BY <1>1 DEF Claim, IInv, LeaseInv, Holding, Working
    <3> QED BY <1>1, <3>1, <3>2, HeldAt DEF Claim, Holding, Working
  <2>3. UNCHANGED <<at, written, completed, failed>>
    BY <1>1 DEF Claim
  <2> QED BY <2>1, <2>2, <2>3 DEF ClaimTakes
<1>2. CASE ReleaseUnstarted \/ FailModule
  BY <1>2, HeldAt DEF ReleaseUnstarted, FailModule, ReturnToPending, Holding
<1>3. CASE ReturnModuleLeases
  BY <1>3 DEF ReturnModuleLeases, ReturnToPending
<1>4. CASE StageArtifact
  <2>1. First(held) \in held
    BY <1>4, FirstIn DEF StageArtifact, TypeOK
  <2>2. at[First(held)] = module /\ sample[First(held)] \in InWork
    BY <1>4, <2>1, HeldAt DEF StageArtifact, Holding, Working
  <2> QED BY <1>4, <2>2 DEF StageArtifact, TypeOK
<1> QED BY <1>1, <1>2, <1>3, <1>4

\* A lease that is settled with an issue is one of the runner's.
LEMMA OneFails ==
  ASSUME TypeOK, IInv, CheckLease \/ SettleIssue
  PROVE  \/ UNCHANGED <<queue, completed, failed>>
         \/ \E s \in InFlight :
              at[s] = module /\ sample[s] = "leased" /\ FailSample(s) /\ UNCHANGED module
<1> USE DEF row, ledger, queue, local
<1>1. UNCHANGED module
  BY DEF CheckLease, SettleIssue
<1>2. InFlight = held /\ \A s \in held : at[s] = module /\ sample[s] = "leased"
  BY HeldAt DEF CheckLease, SettleIssue, IInv, LeaseInv, Holding, Working
<1>3. CASE CheckLease
  <2>1. First(todo) \in held
    BY <1>3, FirstIn DEF CheckLease, TypeOK
  <2>2. UNCHANGED <<queue, completed, failed>> \/ FailSample(First(todo))
    BY <1>3 DEF CheckLease
  <2> QED BY <1>1, <1>2, <2>1, <2>2
<1>4. CASE SettleIssue
  <2>1. First(held) \in held
    BY <1>4, FirstIn DEF SettleIssue, TypeOK
  <2>2. FailSample(First(held))
    BY <1>4 DEF SettleIssue
  <2> QED BY <1>1, <1>2, <2>1, <2>2
<1> QED BY <1>3, <1>4

\* A page of completed samples moves on from the module before.
PageMoves(page) ==
  /\ \A s \in Samples : IF s \in page THEN at'[s] = module /\ sample'[s] = "pending"
                        ELSE at'[s] = at[s] /\ sample'[s] = sample[s]
  /\ \A s \in page : at[s] = module - 1 /\ sample[s] = "completed"
  /\ page # {} => module \notin started

\* A reset page moves completed samples from the module before, which has been finished.
LEMMA Moved ==
  ASSUME TypeOK, IInv, ResetPage
  PROVE  /\ \E page \in SUBSET Samples : PageMoves(page)
         /\ UNCHANGED <<summary, written, completed, failed>> /\ pc' # "complete"
         /\ module \in Int /\ \A s \in Samples : at[s] \in Int
<1> USE DEF row, ledger, queue, local
<1> DEFINE left == {s \in Samples : at[s] # module /\ sample[s] = "completed"}
           page == Lowest(left, PageSize)
<1>1. \A s \in Samples : IF s \in page THEN at'[s] = module /\ sample'[s] = "pending"
                         ELSE at'[s] = at[s] /\ sample'[s] = sample[s]
  BY DEF ResetPage, TypeOK
<1>2. page \in SUBSET Samples /\ \A s \in page : at[s] # module /\ sample[s] = "completed"
  BY LowestSubset
<1>3. \A s \in page : at[s] = module - 1 /\ module \notin started
  BY <1>2 DEF ResetPage, IInv, PlaceInv, OrderInv
<1>4. UNCHANGED <<summary, written, completed, failed>> /\ pc' # "complete"
  BY DEF ResetPage
<1>5. module \in Int /\ \A s \in Samples : at[s] \in Int
  BY ModulesAssumption DEF TypeOK, Modules
<1> HIDE DEF page
<1>6. PageMoves(page)
  BY <1>1, <1>2, <1>3 DEF PageMoves
<1> QED BY <1>2, <1>4, <1>5, <1>6

\* Every sample keeps its place at the front, or right behind it.
LEMMA PlaceByPipeline == ASSUME TypeOK, IInv, Pipeline PROVE PlaceInv'
<1> USE ModulesAssumption DEF TypeOK, IInv, OrderInv, SummaryInv, PlaceInv, Front, row,
        ledger, queue, local, Launching, Holding, Working, Modules, BeginUpdate,
        ThreadAlive
<1>1. CASE CompleteUpdate
  <2>1. UNCHANGED <<summary, started, sample, at>> /\ pc' # "activate"
    BY <1>1 DEF CompleteUpdate, StatusInv
  <2>2. Front' = Front
    <3>1. CASE Launching
      <4>1. current' = module /\ module = Front /\ module \in {current, current + 1}
        BY <1>1, <3>1 DEF CompleteUpdate, StatusInv
      <4>2. current' < NumModules => summary[current' + 1] \in {"absent", "paused"}
        BY <4>1
      <4> QED BY <2>1, <4>1, <4>2
    <3>2. CASE ~Launching
      <4>1. current' = current
        BY <1>1, <3>2 DEF CompleteUpdate, StatusInv
      <4> QED BY <2>1, <4>1
    <3> QED BY <3>1, <3>2
  <2> QED BY <2>1, <2>2, PlaceKept
<1>2. CASE ReadJob \/ Launch \/ Poll \/ SendBatch \/ Answer \/ CommitArtifact \/
           BatchSettled \/ FailJob \/ SettleReturned \/ NextModule \/ HandOver \/ FailRun
  <2>1. /\ UNCHANGED <<current, summary, started, sample, at>>
        /\ (pc' = "activate" => pc = "activate")
    BY <1>2 DEF ReadJob, Launch, Poll, SendBatch, Answer, CommitArtifact, BatchSettled,
         FailJob, SettleReturned, NextModule, HandOver, FailRun
  <2> QED BY <2>1, PlaceKept
<1>3. CASE ReadSummary
  <2>1. UNCHANGED <<current, started, sample, at>> /\ pc' # "activate"
    BY <1>3 DEF ReadSummary
  <2>2. CASE InOrder(module) /\ summary[module] = "absent" /\ module = current + 1
    <3>1. summary' = [summary EXCEPT ![module] = "pending"]
      BY <1>3, <2>2 DEF ReadSummary
    <3>2. Front = current /\ Front' = current + 1
      BY <2>1, <2>2, <3>1
    <3>3. \A s \in Samples : sample[s] # "failed" => at[s] = current /\ sample[s] = "completed"
      BY <2>2, <3>2, Drained
    <3>4. module \notin started
      BY <2>2
    <3> QED BY <2>1, <2>2, <3>2, <3>3, <3>4 DEF InFlight
  <2>3. CASE ~(InOrder(module) /\ summary[module] = "absent" /\ module = current + 1)
    <3>1. module = current + 1 => summary' = summary
      BY <1>3, <2>3 DEF ReadSummary
    <3>2. current < NumModules =>
            (summary'[current + 1] \in {"absent", "paused"}
               <=> summary[current + 1] \in {"absent", "paused"})
      <4>1. \A m \in Modules : m # module => summary'[m] = summary[m]
        BY <1>3 DEF ReadSummary
      <4>2. current < NumModules => current + 1 \in Modules
        BY ModulesAssumption DEF Modules
      <4> QED BY <3>1, <4>1, <4>2
    <3>3. Front' = Front
      BY <2>1, <3>2
    <3> QED BY <2>1, <3>3, PlaceKept
  <2> QED BY <2>2, <2>3
<1>4. CASE StartPrepaused
  <2>1. UNCHANGED <<summary, started, sample, at, module>> /\ pc' # "activate"
    BY <1>4 DEF StartPrepaused
  <2>2. CASE UNCHANGED row
    BY <1>4, <2>1, <2>2 DEF InFlight
  <2>3. CASE ~UNCHANGED row
    <3>1. current' = module /\ module = current + 1 /\ InOrder(module) /\ module \notin started
      BY <1>4, <2>3 DEF StartPrepaused, Unstarted
    <3>2. Front = current /\ Front' = current + 1
      BY <1>4, <2>1, <3>1 DEF StartPrepaused
    <3>3. \A s \in Samples : sample[s] # "failed" => at[s] = current /\ sample[s] = "completed"
      BY <3>1, <3>2, Drained
    <3> QED BY <2>1, <3>1, <3>2, <3>3 DEF InFlight
  <2> QED BY <2>2, <2>3
<1>5. CASE ResetPage
  <2> DEFINE left == {s \in Samples : at[s] # module /\ sample[s] = "completed"}
               page == Lowest(left, PageSize)
  <2>1. UNCHANGED <<current, summary, started, module>> /\ Front' = Front /\ module = Front
    BY <1>5 DEF ResetPage
  <2>2. \A s \in Samples : IF s \in page THEN at'[s] = Front /\ sample'[s] = "pending"
                         ELSE at'[s] = at[s] /\ sample'[s] = sample[s]
    BY <1>5, <2>1 DEF ResetPage
  <2>3. pc' = "activate" => page = {}
    BY <1>5 DEF ResetPage
  <2>4. page = {} => left = {}
    BY PageNotEmpty
  <2>5. InFlight' = {}
    <3>1. \A s \in Samples : sample[s] \notin {"leased", "prepared"}
      BY <1>5 DEF ResetPage, LeaseInv, Entering, InFlight
    <3> QED BY <2>2, <3>1 DEF InFlight
  <2>6. pc' = "activate" => \A s \in Samples : sample'[s] # "failed" => at'[s] = Front
    <3> SUFFICES ASSUME pc' = "activate", NEW s \in Samples, sample'[s] # "failed"
                 PROVE  at'[s] = Front
      OBVIOUS
    <3>1. page = {} /\ left = {}
      BY <2>3, <2>4
    <3>2. sample[s] # "failed" /\ at'[s] = at[s]
      BY <2>2, <3>1
    <3> QED BY <2>1, <3>1, <3>2
  <2> HIDE DEF page, left, Front, OrderInv, SummaryInv, TypeOK
  <2>7. \A s \in Samples : sample'[s] # "failed" =>
           \/ at'[s] = Front
           \/ at'[s] = Front - 1 /\ sample'[s] = "completed" /\ Front \notin started
    <3> SUFFICES ASSUME NEW s \in Samples, sample'[s] # "failed", s \notin page
                 PROVE  \/ at[s] = Front
                        \/ at[s] = Front - 1 /\ sample[s] = "completed" /\ Front \notin started
      BY <2>2
    <3>1. sample[s] # "failed"
      BY <2>2
    <3> QED BY <3>1
  <2> QED BY <2>1, <2>5, <2>6, <2>7
<1>6. CASE Activate
  <2>1. UNCHANGED <<current, sample, at>> /\ pc' # "activate" /\ module = Front
    BY <1>6 DEF Activate
  <2>2. summary' = [summary EXCEPT ![module] = "running"] /\ started' = started \cup {module}
    BY <1>6 DEF Activate
  <2>3. module \in {current, current + 1}
    BY <1>6 DEF Activate
  <2>4. Front' = Front
    BY <2>1, <2>2, <2>3
  <2> QED BY <1>6, <2>1, <2>2, <2>4 DEF Activate, InFlight
<1>7. CASE Claim \/ StageArtifact
  <2>1. UNCHANGED <<current, summary, started, at>> /\ pc' # "activate" /\ Front \in started
    BY <1>7 DEF Claim, StageArtifact
  <2> QED BY <1>7, <2>1, OnlyWork, PlaceKept DEF InWork
<1>8. CASE FinishModule \/ WorkerExited
  <2>1. module = current /\ Front = current /\ current \in started
    BY <1>8 DEF FinishModule, WorkerExited
  <2>2. UNCHANGED <<current, started, at>> /\ pc' # "activate"
    BY <1>8 DEF FinishModule, WorkerExited
  <2>3. summary' = [summary EXCEPT ![module] = summary'[module]]
    BY SMTT(30), <1>8 DEF FinishModule, WorkerExited
  <2>4. Front' = Front
    <3>1. current < NumModules => current + 1 \in Modules /\ current + 1 # module
      BY <2>1
    <3>2. current < NumModules => summary'[current + 1] = summary[current + 1]
      BY <2>3, <3>1
    <3> QED BY <2>2, <3>2
  <2>5. \A s \in Samples : sample'[s] = sample[s] \/ sample[s] # "failed"
    BY <1>8 DEF FinishModule, WorkerExited, LeaseInv, InFlight
  <2> QED BY <2>1, <2>2, <2>4, <2>5, PlaceKept
<1>9. CASE CheckLease
  <2>1. UNCHANGED <<current, summary, started, at>> /\ pc' # "activate"
    BY <1>9 DEF CheckLease, FailSample
  <2>2. Front \in started
    BY <1>9 DEF CheckLease
  <2>3. \A s \in Samples : sample'[s] = sample[s] \/ sample[s] # "failed"
    BY <1>9, OneFails DEF FailSample
  <2> QED BY <2>1, <2>2, <2>3, PlaceKept
<1>10. CASE ReleaseUnstarted \/ ReturnModuleLeases
  <2>1. UNCHANGED <<current, summary, started, at>> /\ pc' # "activate" /\ Front \in started
    BY <1>10 DEF ReleaseUnstarted, ReturnModuleLeases
  <2> QED BY <1>10, <2>1, OnlyWork, PlaceKept DEF InWork
<1>11. CASE SettleIssue
  <2>1. UNCHANGED <<current, summary, started, at>> /\ pc' # "activate"
    BY <1>11 DEF SettleIssue, FailSample
  <2>2. Front \in started
    BY <1>11 DEF SettleIssue
  <2>3. \A s \in Samples : sample'[s] = sample[s] \/ sample[s] # "failed"
    BY <1>11, OneFails DEF FailSample
  <2> QED BY <2>1, <2>2, <2>3, PlaceKept
<1>12. CASE CompleteSample
  <2>1. UNCHANGED <<current, summary, started, at>> /\ pc' # "activate"
    BY <1>12 DEF CompleteSample
  <2>2. Front \in started
    BY <1>12 DEF CompleteSample
  <2>3. First(held) \in held
    BY <1>12, FirstIn DEF CompleteSample, LeaseInv
  <2>4. \A s \in Samples \ {First(held)} : sample'[s] = sample[s]
    BY <1>12 DEF CompleteSample
  <2>5. \A s \in held : sample[s] # "failed"
    BY <1>12 DEF CompleteSample, LeaseInv, InFlight
  <2> QED BY <2>1, <2>2, <2>3, <2>4, <2>5, PlaceKept
<1>13. CASE FailModule
  <2>1. module = current /\ Front = current /\ current \in started
    BY <1>13 DEF FailModule
  <2>2. UNCHANGED <<current, started, at>> /\ pc' # "activate"
    BY <1>13 DEF FailModule
  <2>3. summary' = [summary EXCEPT ![module] = summary'[module]]
    BY <1>13 DEF FailModule
  <2>4. Front' = Front
    <3>1. current < NumModules => current + 1 \in Modules /\ current + 1 # module
      BY <2>1
    <3>2. current < NumModules => summary'[current + 1] = summary[current + 1]
      BY <2>3, <3>1
    <3> QED BY <2>2, <3>2
  <2>5. \A s \in Samples : sample'[s] = sample[s] \/ sample[s] # "failed"
    BY <1>13 DEF FailModule, ReturnToPending, LeaseInv, InFlight
  <2> QED BY <2>1, <2>2, <2>4, <2>5, PlaceKept
<1> QED BY <1>1, <1>2, <1>3, <1>4, <1>5, <1>6, <1>7, <1>8, <1>9, <1>10, <1>11, <1>12,
    <1>13 DEF Pipeline

\* Nor does anything around the thread displace one.
LEMMA PlaceByEnvironment == ASSUME TypeOK, IInv, Environment PROVE PlaceInv'
<1> USE ModulesAssumption DEF TypeOK, IInv, OrderInv, SummaryInv, PlaceInv, Front, row,
        ledger, queue, local, Launching, Holding, Working, Modules, BeginUpdate,
        ThreadAlive
<1>1. CASE RunnerError \/ WorkerExits \/ BeginCancellation \/ BeginRecovery \/
           CountInFlight \/ SettleCancellation \/ RestartJob \/ Crash \/ Stop
  <2>1. /\ UNCHANGED <<current, summary, started, sample, at>>
        /\ (pc' = "activate" => pc = "activate")
    BY <1>1 DEF RunnerError, WorkerExits, BeginCancellation, BeginRecovery, CountInFlight,
         SettleCancellation, RestartJob, Crash, Reboot, Stop
  <2> QED BY <2>1, PlaceKept
<1>2. CASE Pause
  <2>1. UNCHANGED <<current, sample, at, pc, started>>
    <3>1. current \in started
      BY <1>2 DEF Pause
    <3> QED BY SMTT(30), <1>2, <3>1 DEF Pause
  <2>2. current < NumModules => summary'[current + 1] = summary[current + 1]
    BY <1>2 DEF Pause, SummaryInv
  <2>3. Front' = Front
    BY <2>1, <2>2
  <2> QED BY <2>1, <2>3, PlaceKept
<1>3. CASE Resume
  <2>1. UNCHANGED <<current, started, sample, at>> /\ pc' # "activate"
    BY <1>3 DEF Resume
  <2>2. current < NumModules => summary'[current + 1] = summary[current + 1]
    BY <1>3 DEF Resume
  <2>3. Front' = Front
    BY <2>1, <2>2
  <2> QED BY <2>1, <2>3, PlaceKept
<1>4. CASE \E m \in Modules : PauseFuture(m)
  <2>1. PICK m \in Modules : PauseFuture(m)
    BY <1>4
  <2>2. summary[m] = "absent" /\ summary' = [summary EXCEPT ![m] = "paused"]
    BY <2>1 DEF PauseFuture
  <2>3. UNCHANGED <<current, started, sample, at, pc>>
    BY <2>1 DEF PauseFuture
  <2>4. Front' = Front
    BY <2>2, <2>3
  <2> QED BY <2>3, <2>4, PlaceKept
<1>5. CASE \E m \in Modules : CancelFuturePause(m)
  <2>1. PICK m \in Modules : CancelFuturePause(m)
    BY <1>5
  <2>2. summary[m] = "paused" /\ summary' = [summary EXCEPT ![m] = "absent"]
    BY <2>1 DEF CancelFuturePause
  <2>3. UNCHANGED <<current, started, sample, at, pc>>
    BY <2>1 DEF CancelFuturePause
  <2>4. Front' = Front
    BY SMTT(30), <2>2, <2>3
  <2> QED BY <2>3, <2>4, PlaceKept
<1>6. CASE RecoverSample
  <2>1. UNCHANGED <<current, summary, started, at>> /\ pc' # "activate"
    BY <1>6 DEF RecoverSample
  <2>2. Front' = Front
    BY <2>1
  <2> DEFINE r == First(InFlight)
  <2>3. r \in InFlight /\ at[r] = Front
    BY <1>6, FirstIn DEF RecoverSample, InFlight
  <2>4. \A s \in Samples : s # r => sample'[s] = sample[s]
    BY <1>6 DEF RecoverSample
  <2>5. at[r] \in started /\ sample[r] # "failed"
    BY <2>3 DEF InFlight
  <2> QED BY <2>1, <2>2, <2>3, <2>4, <2>5, PlaceKept
<1> QED BY <1>1, <1>2, <1>3, <1>4, <1>5, <1>6 DEF Environment, User, Serve

\* The samples in flight are those the runner holds.
LEMMA LeaseByPipeline == ASSUME TypeOK, IInv, Pipeline PROVE LeaseInv'
<1> USE DEF IInv, LeaseInv, row, ledger, queue, local, Launching, Holding, Working,
        Entering, BeginUpdate, ThreadAlive, Active, Yielding
<1>1. CASE CompleteUpdate
  <2>1. InFlight' = InFlight /\ UNCHANGED <<sample, held, todo, api>> /\ pc' = update.next
    BY <1>1 DEF CompleteUpdate, InFlight
  <2>2. /\ status' \notin {"cancelled_recoverable", "cancelling", "paused"}
        /\ pc' \in {"launch", "idle", "raise"}
    BY <1>1 DEF CompleteUpdate, StatusInv
  <2>3. pc' = "launch" => InFlight = {} /\ held = {} /\ todo = {}
    BY <1>1, <2>1 DEF CompleteUpdate, TypeOK
  <2>4. pc' = "idle" => held = {}
    BY <1>1, <2>1 DEF CompleteUpdate
  <2> QED BY <2>1, <2>2, <2>3, <2>4
<1>2. CASE ReadJob \/ ReadSummary \/ StartPrepaused \/ Activate
  <2>1. InFlight' = InFlight /\ UNCHANGED <<sample, held, todo>>
    BY <1>2 DEF ReadJob, ReadSummary, StartPrepaused, Activate, InFlight
  <2> QED BY <1>2, <2>1 DEF ReadJob, ReadSummary, StartPrepaused, Activate
<1>3. CASE Launch \/ Poll \/ FinishModule \/ SendBatch
  <2>1. InFlight' = InFlight /\ UNCHANGED <<sample, held, todo>>
    BY <1>3 DEF Launch, Poll, FinishModule, SendBatch, InFlight
  <2> QED BY <1>3, <2>1 DEF Launch, Poll, FinishModule, SendBatch
<1>4. CASE Answer \/ CommitArtifact \/ BatchSettled \/ FailJob
  <2>1. InFlight' = InFlight /\ UNCHANGED <<sample, held, todo>>
    BY <1>4 DEF Answer, CommitArtifact, BatchSettled, FailJob, InFlight
  <2> QED BY <1>4, <2>1 DEF Answer, CommitArtifact, BatchSettled, FailJob
<1>5. CASE WorkerExited \/ SettleReturned \/ NextModule \/ HandOver
  <2>1. InFlight' = InFlight /\ UNCHANGED <<sample, held, todo>>
    BY <1>5 DEF WorkerExited, SettleReturned, NextModule, HandOver, InFlight
  <2> QED BY <1>5, <2>1 DEF WorkerExited, SettleReturned, NextModule, HandOver
<1>6. CASE ResetPage
  <2>1. InFlight = {} /\ held = {}
    BY <1>6 DEF ResetPage
  <2>2. \A s \in Samples : sample'[s] = sample[s] \/ sample'[s] = "pending"
    BY <1>6 DEF ResetPage, TypeOK
  <2>3. InFlight' = {}
    BY <2>1, <2>2 DEF InFlight
  <2>4. UNCHANGED <<held, todo, status, api>> /\ pc' \in {"reset", "activate"}
    BY <1>6 DEF ResetPage
  <2> QED BY <2>1, <2>3, <2>4
<1>7. CASE Claim
  <2>1. UNCHANGED <<status, api>> /\ InFlight = {}
    BY <1>7 DEF Claim
  <2>2. PICK expired, batch \in SUBSET Samples : ClaimTakes(expired, batch)
    BY <1>7, Claimed
  <2>3. held' = batch /\ todo' = batch /\ \A s \in batch : sample'[s] = "leased"
    BY <2>2 DEF ClaimTakes
  <2>4. InFlight' = batch
    BY <2>1, <2>2 DEF ClaimTakes, InFlight
  <2>5. (pc' = "drained" /\ batch = {}) \/ (pc' = "check" /\ status = "running")
    BY <2>2 DEF ClaimTakes
  <2> QED BY <2>3, <2>4, <2>5, <2>1
<1>8. CASE CheckLease
  <2>1. CASE UNCHANGED <<queue, held>>
    <3>1. /\ InFlight' = InFlight
          /\ UNCHANGED <<sample, held, status, api>>
          /\ pc' \in {"check", "release"}
      BY <1>8, <2>1 DEF CheckLease, InFlight
    <3> QED BY <1>8, <3>1 DEF CheckLease
  <2>2. CASE FailSample(First(todo)) /\ pc' = pc
    <3>1. First(todo) \in held /\ held \subseteq Samples
      BY <1>8, FirstIn DEF CheckLease, TypeOK
    <3>2. sample' = [sample EXCEPT ![First(todo)] = "failed"] /\ held' = held \ {First(todo)}
      BY <2>2 DEF FailSample
    <3>3. InFlight' = held'
      BY <1>8, <3>1, <3>2 DEF CheckLease, InFlight, TypeOK
    <3>4. \A s \in held' : sample'[s] = "leased"
      BY <1>8, <3>1, <3>2 DEF CheckLease, TypeOK
    <3>5. UNCHANGED <<status, api>>
      BY <1>8 DEF CheckLease
    <3> QED BY <1>8, <2>2, <3>2, <3>3, <3>4, <3>5 DEF CheckLease
  <2> QED BY <1>8, <2>1, <2>2 DEF CheckLease
<1>9. CASE ReleaseUnstarted \/ FailModule
  <2>1. InFlight = held /\ held' = {} /\ UNCHANGED <<status, api>>
    BY <1>9 DEF ReleaseUnstarted, FailModule
  <2>2. InFlight' = {}
    BY <1>9, <2>1 DEF ReleaseUnstarted, ReturnToPending, FailModule, InFlight
  <2> QED BY <1>9, <2>1, <2>2 DEF ReleaseUnstarted, FailModule
<1>10. CASE SettleIssue
  <2>1. First(held) \in held /\ held \subseteq Samples
    BY <1>10, FirstIn DEF SettleIssue, TypeOK
  <2>2. sample' = [sample EXCEPT ![First(held)] = "failed"] /\ held' = held \ {First(held)}
    BY <1>10 DEF SettleIssue, FailSample
  <2>3. InFlight' = held'
    BY <1>10, <2>1, <2>2 DEF SettleIssue, InFlight, TypeOK
  <2>4. \A s \in held' : sample'[s] = "leased"
    BY <1>10, <2>1, <2>2 DEF SettleIssue, TypeOK
  <2>5. UNCHANGED <<status, api, pc, todo>>
    BY <1>10 DEF SettleIssue, FailSample
  <2> QED BY <1>10, <2>2, <2>3, <2>4, <2>5 DEF SettleIssue
<1>11. CASE StageArtifact
  <2>1. First(held) \in held /\ held \subseteq Samples /\ InFlight = held
    BY <1>11, FirstIn DEF StageArtifact, TypeOK
  <2>2. /\ sample' = [sample EXCEPT ![First(held)] = "prepared"]
        /\ UNCHANGED <<held, todo, status, api>>
        /\ pc' = "commit"
    BY <1>11 DEF StageArtifact
  <2>3. InFlight' = InFlight
    BY <2>1, <2>2 DEF InFlight, TypeOK
  <2>4. /\ sample'[First(held)] = "prepared"
        /\ \A s \in held \ {First(held)} : sample'[s] = "leased"
    BY <1>11, <2>1, <2>2 DEF StageArtifact, TypeOK
  <2> QED BY <1>11, <2>1, <2>2, <2>3, <2>4 DEF StageArtifact
<1>12. CASE CompleteSample
  <2>1. First(held) \in held /\ held \subseteq Samples /\ InFlight = held
    BY <1>12, FirstIn DEF CompleteSample, TypeOK
  <2>2. sample' = [sample EXCEPT ![First(held)] = "completed"] /\ held' = held \ {First(held)}
    BY <1>12 DEF CompleteSample
  <2>3. InFlight' = held'
    BY <2>1, <2>2 DEF InFlight, TypeOK
  <2>4. \A s \in held' : sample'[s] = "leased"
    BY <1>12, <2>1, <2>2 DEF CompleteSample, TypeOK
  <2>5. UNCHANGED <<todo, status, api>> /\ pc' = "settle"
    BY <1>12 DEF CompleteSample
  <2> QED BY <1>12, <2>1, <2>2, <2>3, <2>4, <2>5 DEF CompleteSample
<1>13. CASE ReturnModuleLeases
  <2>1. /\ InFlight = held
        /\ held' = {}
        /\ todo' = {}
        /\ UNCHANGED <<status, api>>
        /\ pc' = "launch"
    BY <1>13 DEF ReturnModuleLeases
  <2>2. \A s \in held : at[s] = module /\ sample[s] = "leased"
    BY <1>13, HeldAt DEF ReturnModuleLeases
  <2>3. InFlight' = {}
    BY <1>13, <2>1, <2>2 DEF ReturnModuleLeases, ReturnToPending, InFlight
  <2> QED BY <2>1, <2>3
<1>14. CASE FailRun
  <2>1. InFlight' = InFlight /\ UNCHANGED <<sample, status, api>> /\ held' = {} /\ todo' = {}
    BY <1>14 DEF FailRun, InFlight
  <2>2. pc' = "idle" => status # "paused"
    BY <1>14 DEF FailRun, MaySetStatus, JobTransitions, JobStatuses, TypeOK
  <2>3. pc' \in {"idle", "update"} /\ ~Launching'
    BY <1>14 DEF FailRun
  <2> QED BY <1>14, <2>1, <2>2, <2>3
<1> QED BY <1>1, <1>2, <1>3, <1>4, <1>5, <1>6, <1>7, <1>8, <1>9, <1>10, <1>11, <1>12, <1>13,
    <1>14 DEF Pipeline

\* Failures leave leases behind, but only where a recovery will find them.
LEMMA LeaseByEnvironment == ASSUME TypeOK, IInv, Environment PROVE LeaseInv'
<1> USE DEF IInv, LeaseInv, row, ledger, queue, local, Launching, Holding, Working,
        Entering, BeginUpdate, ThreadAlive, Active, Yielding
<1>1. CASE RunnerError \/ WorkerExits \/ Pause \/ Resume
  <2>1. InFlight' = InFlight /\ UNCHANGED <<sample, held, todo>>
    BY <1>1 DEF RunnerError, WorkerExits, Pause, Resume, InFlight
  <2> QED BY <1>1, <2>1 DEF RunnerError, WorkerExits, Pause, Resume
<1>2. CASE BeginCancellation \/ BeginRecovery \/ CountInFlight \/ SettleCancellation
  <2>1. InFlight' = InFlight /\ UNCHANGED <<sample, held, todo>>
    BY <1>2 DEF BeginCancellation, BeginRecovery, CountInFlight, SettleCancellation,
         InFlight
  <2> QED BY <1>2, <2>1 DEF BeginCancellation, BeginRecovery, CountInFlight,
      SettleCancellation
<1>3. CASE RestartJob
  <2>1. InFlight' = InFlight /\ UNCHANGED <<sample, held, todo>>
    BY <1>3 DEF RestartJob, InFlight
  <2> QED BY <1>3, <2>1 DEF RestartJob
<1>4. CASE \E m \in Modules : PauseFuture(m)
  <2>1. InFlight' = InFlight /\ UNCHANGED <<sample, held, todo, pc, status, api, update>>
    BY <1>4 DEF PauseFuture, InFlight
  <2> QED BY <2>1
<1>5. CASE \E m \in Modules : CancelFuturePause(m)
  <2>1. InFlight' = InFlight /\ UNCHANGED <<sample, held, todo, pc, status, api, update>>
    BY <1>5 DEF CancelFuturePause, InFlight
  <2> QED BY <2>1
<1>6. CASE RecoverSample
  <2>1. pc = "recover" /\ UNCHANGED <<status, api, held, todo, pc>>
    BY <1>6 DEF RecoverSample
  <2>2. First(InFlight) \in InFlight
    BY <1>6, FirstIn DEF RecoverSample, InFlight
  <2>3. \E v \in {"completed", "pending"} : sample' = [sample EXCEPT ![First(InFlight)] = v]
    BY <1>6 DEF RecoverSample
  <2>4. InFlight' \subseteq InFlight
    BY <2>2, <2>3 DEF InFlight, TypeOK
  <2> QED BY <2>1, <2>4
<1>7. CASE Crash \/ Stop
  <2>1. InFlight' = InFlight /\ held' = {} /\ todo' = {} /\ pc' = "idle" /\ api' = "idle"
    BY <1>7 DEF Crash, Reboot, Stop, InFlight
  <2>2. /\ status' # "paused"
        /\ (status' = "cancelled_recoverable" => status = "cancelled_recoverable")
    BY <1>7 DEF Crash, Reboot, Stop, NonInterruptible, TerminalStatuses
  <2> QED BY <2>1, <2>2
<1> QED BY <1>1, <1>2, <1>3, <1>4, <1>5, <1>6, <1>7 DEF Environment, User, Serve

-----------------------------------------------------------------------------
(* Artifacts, counters and finished modules                                *)

\* An artifact is in the overlay before its sample is completed.
LEMMA ArtifactStep == ASSUME TypeOK, IInv, Next PROVE ArtifactInv'
<1> USE DEF IInv, ArtifactInv, ArtifactBeforeCompletion, row, ledger, queue, local
<1>1. CASE Quiet
  BY <1>1 DEF Quiet
<1>2. CASE ResetPage
  <2>1. PICK page \in SUBSET Samples : PageMoves(page)
    BY <1>2, Moved
  <2>2. UNCHANGED written /\ pc' # "complete" /\ module \in Int
    BY <1>2, Moved
  <2> QED BY <2>1, <2>2 DEF PageMoves
<1>3. CASE Claim \/ StageArtifact
  <2>1. pc' # "complete"
    BY <1>3 DEF Claim, StageArtifact
  <2> QED BY <1>3, <2>1, OnlyWork DEF InWork
<1>4. CASE FinishModule
  <2>1. UNCHANGED queue /\ pc' # "complete"
    BY <1>4 DEF FinishModule
  <2> QED BY <2>1
<1>5. CASE CheckLease
  <2>1. (pc' = "complete" => pc = "complete" /\ held' = held)
    BY <1>5 DEF CheckLease, FailSample
  <2>2. \A s \in InFlight : s \in Samples /\ sample[s] # "completed"
    BY DEF InFlight
  <2> QED BY <1>5, <2>1, <2>2, OneFails DEF FailSample, TypeOK
<1>6. CASE ReleaseUnstarted \/ FailModule \/ ReturnModuleLeases
  <2>1. pc' # "complete"
    BY <1>6 DEF ReleaseUnstarted, FailModule, ReturnModuleLeases
  <2> QED BY <1>6, <2>1, OnlyWork DEF InWork
<1>7. CASE SettleIssue
  <2>1. (pc' = "complete" => pc = "complete" /\ held' = held)
    BY <1>7 DEF SettleIssue, FailSample
  <2>2. \A s \in InFlight : s \in Samples /\ sample[s] # "completed"
    BY DEF InFlight
  <2> QED BY <1>7, <2>1, <2>2, OneFails DEF FailSample, TypeOK
<1>8. CASE CommitArtifact
  <2>1. First(held) \in held /\ at[First(held)] = module /\ sample[First(held)] # "completed"
    BY <1>8, FirstIn, HeldAt DEF CommitArtifact, TypeOK, LeaseInv, Holding, Working
  <2>2. written' = [written EXCEPT ![First(held)] = module] /\ UNCHANGED <<sample, at, held>>
    BY <1>8 DEF CommitArtifact
  <2> QED BY <2>1, <2>2 DEF TypeOK
<1>9. CASE CompleteSample
  <2>1. First(held) \in Samples /\ written[First(held)] = at[First(held)]
    BY <1>9, FirstIn DEF CompleteSample, TypeOK, LeaseInv
  <2>2. /\ sample' = [sample EXCEPT ![First(held)] = "completed"]
        /\ UNCHANGED <<at, written>>
        /\ pc' = "settle"
    BY <1>9 DEF CompleteSample
  <2> QED BY <2>1, <2>2 DEF TypeOK
<1>10. CASE RecoverSample
  <2> DEFINE r == First(InFlight)
  <2>1. r \in Samples /\ sample[r] # "completed"
    BY <1>10, FirstIn DEF RecoverSample, InFlight
  <2>2. pc' # "complete" /\ UNCHANGED at
    BY <1>10 DEF RecoverSample
  <2>3. CASE /\ sample' = [sample EXCEPT ![r] = "completed"]
             /\ written' = [written EXCEPT ![r] = at[r]]
    BY <2>1, <2>2, <2>3 DEF TypeOK
  <2>4. CASE sample' = [sample EXCEPT ![r] = "pending"] /\ UNCHANGED written
    BY <2>1, <2>2, <2>4 DEF TypeOK
  <2> QED BY <1>10, <2>3, <2>4 DEF RecoverSample
<1> QED BY <1>1, <1>2, <1>3, <1>4, <1>5, <1>6, <1>7, <1>8, <1>9, <1>10, QuietOr DEF IInv

\* What recovery does with the lease it finds first.
RecoverTakes(r) ==
  /\ UNCHANGED <<at, failed>>
  /\ \/ /\ sample' = [sample EXCEPT ![r] = "completed"]
        /\ completed' = [completed EXCEPT ![at[r]] = @ + 1]
     \/ sample' = [sample EXCEPT ![r] = "pending"] /\ UNCHANGED completed

\* Recovery takes one sample in flight: its prepared result is kept or it is pending again.
LEMMA Recovered == ASSUME RecoverSample PROVE \E r \in InFlight : RecoverTakes(r)
<1>1. First(InFlight) \in InFlight
  BY FirstIn DEF RecoverSample, InFlight
<1>2. RecoverTakes(First(InFlight))
  <2>1. UNCHANGED <<at, failed>>
    BY DEF RecoverSample
  <2>2. \/ /\ sample' = [sample EXCEPT ![First(InFlight)] = "completed"]
           /\ completed' = [completed EXCEPT ![at[First(InFlight)]] = @ + 1]
        \/ sample' = [sample EXCEPT ![First(InFlight)] = "pending"] /\ UNCHANGED completed
    BY Zenon DEF RecoverSample
  <2> QED BY <2>1, <2>2 DEF RecoverTakes
<1> QED BY <1>1, <1>2

\* The counters agree with the samples as long as neither changes ...
LEMMA CountsKept ==
  ASSUME CountsMatch, UNCHANGED <<completed, failed>>,
         \A m \in Modules : DoneIn(m)' = DoneIn(m) /\ FailedIn(m)' = FailedIn(m)
  PROVE  CountsMatch'
  BY DEF CountsMatch

\* ... when one more sample is completed and counted ...
LEMMA CountedCompletion ==
  ASSUME TypeOK, CountsMatch, NEW s \in Samples, sample[s] \in {"leased", "prepared"},
         sample' = [sample EXCEPT ![s] = "completed"],
         \A m \in Modules :
            completed'[m] = IF m = at[s] THEN completed[m] + 1 ELSE completed[m],
         UNCHANGED <<at, failed>>
  PROVE  CountsMatch'
<1> USE DEF TypeOK
<1>1. at[s] \in Modules /\ at[s] \in Int /\ \A m \in Modules : m \in Int
  BY ModulesAssumption DEF Modules
<1>2. DoneIn(at[s])' = DoneIn(at[s]) \cup {s} /\ s \notin DoneIn(at[s])
  <2>1. sample'[s] = "completed" /\ ~(at[s] > at[s])
    BY <1>1
  <2>2. \A t \in Samples : t # s => sample'[t] = sample[t]
    OBVIOUS
  <2> QED BY <2>1, <2>2 DEF DoneIn
<1>3. DoneIn(at[s]) \in SUBSET Samples
  BY DEF DoneIn
<1>4. Cardinality(DoneIn(at[s])') = completed[at[s]] + 1
  BY <1>1, <1>2, <1>3, OneMore DEF CountsMatch
<1>5. \A m \in Modules : m # at[s] => DoneIn(m)' = DoneIn(m)
  BY DEF DoneIn
<1>6. \A m \in Modules : FailedIn(m)' = FailedIn(m)
  BY DEF FailedIn
<1>7. /\ completed'[at[s]] = completed[at[s]] + 1
      /\ \A m \in Modules : m # at[s] => completed'[m] = completed[m]
  BY <1>1
<1> QED BY <1>4, <1>5, <1>6, <1>7 DEF CountsMatch

\* ... and when one more fails and is counted.
LEMMA CountedFailure ==
  ASSUME TypeOK, CountsMatch, NEW s \in Samples, sample[s] = "leased", at[s] = module,
         FailSample(s), UNCHANGED module
  PROVE  CountsMatch'
<1> USE DEF TypeOK, FailSample
<1>1. FailedIn(module)' = FailedIn(module) \cup {s} /\ s \notin FailedIn(module)
  <2>1. sample'[s] = "failed" /\ UNCHANGED at
    OBVIOUS
  <2>2. \A t \in Samples : t # s => sample'[t] = sample[t]
    OBVIOUS
  <2> QED BY <2>1, <2>2 DEF FailedIn
<1>2. FailedIn(module) \in SUBSET Samples
  BY DEF FailedIn
<1>3. Cardinality(FailedIn(module)') = failed[module] + 1
  BY <1>1, <1>2, OneMore DEF CountsMatch
<1>4. \A m \in Modules : m # module => FailedIn(m)' = FailedIn(m)
  BY DEF FailedIn
<1>5. \A m \in Modules : DoneIn(m)' = DoneIn(m)
  BY DEF DoneIn
<1>6. /\ failed'[module] = failed[module] + 1
      /\ \A m \in Modules : m # module => failed'[m] = failed[m]
  OBVIOUS
<1>7. UNCHANGED completed /\ module \in Modules
  OBVIOUS
<1> HIDE DEF TypeOK, FailSample
<1> QED BY <1>1, <1>3, <1>4, <1>5, <1>6, <1>7 DEF CountsMatch

\* Every step keeps the counters in agreement with the samples.
LEMMA CountsStep == ASSUME TypeOK, IInv, Next PROVE CountsMatch'
<1> USE DEF IInv, row, ledger, queue, local
<1>1. CASE Quiet
  BY <1>1, CountsKept DEF Quiet, DoneIn, FailedIn
<1>2. CASE ResetPage
  <2>1. PICK page \in SUBSET Samples : PageMoves(page)
    BY <1>2, Moved
  <2>2. UNCHANGED <<completed, failed>> /\ module \in Int /\ \A s \in Samples : at[s] \in Int
    BY <1>2, Moved
  <2>3. ASSUME NEW m \in Modules PROVE DoneIn(m)' = DoneIn(m) /\ FailedIn(m)' = FailedIn(m)
    <3>1. m \in Int
      BY ModulesAssumption DEF Modules
    <3>2. ASSUME NEW s \in Samples
          PROVE  /\ (at'[s] > m \/ (at'[s] = m /\ sample'[s] = "completed")) <=>
                      (at[s] > m \/ (at[s] = m /\ sample[s] = "completed"))
                 /\ (at'[s] = m /\ sample'[s] = "failed")
                      <=> (at[s] = m /\ sample[s] = "failed")
      BY <2>1, <2>2, <3>1 DEF PageMoves
    <3> QED BY <3>2 DEF DoneIn, FailedIn
  <2> QED BY <2>2, <2>3, CountsKept
<1>3. CASE Claim \/ ReleaseUnstarted \/ StageArtifact \/ FailModule \/ ReturnModuleLeases
  BY <1>3, OnlyWork, CountsKept DEF DoneIn, FailedIn, InWork
<1>4. CASE FinishModule \/ CommitArtifact
  <2>1. UNCHANGED <<sample, at, completed, failed>>
    BY <1>4 DEF FinishModule, CommitArtifact
  <2> QED BY <2>1, CountsKept DEF DoneIn, FailedIn
<1>5. CASE CheckLease \/ SettleIssue
  <2>1. CASE UNCHANGED <<queue, completed, failed>>
    BY <2>1, CountsKept DEF DoneIn, FailedIn
  <2>2. CASE ~UNCHANGED <<queue, completed, failed>>
    BY <1>5, <2>2, OneFails, CountedFailure DEF InFlight
  <2> QED BY <2>1, <2>2
<1>6. CASE CompleteSample
  <2>1. First(held) \in held /\ held \subseteq Samples
    BY <1>6, FirstIn DEF CompleteSample, TypeOK, LeaseInv
  <2>2. at[First(held)] = module /\ sample[First(held)] = "prepared"
    BY <1>6, <2>1, HeldAt DEF CompleteSample, Holding, Working, LeaseInv
  <2>3. /\ sample' = [sample EXCEPT ![First(held)] = "completed"]
        /\ UNCHANGED <<at, failed>>
    BY <1>6 DEF CompleteSample
  <2>4. \A m \in Modules :
          completed'[m] = IF m = at[First(held)] THEN completed[m] + 1 ELSE completed[m]
    BY <1>6, <2>2 DEF CompleteSample, TypeOK
  <2>5. First(held) \in Samples /\ sample[First(held)] \in {"leased", "prepared"}
    BY <2>1, <2>2 DEF TypeOK
  <2> QED BY <2>3, <2>4, <2>5, CountedCompletion
<1>7. CASE RecoverSample
  <2>1. PICK r \in InFlight : RecoverTakes(r)
    BY <1>7, Recovered
  <2>2. r \in Samples /\ sample[r] \in {"leased", "prepared"} /\ UNCHANGED <<at, failed>>
    BY <2>1 DEF InFlight, RecoverTakes
  <2>3. CASE sample' = [sample EXCEPT ![r] = "completed"]
    <3>1. \A m \in Modules :
           completed'[m] = IF m = at[r] THEN completed[m] + 1 ELSE completed[m]
      BY <2>1, <2>2, <2>3 DEF TypeOK, RecoverTakes
    <3> QED BY <2>2, <2>3, <3>1, CountedCompletion
  <2>4. CASE sample' = [sample EXCEPT ![r] = "pending"] /\ UNCHANGED completed
    <3>1. \A s \in Samples :
            sample'[s] = sample[s] \/ {sample[s], sample'[s]} \subseteq InWork
      BY <2>2, <2>4 DEF TypeOK, InWork
    <3> QED BY <2>2, <2>4, <3>1, CountsKept DEF DoneIn, FailedIn, InWork
  <2> QED BY <2>1, <2>3, <2>4 DEF RecoverTakes
<1> QED BY <1>1, <1>2, <1>3, <1>4, <1>5, <1>6, <1>7, QuietOr DEF IInv

\* A finished summary stays true when its module gets no new work and no other failures.
LEMMA FinishedKept ==
  ASSUME FinishedTruthful,
         \A m \in Modules : summary'[m] \in {"completed", "completed_with_issues"} =>
           /\ summary'[m] = summary[m]
           /\ Unsettled(m)' \subseteq Unsettled(m)
           /\ FailedIn(m)' = FailedIn(m)
  PROVE  FinishedTruthful'
  BY DEF FinishedTruthful

\* Every step keeps the finished summaries true.
LEMMA FinishedStep == ASSUME TypeOK, IInv, Next PROVE FinishedTruthful'
<1> USE DEF IInv, row, ledger, queue, local
<1>1. CASE Quiet
  BY <1>1, FinishedKept DEF Quiet, Unsettled, FailedIn
<1>2. CASE ResetPage
  <2>1. PICK page \in SUBSET Samples : PageMoves(page)
    BY <1>2, Moved
  <2>2. UNCHANGED summary
    BY <1>2, Moved
  <2>3. page # {} => summary[module] \notin {"completed", "completed_with_issues"}
    BY <2>1 DEF PageMoves, SummaryInv, TypeOK
  <2>4. ASSUME NEW m \in Modules, summary[m] \in {"completed", "completed_with_issues"}
        PROVE  Unsettled(m)' \subseteq Unsettled(m) /\ FailedIn(m)' = FailedIn(m)
    <3>1. \A s \in Samples : at'[s] = m => s \notin page
      BY <2>1, <2>3, <2>4 DEF PageMoves
    <3> QED BY <2>1, <3>1 DEF Unsettled, FailedIn, PageMoves
  <2> QED BY <2>2, <2>4, FinishedKept
<1>3. CASE Claim \/ StageArtifact
  <2>1. summary[module] \notin {"completed", "completed_with_issues"} /\ UNCHANGED summary
    BY <1>3 DEF Claim, StageArtifact, SummaryInv, Holding, Working
  <2> QED BY <1>3, <2>1, OnlyWork, FinishedKept DEF Unsettled, FailedIn
<1>4. CASE FinishModule
  <2>1. UNCHANGED <<sample, at>>
    BY <1>4 DEF FinishModule
  <2>2. \A m \in Modules : m # module => summary'[m] = summary[m]
    BY <1>4 DEF FinishModule, TypeOK
  <2>3. CASE summary'[module] \notin {"completed", "completed_with_issues"}
    BY <2>1, <2>2, <2>3, FinishedKept DEF Unsettled, FailedIn
  <2>4. CASE summary'[module] \in {"completed", "completed_with_issues"}
    <3>1. summary[module] \notin {"completed", "completed_with_issues"}
      BY <1>4 DEF FinishModule, SummaryInv, Holding, Working
    <3>2. Unsettled(module) = {} /\ summary'[module] = FinalStatus(module)
      BY <1>4, <2>4, <3>1 DEF FinishModule, TypeOK
    <3>3. failed[module] > 0 <=> FailedIn(module) # {}
      <4>1. FailedIn(module) \subseteq Samples
        BY DEF FailedIn
      <4>2. IsFiniteSet(FailedIn(module)) /\ failed[module] = Cardinality(FailedIn(module))
        BY <4>1, SamplesFinite, FS_Subset DEF CountsMatch, TypeOK
      <4>3. /\ Cardinality(FailedIn(module)) \in Nat
            /\ (Cardinality(FailedIn(module)) = 0 <=> FailedIn(module) = {})
        BY <4>2, FS_CardinalityType, FS_EmptySet
      <4> QED BY <4>2, <4>3
    <3>4. UNCHANGED module
      BY <1>4 DEF FinishModule
    <3>5. Unsettled(module)' = {} /\ FailedIn(module)' = FailedIn(module)
      BY <2>1, <3>2, <3>4 DEF Unsettled, FailedIn
    <3>6. (summary'[module] = "completed_with_issues") <=> FailedIn(module) # {}
      BY <3>2, <3>3 DEF FinalStatus
    <3>7. \A m \in Modules : m # module =>
           Unsettled(m)' = Unsettled(m) /\ FailedIn(m)' = FailedIn(m)
      BY <2>1 DEF Unsettled, FailedIn
    <3> QED BY <2>2, <3>4, <3>5, <3>6, <3>7 DEF FinishedTruthful
  <2> QED BY <2>3, <2>4
<1>5. CASE CheckLease
  <2>1. /\ summary[module] \notin {"completed", "completed_with_issues"}
        /\ UNCHANGED <<at, summary>>
    BY <1>5 DEF CheckLease, FailSample, SummaryInv, Holding, Working
  <2>2. \A s \in Samples : sample'[s] = sample[s] \/ at[s] = module
    BY <1>5, OneFails DEF FailSample, TypeOK
  <2> QED BY <2>1, <2>2, FinishedKept DEF Unsettled, FailedIn
<1>6. CASE ReleaseUnstarted \/ ReturnModuleLeases
  <2>1. summary[module] \notin {"completed", "completed_with_issues"} /\ UNCHANGED summary
    BY <1>6 DEF ReleaseUnstarted, ReturnModuleLeases, SummaryInv, Holding, Working
  <2> QED BY <1>6, <2>1, OnlyWork, FinishedKept DEF Unsettled, FailedIn
<1>7. CASE SettleIssue
  <2>1. /\ summary[module] \notin {"completed", "completed_with_issues"}
        /\ UNCHANGED <<at, summary>>
    BY <1>7 DEF SettleIssue, FailSample, SummaryInv, Holding, Working
  <2>2. \A s \in Samples : sample'[s] = sample[s] \/ at[s] = module
    BY <1>7, OneFails DEF FailSample, TypeOK
  <2> QED BY <2>1, <2>2, FinishedKept DEF Unsettled, FailedIn
<1>8. CASE CommitArtifact
  <2>1. UNCHANGED <<sample, at, summary>>
    BY <1>8 DEF CommitArtifact
  <2> QED BY <2>1, FinishedKept DEF Unsettled, FailedIn
<1>9. CASE CompleteSample
  <2>1. summary[module] \notin {"completed", "completed_with_issues"}
    BY <1>9 DEF CompleteSample, SummaryInv, Holding, Working
  <2>2. \A s \in Samples : sample'[s] = sample[s] \/ at[s] = module
    <3>1. First(held) \in Samples /\ at[First(held)] = module
      BY <1>9, FirstIn, HeldAt DEF CompleteSample, TypeOK, Holding, Working, LeaseInv
    <3> QED BY <1>9, <3>1 DEF CompleteSample, TypeOK
  <2>3. UNCHANGED <<at, summary>>
    BY <1>9 DEF CompleteSample
  <2> QED BY <2>1, <2>2, <2>3, FinishedKept DEF Unsettled, FailedIn
<1>10. CASE FailModule
  <2>1. \A m \in Modules : summary'[m] = IF m = module THEN "failed" ELSE summary[m]
    BY <1>10 DEF FailModule, TypeOK
  <2> QED BY <1>10, <2>1, OnlyWork, FinishedKept DEF Unsettled, FailedIn
<1>11. CASE RecoverSample
  <2>1. PICK r \in InFlight : RecoverTakes(r)
    BY <1>11, Recovered
  <2>2. r \in Samples /\ sample[r] \in {"leased", "prepared"} /\ at[r] \in Modules
    BY <2>1 DEF InFlight, TypeOK
  <2>3. summary[at[r]] \notin {"completed", "completed_with_issues"}
    BY <2>2 DEF FinishedTruthful, Unsettled
  <2>4. UNCHANGED <<at, summary>>
    BY <1>11 DEF RecoverSample
  <2>5. \A s \in Samples : sample'[s] = sample[s] \/ at[s] = at[r]
    BY <2>1 DEF RecoverTakes, TypeOK
  <2> QED BY <2>2, <2>3, <2>4, <2>5, FinishedKept DEF Unsettled, FailedIn
<1> QED BY <1>1, <1>2, <1>3, <1>4, <1>5, <1>6, <1>7, <1>8, <1>9, <1>10, <1>11,
    QuietOr DEF IInv

-----------------------------------------------------------------------------
(* The invariants                                                          *)

\* The job starts in order, with nothing in flight.
LEMMA InitInv == ASSUME Init PROVE TypeOK /\ IInv
<1> USE ModulesAssumption, LimitsAssumption DEF Init
<1>1. 1 \in Modules /\ \A m \in Modules : m \in Int /\ ~(1 > m)
  BY DEF Modules
<1>2. TypeOK
  <2>1. update \in [to : JobStatuses, at : Modules, next : ThreadStages]
    BY <1>1 DEF NoUpdate, JobStatuses, ThreadStages
  <2>2. status \in JobStatuses /\ pc \in ThreadStages /\ resume \in JobStatuses \cup {NoStatus}
    BY DEF JobStatuses, ThreadStages
  <2>3. summary \in [Modules -> SummaryStatuses] /\ sample \in [Samples -> SampleStatuses]
    BY <1>1 DEF SummaryStatuses, ModuleStatuses, SampleStatuses
  <2>4. /\ completed \in [Modules -> Nat] /\ failed \in [Modules -> Nat]
        /\ restarts \in [Modules -> 0 .. MaxExits] /\ written \in [Samples -> 0 .. NumModules]
        /\ at \in [Samples -> Modules] /\ faults \in 0 .. MaxFaults
    BY <1>1 DEF Modules
  <2> QED BY <1>1, <2>1, <2>2, <2>3, <2>4 DEF TypeOK
<1>3. InFlight = {}
  BY DEF InFlight
<1>4. Front = 1
  BY DEF Front, Modules
<1>5. StatusInv /\ LeaseInv
  BY <1>3 DEF StatusInv, LeaseInv, Holding, Working, Entering, Launching
<1>6. PlaceInv /\ OrderInv
  BY <1>1, <1>3, <1>4 DEF PlaceInv, OrderInv, Holding, Working, Launching
<1>7. SummaryInv
  BY <1>1 DEF SummaryInv, Holding, Working, Launching
<1>8. ArtifactInv
  BY DEF ArtifactInv, ArtifactBeforeCompletion
<1>9. CountsMatch /\ FinishedTruthful
  <2>1. \A m \in Modules : DoneIn(m) = {} /\ FailedIn(m) = {}
    BY <1>1 DEF DoneIn, FailedIn
  <2>2. CountsMatch
    BY <2>1, FS_EmptySet DEF CountsMatch
  <2>3. FinishedTruthful
    BY DEF FinishedTruthful
  <2> QED BY <2>2, <2>3
<1> QED BY <1>2, <1>5, <1>6, <1>7, <1>8, <1>9 DEF IInv

\* A step that changes nothing keeps everything.
LEMMA StutterInv == ASSUME TypeOK, IInv, UNCHANGED vars PROVE TypeOK' /\ IInv'
<1> USE DEF vars, row, ledger, queue, local
<1>1. InFlight' = InFlight /\ Front' = Front
  BY DEF InFlight, Front
<1>2. TypeOK'
  BY DEF TypeOK
<1>3. StatusInv' /\ LeaseInv'
  BY <1>1 DEF IInv, StatusInv, LeaseInv, Launching
<1>4. PlaceInv' /\ OrderInv' /\ SummaryInv'
  BY <1>1 DEF IInv, PlaceInv, OrderInv, SummaryInv, Launching
<1>5. ArtifactInv'
  BY DEF IInv, ArtifactInv, ArtifactBeforeCompletion
<1>6. CountsMatch' /\ FinishedTruthful'
  BY DEF IInv, CountsMatch, FinishedTruthful, DoneIn, FailedIn, Unsettled
<1> QED BY <1>2, <1>3, <1>4, <1>5, <1>6 DEF IInv

\* The invariant is inductive.
LEMMA NextInv == ASSUME TypeOK, IInv, [Next]_vars PROVE TypeOK' /\ IInv'
<1>1. CASE Pipeline
  <2>1. TypeOK' /\ StatusInv' /\ OrderInv' /\ SummaryInv' /\ PlaceInv' /\ LeaseInv'
    BY <1>1, TypeByPipeline, StatusByPipeline, OrderByPipeline, SummaryByPipeline,
       PlaceByPipeline, LeaseByPipeline
  <2>2. ArtifactInv' /\ CountsMatch' /\ FinishedTruthful'
    BY <1>1, ArtifactStep, CountsStep, FinishedStep DEF Next
  <2> QED BY <2>1, <2>2 DEF IInv
<1>2. CASE Environment
  <2>1. TypeOK' /\ StatusInv' /\ OrderInv' /\ SummaryInv' /\ PlaceInv' /\ LeaseInv'
    BY <1>2, TypeByEnvironment, StatusByEnvironment, OrderByEnvironment,
       SummaryByEnvironment, PlaceByEnvironment, LeaseByEnvironment
  <2>2. ArtifactInv' /\ CountsMatch' /\ FinishedTruthful'
    BY <1>2, ArtifactStep, CountsStep, FinishedStep DEF Next, Environment
  <2> QED BY <2>1, <2>2 DEF IInv
<1>3. CASE UNCHANGED vars
  BY <1>3, StutterInv
<1> QED BY <1>1, <1>2, <1>3 DEF Next, Environment

\* The types and the inductive invariant hold in every reachable state.
LEMMA Invariants == Spec => [](TypeOK /\ IInv)
<1>1. Init => TypeOK /\ IInv
  BY InitInv
<1>2. TypeOK /\ IInv /\ [Next]_vars => (TypeOK /\ IInv)'
  BY NextInv
<1> QED BY <1>1, <1>2, PTL DEF Spec

\* The variables of the run keep the types their columns have in the database.
THEOREM TypeCorrect == Spec => []TypeOK
  BY Invariants, PTL

\* A job that says `running` has a thread: _launch, recover_job and the startup freeze
\* leave no way to a running row that nobody works on.
THEOREM RunningDriven == Spec => []RunningIsDriven
<1>1. IInv => RunningIsDriven
  BY DEF IInv, StatusInv, RunningIsDriven, ThreadAlive
<1> QED BY <1>1, Invariants, PTL

\* While a runner works, what is leased or prepared in the database is what it holds.
THEOREM OnlyTheRunnerHolds == Spec => []LeasesAreHeld
<1>1. IInv => LeasesAreHeld
  BY DEF IInv, LeaseInv, LeasesAreHeld, Holding
<1> QED BY <1>1, Invariants, PTL

\* A settled cancellation has nothing in flight, when it is settled and ever after.
THEOREM SettledIsQuiet == Spec => []SettledHasNoInFlight
<1>1. IInv => SettledHasNoInFlight
  BY DEF IInv, LeaseInv, SettledHasNoInFlight
<1> QED BY <1>1, Invariants, PTL

\* complete_leased_sample_and_count runs after the artifact is in the overlay.
THEOREM ArtifactsFirst == Spec => []ArtifactBeforeCompletion
<1>1. IInv => ArtifactBeforeCompletion
  BY DEF IInv, ArtifactInv
<1> QED BY <1>1, Invariants, PTL

\* The counters of the module summaries count every sample once.
THEOREM CountersAgree == Spec => []CountsMatch
<1>1. IInv => CountsMatch
  BY DEF IInv
<1> QED BY <1>1, Invariants, PTL

\* finish_module only closes modules that have drained, with the status they deserve.
THEOREM FinishedIsTrue == Spec => []FinishedTruthful
<1>1. IInv => FinishedTruthful
  BY DEF IInv
<1> QED BY <1>1, Invariants, PTL

-----------------------------------------------------------------------------
(* The samples go through the modules one by one                           *)

\* How far a sample has come stays the same while it is neither completed nor failed, and
\* when it moves, completed, to the next module.
LEMMA FlowStutters ==
  ASSUME TypeOK,
         \A s \in Samples :
           \/ UNCHANGED <<sample[s], at[s]>>
           \/ {sample[s], sample'[s]} \subseteq InWork /\ UNCHANGED at[s]
           \/ sample[s] = "completed" /\ sample'[s] = "pending" /\ at'[s] = at[s] + 1
  PROVE  [Flow!Next]_(Flow!vars)
<1>1. \A s \in Samples : at[s] \in Int
  BY ModulesAssumption DEF TypeOK, Modules
<1>2. \A s \in Samples :
        /\ (IF sample'[s] = "completed" THEN at'[s] ELSE at'[s] - 1)
             = (IF sample[s] = "completed" THEN at[s] ELSE at[s] - 1)
        /\ sample'[s] = "failed" <=> sample[s] = "failed"
  BY <1>1 DEF InWork
<1> QED BY <1>2 DEF Flow!vars

\* A sample in flight may be worked on: no other is behind it.
LEMMA FlowMayWork ==
  ASSUME TypeOK, IInv, NEW s \in InFlight
  PROVE  Flow!MayWork(s) /\ at[s] - 1 < NumModules /\ at[s] \in Int
<1>1. s \in Samples /\ sample[s] \in {"leased", "prepared"} /\ at[s] = Front
  BY DEF IInv, PlaceInv, InFlight
<1>2. \A t \in Samples : at[t] \in Int /\ at[t] - 1 < NumModules
  BY ModulesAssumption DEF TypeOK, Modules
<1>3. \A t \in Samples : sample[t] # "failed" =>
        (IF sample[t] = "completed" THEN at[t] ELSE at[t] - 1) >= Front - 1
  BY <1>1, <1>2 DEF IInv, PlaceInv
<1> QED BY <1>1, <1>2, <1>3 DEF Flow!MayWork

\* A sample in flight whose result is recorded is finished in the sense of SampleFlow.
LEMMA FlowFinishes ==
  ASSUME TypeOK, IInv, NEW s \in InFlight,
         sample' = [sample EXCEPT ![s] = "completed"], UNCHANGED at
  PROVE  [Flow!Next]_(Flow!vars)
<1>1. s \in Samples /\ sample[s] \in {"leased", "prepared"}
  BY DEF InFlight
<1>2. Flow!MayWork(s) /\ at[s] - 1 < NumModules /\ at[s] \in Int
  BY FlowMayWork
<1>3. sample'[s] = "completed" /\ \A t \in Samples : t # s => sample'[t] = sample[t]
  BY <1>1 DEF TypeOK
<1> DEFINE done == [t \in Samples |-> IF sample[t] = "completed" THEN at[t] ELSE at[t] - 1]
           given == {t \in Samples : sample[t] = "failed"}
<1>4. done' = [done EXCEPT ![s] = @ + 1]
  <2>1. done' = [t \in Samples |-> IF sample'[t] = "completed" THEN at[t] ELSE at[t] - 1]
    OBVIOUS
  <2>2. done'[s] = done[s] + 1
    BY <1>1, <1>2, <1>3, <2>1
  <2>3. \A t \in Samples : t # s => done'[t] = done[t]
    BY <1>3, <2>1
  <2> HIDE DEF done
  <2>4. done = [t \in Samples |-> done[t]]
    BY DEF done
  <2>5. done' = [t \in Samples |-> done'[t]]
    BY <2>1
  <2> QED BY <1>1, <2>2, <2>3, <2>4, <2>5
<1>5. given' = given
  BY <1>1, <1>3
<1>6. done[s] < NumModules
  BY <1>1, <1>2
<1>7. Flow!Finish(s)
  BY <1>2, <1>4, <1>5, <1>6 DEF Flow!Finish
<1> QED BY <1>1, <1>7 DEF Flow!Next

\* A sample in flight that fails is given up in the sense of SampleFlow.
LEMMA FlowGivesUp ==
  ASSUME TypeOK, IInv, NEW s \in InFlight,
         sample' = [sample EXCEPT ![s] = "failed"], UNCHANGED at
  PROVE  [Flow!Next]_(Flow!vars)
<1>1. s \in Samples /\ sample[s] \in {"leased", "prepared"}
  BY DEF InFlight
<1>2. Flow!MayWork(s) /\ at[s] - 1 < NumModules /\ at[s] \in Int
  BY FlowMayWork
<1>3. sample'[s] = "failed" /\ \A t \in Samples : t # s => sample'[t] = sample[t]
  BY <1>1 DEF TypeOK
<1>4. Flow!GiveUp(s)
  BY <1>1, <1>2, <1>3 DEF Flow!GiveUp
<1> QED BY <1>1, <1>4 DEF Flow!Next

\* Every step finishes a sample, gives one up, or is none of SampleFlow's business.
LEMMA FlowStep == ASSUME TypeOK, IInv, Next PROVE [Flow!Next]_(Flow!vars)
<1> USE DEF IInv, row, ledger, queue, local
<1>1. CASE Quiet
  BY <1>1, FlowStutters DEF Quiet
<1>2. CASE ResetPage
  <2>1. PICK page \in SUBSET Samples : PageMoves(page)
    BY <1>2, Moved
  <2>2. module \in Int
    BY <1>2, Moved
  <2> QED BY <2>1, <2>2, FlowStutters DEF PageMoves
<1>3. CASE Claim \/ ReleaseUnstarted \/ StageArtifact \/ FailModule \/ ReturnModuleLeases
  BY <1>3, OnlyWork, FlowStutters DEF InWork
<1>4. CASE FinishModule \/ CommitArtifact
  <2>1. UNCHANGED <<sample, at>>
    BY <1>4 DEF FinishModule, CommitArtifact
  <2> QED BY <2>1, FlowStutters
<1>5. CASE CheckLease
  <2>1. CASE UNCHANGED <<queue, completed, failed>>
    BY <2>1, FlowStutters
  <2>2. CASE ~UNCHANGED <<queue, completed, failed>>
    BY <1>5, <2>2, OneFails, FlowGivesUp DEF FailSample
  <2> QED BY <2>1, <2>2
<1>6. CASE SettleIssue
  <2>1. CASE UNCHANGED <<queue, completed, failed>>
    BY <2>1, FlowStutters
  <2>2. CASE ~UNCHANGED <<queue, completed, failed>>
    BY <1>6, <2>2, OneFails, FlowGivesUp DEF FailSample
  <2> QED BY <2>1, <2>2
<1>7. CASE CompleteSample
  <2>1. First(held) \in InFlight
    BY <1>7, FirstIn DEF CompleteSample, TypeOK, LeaseInv, Holding, Working
  <2>2. sample' = [sample EXCEPT ![First(held)] = "completed"] /\ UNCHANGED at
    BY <1>7 DEF CompleteSample
  <2> QED BY <2>1, <2>2, FlowFinishes
<1>8. CASE RecoverSample
  <2>1. PICK r \in InFlight : RecoverTakes(r)
    BY <1>8, Recovered
  <2>2. CASE sample' = [sample EXCEPT ![r] = "completed"]
    BY <2>1, <2>2, FlowFinishes DEF RecoverTakes
  <2>3. CASE sample' = [sample EXCEPT ![r] = "pending"]
    <3>1. \A s \in Samples :
            sample'[s] = sample[s] \/ {sample[s], sample'[s]} \subseteq InWork
      BY <2>3 DEF InFlight, TypeOK, InWork
    <3> QED BY <2>1, <3>1, FlowStutters DEF RecoverTakes
  <2> QED BY <2>1, <2>2, <2>3 DEF RecoverTakes
<1> QED BY <1>1, <1>2, <1>3, <1>4, <1>5, <1>6, <1>7, <1>8, QuietOr DEF IInv

\* The job implements SampleFlow: a sample is finished or given up once in each module,
\* and none enters a module while another has work in the one before.
THEOREM RunImplementsFlow == Spec => FlowSpec
<1>1. Init => Flow!Init
  BY DEF Init, Flow!Init
<1>2. TypeOK /\ IInv /\ [Next]_vars => [Flow!Next]_(Flow!vars)
  <2>1. ASSUME TypeOK, UNCHANGED vars PROVE [Flow!Next]_(Flow!vars)
    BY <2>1, FlowStutters DEF vars, queue
  <2> QED BY <2>1, FlowStep
<1> QED BY <1>1, <1>2, Invariants, PTL DEF Spec, Flow!Spec, FlowSpec
=============================================================================

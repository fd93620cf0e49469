------------------------------- MODULE OcrRun -------------------------------
(***************************************************************************)
(* The OCR module of one job.  The job is bound to one runtime (the CPU or *)
(* the GPU build of the worker) and one detection limit the first time a   *)
(* worker says hello; every later thread, restart of the worker, recovery  *)
(* and repair child has to work under that binding.  The runner leases a   *)
(* batch, reuses the sidecars that an earlier job left in the dataset,     *)
(* sends the rest of the batch to the worker in one exchange and commits   *)
(* the sidecars one by one.                                                *)
(*                                                                         *)
(* The machine may change at any moment: a card disappears or is replaced, *)
(* a runtime is reinstalled.  The binding, the sidecars and the database   *)
(* survive a crash.  The runner treats a cancelled job as it treats a      *)
(* paused one, so only the pause is here (ModuleRun has both); the images  *)
(* do not change, which the recovery verifies.                             *)
(***************************************************************************)
EXTENDS Integers, FiniteSets

CONSTANTS
  NumSamples,
  BatchSize,       \* moduleBatchSize.ocr: 1 to 1024
  HeartbeatLimit,  \* leases one heartbeat accepts: 1000
  TextSize,        \* size of the outcome of an image with text, where a failure has 1
  PayloadLimit,    \* the outcomes after this size are made failures: 1 000 000 bytes
  FrameLimit,      \* the worker refuses to send a larger answer: 1 MiB
  Devices,         \* what the frozen configuration asks for: auto, cuda, cpu
  Limits,          \* requested detection limits: Automatic or a number
  Cards,           \* GiB of the cards the machine may have; 0 is no card
  Parents,         \* NoParent, Unbound, or the binding of the parent job
  Leftovers,       \* sidecars of earlier jobs in the dataset, or None
  RestartLimit,    \* exits of the worker a module survives (2 in the code)
  MaxFaults,       \* crashes, errors and exits of a behaviour
  MaxChanges,      \* changes of the machine of a behaviour
  MaxPauses        \* pauses of a behaviour

ASSUME SizesAssumption ==
  /\ TextSize \in Nat /\ TextSize > 1 /\ PayloadLimit \in Nat /\ FrameLimit \in Nat
  /\ NumSamples \in Nat /\ BatchSize \in Nat \ {0} /\ HeartbeatLimit \in Nat
  /\ RestartLimit \in Nat /\ MaxFaults \in Nat /\ MaxChanges \in Nat /\ MaxPauses \in Nat

Samples == 1 .. NumSamples
None == << >>
NoParent == << >>
Unbound == [runtime |-> "none"]
Automatic == 0

VARIABLES
  device, request, force,  \* the frozen configuration and the execution request
  parent,                  \* the parent of a repair job, by its binding file
  dataset,                 \* the sidecars of earlier jobs
  machine,                 \* [card, build]: what the computer has now
  binding,                 \* ocr-runtime-binding-v1.json of this job
  job,                     \* jobs.status, while the OCR module is current
  sample,                  \* sample_state.status
  prepared, staged,        \* prepared\ocr\<lease>.json, and the digest of the row
  overlay,                 \* ocr_annotations of the overlay
  issues, completed,       \* open OCR issues; module_summary.completed
  exits,                   \* module_summary.worker_restart_count
  pc, selection, limit,    \* the thread, the runtime it chose, the limit it uses
  worker,                  \* what its running worker is: build and card it really has
  held, todo, work, reply, \* active leases; unexamined; for the worker; its answer
  faults, changes, pauses

frozen == <<device, request, force, parent, dataset>>
files == <<prepared, staged, overlay>>
ledger == <<issues, completed>>
batch == <<held, todo, work, reply>>
bounds == <<faults, changes, pauses>>
vars == <<frozen, machine, binding, job, sample, files, ledger, exits, pc, selection, limit, worker,
          batch, bounds>>

NoReply == [s \in {} |-> None]

TypeOK ==
  /\ job \in {"running", "paused", "interrupted", "failed", "done"}
  /\ sample \in [Samples -> {"pending", "leased", "prepared", "completed"}]
  /\ held \subseteq Samples /\ todo \subseteq held /\ work \subseteq held
  /\ DOMAIN reply \subseteq Samples
  /\ issues \subseteq Samples /\ completed \in Nat /\ exits \in Nat
  /\ pc \in {"idle", "start", "hello", "poll", "claim", "check", "commit", "complete",
             "request", "exchange", "settle", "finish", "recover"}

Init ==
  /\ device \in Devices /\ request \in Limits /\ force \in BOOLEAN
  /\ parent \in Parents /\ dataset \in [Samples -> Leftovers]
  /\ machine \in [card : Cards, build : {1}]
  /\ binding = None
  /\ job = "running" /\ pc = "start"
  /\ sample = [s \in Samples |-> "pending"]
  /\ prepared = [s \in Samples |-> None] /\ staged = [s \in Samples |-> None]
  /\ overlay = [s \in Samples |-> None]
  /\ issues = {} /\ completed = 0 /\ exits = 0
  /\ selection = None /\ limit = 0 /\ worker = None
  /\ held = {} /\ todo = {} /\ work = {} /\ reply = NoReply
  /\ faults = 0 /\ changes = 0 /\ pauses = 0

InFlight == {s \in Samples : sample[s] \in {"leased", "prepared"}}
Pending == {s \in Samples : sample[s] = "pending"}
First(S) == CHOOSE s \in S : \A t \in S : s <= t
Lowest(S, n) == {s \in S : Cardinality({t \in S : t <= s}) <= n}

-----------------------------------------------------------------------------
(* How a thread or a module ends. *)

Drop == held' = {} /\ todo' = {} /\ work' = {} /\ reply' = NoReply
NoThread == pc' = "idle" /\ selection' = None /\ limit' = 0 /\ worker' = None /\ Drop

\* return_lease_to_pending and return_module_leases, for the samples of S.
Returned(S) ==
  /\ sample' = [s \in Samples |-> IF s \in S THEN "pending" ELSE sample[s]]
  /\ prepared' = [s \in Samples |-> IF s \in S THEN None ELSE prepared[s]]
  /\ staged' = [s \in Samples |-> IF s \in S THEN None ELSE staged[s]]
  /\ UNCHANGED overlay

\* The end of the thread: a fatal error gives the leases back and fails the job,
\* any other error fails the job where it is, a pause gives the leases back.
Fatal == Returned(held) /\ job' = "failed" /\ NoThread
Error == job' = "failed" /\ NoThread /\ UNCHANGED <<sample, files>>
Yield == Returned(held) /\ NoThread /\ UNCHANGED job

\* An unexpected error of the database or the disk, anywhere in the thread.
Unexpected ==
  /\ pc \notin {"idle", "recover"} /\ faults < MaxFaults
  /\ faults' = faults + 1
  /\ Error
  /\ UNCHANGED <<frozen, machine, binding, ledger, exits, changes, pauses>>

-----------------------------------------------------------------------------
(* The runtime and its binding. *)

RecommendedLimit(runtime, card) ==
  IF runtime = "gpu" /\ card >= 12 THEN (IF card < 24 THEN 2304 ELSE 2560) ELSE 1920

EffectiveLimit(runtime, card) ==
  IF request = Automatic THEN RecommendedLimit(runtime, card) ELSE request

\* The runtime, its build and its card of a binding.
Machine(b) == [runtime |-> b.runtime, build |-> b.build, card |-> b.card]

\* The runtime by the binding b, or by the device and the card of the moment.
Selected(b) ==
  IF b # None THEN Machine(b)
  ELSE IF device # "cpu" /\ machine.card > 0
       THEN [runtime |-> "gpu", build |-> machine.build, card |-> machine.card]
       ELSE [runtime |-> "cpu", build |-> machine.build, card |-> 0]

\* _ocr_binding_path copies the parent's binding, _select_ocr_runtime follows;
\* the limit is that of the binding or a first recommendation.
Start ==
  /\ pc = "start"
  /\ LET b == IF parent \in {NoParent, Unbound} THEN binding ELSE parent
         chosen == Selected(b) IN
     IF \/ parent = Unbound
        \/ b = None /\ device = "cuda" /\ machine.card = 0
     THEN Error /\ UNCHANGED binding
     ELSE /\ binding' = b
          /\ selection' = chosen
          /\ limit' = IF b # None THEN b.limit ELSE EffectiveLimit(chosen.runtime, chosen.card)
          /\ pc' = "hello"
          /\ UNCHANGED <<job, sample, files, worker, batch>>
  /\ UNCHANGED <<frozen, machine, ledger, exits, bounds>>

\* What the worker finds when it starts, for the runtime it was started with.
Evidence ==
  [runtime |-> selection.runtime, build |-> machine.build,
   card |-> IF selection.runtime = "gpu" THEN machine.card ELSE 0]

\* The worker answers only under the runtime it was asked for ...
WorkerAccepts ==
  /\ Evidence.build = selection.build
  /\ selection.runtime = "gpu" => Evidence.card > 0

\* Mutant of HelloMatches: the evidence is not compared with the binding.
HelloMatchesAnyCard ==
  \/ binding # None
  \/ RecommendedLimit(selection.runtime, Evidence.card)
       = RecommendedLimit(selection.runtime, selection.card)

\* ... and the runner compares its evidence with the binding, or with its selection.
HelloMatches ==
  IF binding # None
  THEN Evidence = Machine(binding)
  ELSE RecommendedLimit(selection.runtime, Evidence.card)
         = RecommendedLimit(selection.runtime, selection.card)

Hello ==
  /\ pc = "hello"
  /\ IF WorkerAccepts /\ HelloMatches
     THEN LET b == IF binding # None THEN binding
                   ELSE [runtime |-> Evidence.runtime, build |-> Evidence.build,
                         card |-> Evidence.card,
                         limit |-> EffectiveLimit(Evidence.runtime, Evidence.card)] IN
          /\ binding' = b /\ limit' = b.limit
          /\ worker' = Evidence
          /\ pc' = "poll"
          /\ UNCHANGED <<job, sample, files, selection, batch>>
     ELSE Fatal /\ UNCHANGED binding
  /\ UNCHANGED <<frozen, machine, ledger, exits, bounds>>

-----------------------------------------------------------------------------
(* The worker goes away: the CPU worker is started again, twice at most. *)

\* Mutant of ExitReturns: the dead worker keeps its leases.
ExitReturnsNothing == UNCHANGED <<sample, files>>

ExitReturns == Returned({s \in Samples : sample[s] = "leased"})

WorkerExits ==
  /\ pc \in {"hello", "exchange"} /\ faults < MaxFaults
  /\ faults' = faults + 1
  /\ \/ /\ selection.runtime = "gpu"
        /\ Fatal
        /\ UNCHANGED exits
     \/ /\ selection.runtime = "cpu" /\ job = "paused"
        /\ Error
        /\ UNCHANGED exits
     \/ /\ selection.runtime = "cpu" /\ job = "running"
        /\ exits' = exits + 1
        /\ IF exits < RestartLimit
           THEN /\ ExitReturns /\ Drop
                /\ pc' = "start" /\ selection' = None /\ limit' = 0 /\ worker' = None
                /\ UNCHANGED job
           ELSE Error
  /\ UNCHANGED <<frozen, machine, binding, ledger, changes, pauses>>

\* The worker answers with an error, or with a result that does not validate.
WorkerRefuses ==
  /\ pc \in {"hello", "exchange"} /\ faults < MaxFaults
  /\ faults' = faults + 1
  /\ Fatal
  /\ UNCHANGED <<frozen, machine, binding, ledger, exits, changes, pauses>>

-----------------------------------------------------------------------------
(* The loop of the runner. *)

Poll ==
  /\ pc = "poll"
  /\ IF job = "paused" THEN Yield
     ELSE pc' = "claim" /\ UNCHANGED <<job, sample, files, selection, limit, worker, batch>>
  /\ UNCHANGED <<frozen, machine, binding, ledger, exits, bounds>>

\* claim_batch finds nothing when the job has been paused since: with samples
\* left that is a fatal error.
Claim ==
  /\ pc = "claim"
  /\ LET claimed == IF job = "running" /\ Cardinality(InFlight) < BatchSize
                    THEN Lowest(Pending, BatchSize - Cardinality(InFlight)) ELSE {} IN
     \/ /\ claimed # {}
        /\ sample' = [s \in Samples |-> IF s \in claimed THEN "leased" ELSE sample[s]]
        /\ held' = claimed /\ todo' = claimed
        /\ pc' = "check"
        /\ UNCHANGED <<job, files, selection, limit, worker, work, reply>>
     \/ /\ claimed = {} /\ Pending \cup InFlight = {}
        /\ pc' = "finish"
        /\ UNCHANGED <<job, sample, files, selection, limit, worker, batch>>
     \/ /\ claimed = {} /\ Pending \cup InFlight # {}
        /\ Fatal
  /\ UNCHANGED <<frozen, machine, binding, ledger, exits, bounds>>

\* finish_module leaves a paused module as it is.
Finish ==
  /\ pc = "finish"
  /\ NoThread
  /\ job' = IF job = "running" THEN "done" ELSE job
  /\ UNCHANGED <<frozen, machine, binding, sample, files, ledger, exits, bounds>>

\* is_reusable: a sound sidecar of this image, resource and detection limit.
Reusable(s) ==
  /\ ~force
  /\ dataset[s] # None
  /\ dataset[s].status = "text" /\ dataset[s].fresh /\ dataset[s].limit = limit

\* A reused sidecar does not say what made it.
Earlier == [runtime |-> "earlier", build |-> 0, card |-> 0]

\* write_ocr_prepared and stage_prepared.
Stage(s, sidecar) ==
  /\ prepared' = [prepared EXCEPT ![s] = sidecar]
  /\ staged' = [staged EXCEPT ![s] = sidecar]
  /\ sample' = [sample EXCEPT ![s] = "prepared"]
  /\ pc' = "commit"
  /\ UNCHANGED overlay

\* The next stage of the batch: a lease to examine, the exchange, its results.
Onward(unexamined, unsent, answer) ==
  IF unexamined # {} THEN "check"
  ELSE IF unsent = {} THEN "poll"
  ELSE IF answer = NoReply THEN "request" ELSE "settle"

Check ==
  /\ pc = "check"
  /\ LET s == First(todo) IN
     \/ /\ job = "paused"
        /\ Yield
     \/ /\ job = "running" /\ Reusable(s)
        /\ Stage(s, [status |-> "text", limit |-> dataset[s].limit, on |-> Earlier])
        /\ todo' = todo \ {s}
        /\ UNCHANGED <<job, selection, limit, worker, held, work, reply>>
     \/ /\ job = "running" /\ ~Reusable(s)
        /\ todo' = todo \ {s} /\ work' = work \cup {s}
        /\ pc' = Onward(todo', work', reply)
        /\ UNCHANGED <<job, sample, files, selection, limit, worker, held, reply>>
  /\ UNCHANGED <<frozen, machine, binding, ledger, exits, bounds>>

\* One more look at the job, then the heartbeat of all active leases, which
\* refuses a longer list with an error that nobody handles.
Request ==
  /\ pc = "request"
  /\ \/ /\ job = "paused"
        /\ Yield
     \/ /\ job = "running" /\ Cardinality(held) > HeartbeatLimit
        /\ Error
     \/ /\ job = "running" /\ Cardinality(held) <= HeartbeatLimit
        /\ pc' = "exchange"
        /\ UNCHANGED <<job, sample, files, selection, limit, worker, batch>>
  /\ UNCHANGED <<frozen, machine, binding, ledger, exits, bounds>>

\* process_batch gives an outcome for every image.  An outcome that would make
\* the answer too large becomes a failure, which takes room as well.
Answered(raw) ==
  LET Total[n \in 0 .. NumSamples] ==
        IF n = 0 THEN 0
        ELSE IF n \notin work THEN Total[n - 1]
        ELSE IF raw[n] = "text" /\ Total[n - 1] + TextSize <= PayloadLimit
             THEN Total[n - 1] + TextSize
             ELSE Total[n - 1] + 1
  IN [size |-> Total[NumSamples],
      outcomes |-> [s \in work |-> IF Total[s] = Total[s - 1] + TextSize THEN raw[s] ELSE "failed"]]

Exchange ==
  /\ pc = "exchange"
  /\ \E raw \in [work -> {"text", "failed"}] :
       IF Answered(raw).size <= FrameLimit
       THEN /\ reply' = Answered(raw).outcomes
            /\ pc' = "settle"
            /\ UNCHANGED <<job, sample, files, selection, limit, worker, held, todo, work>>
       ELSE Fatal
  /\ UNCHANGED <<frozen, machine, binding, ledger, exits, bounds>>

Settle ==
  /\ pc = "settle"
  /\ LET s == First(work) IN
     /\ Stage(s, [status |-> reply[s], limit |-> limit, on |-> worker])
     /\ work' = work \ {s}
  /\ UNCHANGED <<frozen, machine, binding, job, ledger, exits, selection, limit, worker, held, todo,
                 reply, bounds>>

\* commit_ocr_prepared renames the prepared file over the sidecar.
CommitFile(s) ==
  /\ overlay' = [overlay EXCEPT ![s] = prepared[s]]
  /\ prepared' = [prepared EXCEPT ![s] = None]
  /\ UNCHANGED staged

Commit ==
  /\ pc = "commit"
  /\ \E s \in held : sample[s] = "prepared" /\ CommitFile(s)
  /\ pc' = "complete"
  /\ UNCHANGED <<frozen, machine, binding, job, sample, ledger, exits, selection, limit, worker, batch,
                 bounds>>

\* complete, or the completion with an issue of a failed sidecar: one transaction.
CompleteWith(s, sidecar) ==
  /\ sample' = [sample EXCEPT ![s] = "completed"]
  /\ completed' = completed + 1
  /\ issues' = IF sidecar.status = "failed" THEN issues \cup {s} ELSE issues

Complete ==
  /\ pc = "complete"
  /\ \E s \in held :
       /\ sample[s] = "prepared"
       /\ CompleteWith(s, overlay[s])
       /\ staged' = [staged EXCEPT ![s] = None]
       /\ held' = held \ {s}
       /\ reply' = IF work = {} THEN NoReply ELSE reply
       /\ pc' = Onward(todo, work, reply')
  /\ UNCHANGED <<frozen, machine, binding, job, prepared, overlay, exits, selection, limit, worker, todo,
                 work, bounds>>

-----------------------------------------------------------------------------
(* The user, the machine and the crash. *)

Pause ==
  /\ job = "running" /\ pc # "idle" /\ pauses < MaxPauses
  /\ job' = "paused" /\ pauses' = pauses + 1
  /\ UNCHANGED <<frozen, machine, binding, sample, files, ledger, exits, pc, selection, limit, worker,
                 batch, faults, changes>>

Resume ==
  /\ job = "paused" /\ pc = "idle"
  /\ job' = "running" /\ pc' = "start"
  /\ UNCHANGED <<frozen, machine, binding, sample, files, ledger, exits, selection, limit, worker,
                 batch, bounds>>

ChangeMachine ==
  /\ changes < MaxChanges /\ changes' = changes + 1
  /\ machine' \in [card : Cards, build : {1, 2}] \ {machine}
  /\ UNCHANGED <<frozen, binding, job, sample, files, ledger, exits, pc, selection, limit, worker,
                 batch, faults, pauses>>

\* A crash and the startup that freezes the job.
Crash ==
  /\ job \in {"running", "paused", "interrupted"} /\ faults < MaxFaults
  /\ pc # "idle"
  /\ faults' = faults + 1
  /\ job' = "interrupted" /\ NoThread
  /\ UNCHANGED <<frozen, machine, binding, sample, files, ledger, exits, changes, pauses>>

Recover ==
  /\ job = "interrupted" /\ pc = "idle"
  /\ pc' = "recover"
  /\ UNCHANGED <<frozen, machine, binding, job, sample, files, ledger, exits, selection, limit, worker,
                 batch, bounds>>

\* Mutant of RecoverPrepared: a failed sidecar completes without its issue.
RecoverPreparedSilently(s) ==
  LET sidecar == IF overlay[s] # None THEN overlay[s] ELSE prepared[s] IN
  /\ overlay[s] # None => overlay[s] = staged[s]
  /\ overlay' = [overlay EXCEPT ![s] = sidecar]
  /\ prepared' = [prepared EXCEPT ![s] = None]
  /\ staged' = [staged EXCEPT ![s] = None]
  /\ CompleteWith(s, [sidecar EXCEPT !.status = "text"])

\* What _recover_ocr_prepared answers: settled by it, or left to the scheduler.
RecoverPrepared(s) ==
  LET sidecar == IF overlay[s] # None THEN overlay[s] ELSE prepared[s] IN
  /\ overlay[s] # None => overlay[s] = staged[s]
  /\ overlay' = [overlay EXCEPT ![s] = sidecar]
  /\ prepared' = [prepared EXCEPT ![s] = None]
  /\ staged' = [staged EXCEPT ![s] = None]
  /\ CompleteWith(s, sidecar)

RecoverSample ==
  /\ pc = "recover" /\ InFlight # {}
  /\ LET s == First(InFlight) IN
     \/ sample[s] = "leased" /\ Returned({s}) /\ UNCHANGED ledger
     \/ sample[s] = "prepared" /\ RecoverPrepared(s)
  /\ UNCHANGED <<frozen, machine, binding, job, exits, pc, selection, limit, worker, batch, bounds>>

\* The job runs again, in a new thread.
Recovered ==
  /\ pc = "recover" /\ InFlight = {}
  /\ job' = "running" /\ pc' = "start"
  /\ UNCHANGED <<frozen, machine, binding, sample, files, ledger, exits, selection, limit, worker,
                 batch, bounds>>

-----------------------------------------------------------------------------
Next ==
  \/ Start \/ Hello \/ WorkerExits \/ WorkerRefuses \/ Unexpected
  \/ Poll \/ Claim \/ Finish \/ Check \/ Request \/ Exchange \/ Settle \/ Commit \/ Complete
  \/ Pause \/ Resume \/ ChangeMachine \/ Crash \/ Recover \/ RecoverSample \/ Recovered

Spec == Init /\ [][Next]_vars

-----------------------------------------------------------------------------
\* Every sidecar of the job was made under its one binding, whatever happened to the
\* machine, the worker and the backend between two samples: the worker that made it really
\* had the binding's runtime, build and card (the hello evidence of ocr_runner.py's
\* _v7_binding), with the binding's detection limit; a reused sidecar has the same limit,
\* and the binding of a repair job is its parent's.
OneRuntime ==
  /\ \A s \in Samples : overlay[s] # None =>
       /\ binding # None
       /\ overlay[s].limit = binding.limit
       /\ overlay[s].on \in {Earlier, Machine(binding)}
  /\ (binding # None /\ parent # NoParent) => binding = parent

\* A sample counts as completed once, when the overlay holds its sidecar, and it
\* has an open issue exactly when that sidecar says that the recognition failed,
\* also when the recovery had to complete it.
OutcomeReported ==
  /\ completed = Cardinality({s \in Samples : sample[s] = "completed"})
  /\ \A s \in Samples :
       /\ sample[s] = "completed" => overlay[s] # None
       /\ s \in issues <=> sample[s] = "completed" /\ overlay[s].status = "failed"

\* A runner at the head of its loop finds no sample in flight: what a pause, an
\* exit of the worker or a crash left leased was given back, so nothing blocks
\* the claims of the new runner, and nothing is processed twice.
NoOrphanLease ==
  pc \in {"start", "hello", "poll", "claim"} => InFlight = {}

\* A job that nobody disturbs never fails: a batch of any size and content that
\* the configuration allows passes the heartbeat and the frame of the answer.
UndisturbedJobRuns == faults + changes + pauses = 0 => job # "failed"
=============================================================================

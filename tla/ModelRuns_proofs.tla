--------------------------- MODULE ModelRuns_proofs ---------------------------
(***************************************************************************)
(* Proofs about OcrRun, for every number of samples, size of batches,      *)
(* machine, leftover sidecars and number of faults: the job keeps to one   *)
(* runtime, every outcome is reported once, and no lease is left behind.   *)
(* And about NlRequests, for every number of samples, budget and number of *)
(* crashes: the request of unknown outcome, the budget and the answer that *)
(* was paid for are kept.                                                  *)
(***************************************************************************)
EXTENDS MCModelRuns, FiniteSetTheorems, WellFoundedInduction, TLAPS

-----------------------------------------------------------------------------
(* The inductive invariant                                                 *)

\* The stages in which the samples in flight are leases of the runner.
Leasing == {"check", "request", "exchange", "settle"}

\* The files of the samples are functions.
FilesInv ==
  /\ prepared = [s \in Samples |-> prepared[s]]
  /\ staged = [s \in Samples |-> staged[s]]
  /\ overlay = [s \in Samples |-> overlay[s]]

\* The samples in flight are those of the batch, and each is where the loop left it.
LeaseInv ==
  /\ NoOrphanLease
  /\ pc = "finish" \/ (job = "paused" /\ pc = "idle") => InFlight = {}
  /\ pc \notin Leasing \cup {"commit", "complete"} => held = {}
  /\ pc \in Leasing \cup {"commit", "complete"} => InFlight = held /\ todo \cap work = {}
  /\ pc \in Leasing => held = todo \cup work /\ \A s \in held : sample[s] = "leased"
  /\ pc = "check" => todo # {}
  /\ pc \in {"request", "exchange", "settle"} => work # {}
  /\ pc \in {"commit", "complete"} =>
       \E p \in held :
         /\ sample[p] = "prepared" /\ p \notin todo \cup work
         /\ \A s \in held \ {p} : sample[s] = "leased" /\ s \in todo \cup work

\* A sidecar made under the binding.
Made(sidecar) ==
  sidecar # None =>
    /\ binding # None
    /\ sidecar.limit = binding.limit
    /\ sidecar.on \in {Earlier, Machine(binding)}

\* What the thread works with comes from the binding, once there is one.
BindingInv ==
  /\ \A s \in Samples : Made(overlay[s]) /\ Made(prepared[s])
  /\ binding # None /\ parent # NoParent => binding = parent
  /\ pc = "hello" /\ parent # NoParent => binding = parent
  /\ pc \in Leasing \cup {"poll", "claim", "commit", "complete"} =>
       binding # None /\ limit = binding.limit /\ worker = Machine(binding)

\* A prepared sample has its sidecar, where the thread or the recovery looks for it.
SidecarInv ==
  /\ \A s \in Samples : sample[s] = "prepared" => overlay[s] # None \/ prepared[s] # None
  /\ pc = "commit" => \A s \in held : sample[s] = "prepared" => prepared[s] # None
  /\ pc = "complete" => \A s \in held : sample[s] = "prepared" => overlay[s] # None

IInv == FilesInv /\ LeaseInv /\ BindingInv /\ SidecarInv /\ OutcomeReported

-----------------------------------------------------------------------------
(* Samples                                                                 *)

Below == {p \in Nat \X Nat : p[1] < p[2]}

\* A nonempty set of naturals has a least element.
LEMMA Least == ASSUME NEW S \in SUBSET Nat, S # {} PROVE \E x \in S : \A y \in S : x <= y
<1>1. IsWellFoundedOn(Below, Nat)
  <2>1. Below = OpToRel(<, Nat)
    BY DEF OpToRel, Below
  <2> QED BY <2>1, NatLessThanWellFounded
<1>2. PICK x \in S : \A y \in S : ~(<<y, x>> \in Below)
  BY <1>1, WFMin
<1>3. ASSUME NEW y \in S PROVE x <= y
  <2>1. x \in Nat /\ y \in Nat
    OBVIOUS
  <2>2. ~(<<y, x>> \in Below)
    BY <1>2
  <2>3. ~(y < x)
    BY <2>1, <2>2 DEF Below
  <2> QED BY <2>1, <2>3
<1> QED BY <1>3

\* The next sample of a set is one of the set.
LEMMA FirstIn == ASSUME NEW S \in SUBSET Samples, S # {} PROVE First(S) \in S
<1>1. S \in SUBSET Nat
  BY SizesAssumption DEF Samples
<1>2. PICK x \in S : \A y \in S : x <= y
  BY <1>1, Least
<1> QED BY <1>2 DEF First

\* A set of samples grows by one with every new member.
LEMMA OneMore ==
  ASSUME NEW S \in SUBSET Samples, NEW s \in Samples, s \notin S
  PROVE  /\ Cardinality(S) \in Nat
         /\ Cardinality(S \cup {s}) = Cardinality(S) + 1
<1>1. 1 \in Int /\ NumSamples \in Int
  BY SizesAssumption
<1>2. IsFiniteSet(S)
  BY <1>1, FS_Interval, FS_Subset DEF Samples
<1> QED BY <1>2, FS_AddElement, FS_CardinalityType

\* A sidecar that is made is not None.
LEMMA SidecarIsSome ==
  ASSUME NEW a, NEW b, NEW c PROVE [status |-> a, limit |-> b, on |-> c] # None
<1>1. "limit" \in DOMAIN [status |-> a, limit |-> b, on |-> c]
  OBVIOUS
<1>2. DOMAIN << >> = {}
  OBVIOUS
<1> QED BY <1>1, <1>2 DEF None

\* Nor is a binding.
LEMMA BindingIsSome ==
  ASSUME NEW a, NEW b, NEW c, NEW d
  PROVE  [runtime |-> a, build |-> b, card |-> c, limit |-> d] # None
<1>1. "limit" \in DOMAIN [runtime |-> a, build |-> b, card |-> c, limit |-> d]
  OBVIOUS
<1>2. DOMAIN << >> = {}
  OBVIOUS
<1> QED BY <1>1, <1>2 DEF None

\* An answer has an outcome for each image of the batch.
LEMMA AnswerOfBatch ==
  ASSUME NEW raw PROVE DOMAIN Answered(raw).outcomes = work
  BY DEF Answered

-----------------------------------------------------------------------------
(* The type of the state                                                   *)

\* Where the next stage of a batch may be.
LEMMA OnwardIs ==
  ASSUME NEW unexamined, NEW unsent, NEW answer
  PROVE  /\ Onward(unexamined, unsent, answer) \in {"check", "poll", "request", "settle"}
         /\ Onward(unexamined, unsent, answer) = "check" => unexamined # {}
         /\ Onward(unexamined, unsent, answer) = "poll" => unexamined = {} /\ unsent = {}
         /\ Onward(unexamined, unsent, answer) \in {"request", "settle"} => unsent # {}
  BY DEF Onward

\* A claim leases pending samples for a runner that has none, ends the module or the job.
LEMMA ClaimIs ==
  ASSUME TypeOK, LeaseInv, Claim
  PROVE  \/ \E claimed \in SUBSET Samples :
              /\ claimed # {} /\ \A s \in claimed : sample[s] = "pending"
              /\ sample' = [s \in Samples |-> IF s \in claimed THEN "leased" ELSE sample[s]]
              /\ held' = claimed /\ todo' = claimed /\ work' = {} /\ pc' = "check"
              /\ UNCHANGED <<job, files, selection, limit, worker, reply>>
         \/ pc' = "finish" /\ UNCHANGED <<job, sample, files, selection, limit, worker, batch>>
         \/ Fatal
<1> DEFINE claimed == IF job = "running" /\ Cardinality(InFlight) < BatchSize
                      THEN Lowest(Pending, BatchSize - Cardinality(InFlight)) ELSE {}
<1>1. claimed \in SUBSET Samples /\ \A s \in claimed : sample[s] = "pending"
  BY DEF Lowest, Pending
<1>2. work = {}
  BY DEF Claim, LeaseInv, Leasing, TypeOK
<1>3. \/ /\ claimed # {}
         /\ sample' = [s \in Samples |-> IF s \in claimed THEN "leased" ELSE sample[s]]
         /\ held' = claimed /\ todo' = claimed
         /\ pc' = "check"
         /\ UNCHANGED <<job, files, selection, limit, worker, work, reply>>
      \/ pc' = "finish" /\ UNCHANGED <<job, sample, files, selection, limit, worker, batch>>
      \/ Fatal
  BY DEF Claim
<1> HIDE DEF claimed
<1> QED BY <1>1, <1>2, <1>3

\* Every step keeps the types.
LEMMA TypeStep == ASSUME TypeOK, IInv, Next PROVE TypeOK'
<1> USE DEF frozen, files, ledger, batch, bounds
<1>0. DOMAIN NoReply = {}
  BY DEF NoReply
<1>1. CASE Start \/ Hello \/ WorkerExits \/ WorkerRefuses \/ Unexpected
  BY <1>0, <1>1
  DEF Start, Hello, WorkerExits, WorkerRefuses, Unexpected, Fatal, Error, Returned, ExitReturns,
      NoThread, Drop, TypeOK
<1>2. CASE Poll \/ Finish \/ Request \/ Crash
  BY <1>0, <1>2
  DEF Poll, Finish, Request, Crash, Yield, Fatal, Error, Returned, NoThread, Drop, TypeOK
<1>3. CASE Claim
  <2>1. UNCHANGED <<issues, completed, exits>>
    BY <1>3 DEF Claim
  <2> QED BY <1>0, <1>3, <2>1, ClaimIs DEF IInv, Fatal, Returned, NoThread, Drop, TypeOK
<1>4. CASE Check
  <2>1. First(todo) \in todo
    BY <1>4, FirstIn DEF Check, IInv, LeaseInv, TypeOK
  <2> QED BY <1>0, <1>4, <2>1, OnwardIs
    DEF Check, Yield, Returned, NoThread, Drop, Stage, TypeOK
<1>5. CASE Exchange
  <2>1. PICK raw \in [work -> {"text", "failed"}] :
          \/ /\ reply' = Answered(raw).outcomes /\ pc' = "settle"
             /\ UNCHANGED <<job, sample, held, todo, work>>
          \/ Fatal
    BY <1>5 DEF Exchange
  <2>2. UNCHANGED <<issues, completed, exits>>
    BY <1>5 DEF Exchange
  <2>3. CASE reply' = Answered(raw).outcomes
    <3>1. DOMAIN reply' = work
      BY <2>3, AnswerOfBatch
    <3> QED BY <1>0, <2>1, <2>2, <3>1 DEF Fatal, Returned, NoThread, Drop, TypeOK
  <2> QED BY <1>0, <2>1, <2>2, <2>3 DEF Fatal, Returned, NoThread, Drop, TypeOK
<1>6. CASE Settle
  <2>1. First(work) \in work
    BY <1>6, FirstIn DEF Settle, IInv, LeaseInv, Leasing, TypeOK
  <2> QED BY <1>6, <2>1 DEF Settle, Stage, TypeOK
<1>7. CASE Commit
  BY <1>7 DEF Commit, CommitFile, TypeOK
<1>8. CASE Complete
  <2>1. PICK s \in held :
          /\ sample[s] = "prepared" /\ CompleteWith(s, overlay[s])
          /\ held' = held \ {s}
          /\ reply' = IF work = {} THEN NoReply ELSE reply
          /\ pc' = Onward(todo, work, reply')
    BY <1>8 DEF Complete
  <2>2. s \notin todo \cup work
    BY <1>8, <2>1 DEF Complete, IInv, LeaseInv
  <2>3. UNCHANGED <<job, exits, todo, work>>
    BY <1>8 DEF Complete
  <2> QED BY <1>0, <2>1, <2>2, <2>3, OnwardIs DEF CompleteWith, TypeOK
<1>9. CASE Pause \/ Resume \/ ChangeMachine \/ Recover \/ Recovered
  BY <1>9 DEF Pause, Resume, ChangeMachine, Recover, Recovered, TypeOK
<1>10. CASE RecoverSample
  <2>1. First(InFlight) \in Samples
    BY <1>10, FirstIn DEF RecoverSample, InFlight
  <2> QED BY <1>10, <2>1
    DEF RecoverSample, Returned, RecoverPrepared, CompleteWith, TypeOK
<1> QED
  BY <1>1, <1>2, <1>3, <1>4, <1>5, <1>6, <1>7, <1>8, <1>9, <1>10 DEF Next

-----------------------------------------------------------------------------
(* Leases                                                                  *)

\* What is given back is no longer in flight.
LEMMA ReturnedIs ==
  ASSUME NEW S, Returned(S) PROVE InFlight' = InFlight \ S
  BY DEF Returned, InFlight

\* The runner's leases are the samples in flight, from the claim to the end of the batch.
LEMMA LeaseStep == ASSUME TypeOK, IInv, Next PROVE LeaseInv'
<1> USE DEF frozen, files, ledger, batch, bounds, IInv
<1>1. CASE pc' = "idle" /\ held' = {} /\ (job' # "paused" \/ InFlight' = {})
  BY <1>1 DEF LeaseInv, Leasing, NoOrphanLease
<1>2. CASE Fatal \/ Error
  BY <1>1, <1>2 DEF Fatal, Error, NoThread, Drop
<1>3. CASE /\ pc' \in {"start", "hello", "poll", "claim", "finish"}
           /\ held' = {} /\ InFlight' = {}
  BY <1>3 DEF LeaseInv, Leasing, NoOrphanLease
<1>4. CASE Start \/ Hello
  <2>1. \/ Fatal \/ Error
        \/ pc' \in {"hello", "poll"} /\ UNCHANGED <<sample, held>>
    BY <1>4 DEF Start, Hello
  <2>2. InFlight = {} /\ held = {}
    BY <1>4 DEF Start, Hello, LeaseInv, Leasing, NoOrphanLease
  <2> QED BY <1>2, <1>3, <2>1, <2>2 DEF InFlight
<1>5. CASE WorkerExits
  <2>1. \/ Fatal \/ Error
        \/ /\ Returned({s \in Samples : sample[s] = "leased"})
           /\ pc' = "start" /\ held' = {}
    BY <1>5 DEF WorkerExits, ExitReturns, Drop
  <2>2. \A s \in InFlight : sample[s] = "leased"
    BY <1>5 DEF WorkerExits, LeaseInv, Leasing, NoOrphanLease
  <2>3. InFlight \ {s \in Samples : sample[s] = "leased"} = {}
    BY <2>2 DEF InFlight
  <2> QED BY <1>2, <1>3, <2>1, <2>3, ReturnedIs
<1>6. CASE WorkerRefuses \/ Unexpected
  BY <1>2, <1>6 DEF WorkerRefuses, Unexpected
<1>7. CASE Poll \/ Finish
  <2>1. InFlight = {} /\ held = {}
    BY <1>7 DEF Poll, Finish, LeaseInv, Leasing, NoOrphanLease
  <2>2. \/ Yield
        \/ pc' = "claim" /\ UNCHANGED <<sample, held>>
        \/ NoThread /\ UNCHANGED sample
    BY <1>7 DEF Poll, Finish
  <2> QED BY <1>1, <1>3, <2>1, <2>2, ReturnedIs DEF Yield, NoThread, Drop, InFlight
<1>8. CASE Claim
  <2>1. InFlight = {} /\ held = {}
    BY <1>8 DEF Claim, LeaseInv, Leasing, NoOrphanLease
  <2>2. CASE pc' = "check"
    <3>1. PICK claimed \in SUBSET Samples :
            /\ claimed # {} /\ \A s \in claimed : sample[s] = "pending"
            /\ sample' = [s \in Samples |-> IF s \in claimed THEN "leased" ELSE sample[s]]
            /\ held' = claimed /\ todo' = claimed /\ work' = {}
      BY <1>8, <2>2, ClaimIs DEF Fatal, NoThread
    <3>2. InFlight' = claimed
      BY <2>1, <3>1 DEF InFlight
    <3> QED BY <2>2, <3>1, <3>2 DEF LeaseInv, Leasing, NoOrphanLease
  <2>3. CASE pc' # "check"
    <3>1. Fatal \/ (pc' = "finish" /\ UNCHANGED <<sample, held>>)
      BY <1>8, <2>3, ClaimIs
    <3> QED BY <1>2, <1>3, <2>1, <3>1 DEF InFlight
  <2> QED BY <2>2, <2>3
<1>9. CASE Check
  <2>1. /\ First(todo) \in todo /\ First(todo) \in held /\ InFlight = held
        /\ held = todo \cup work /\ \A s \in held : sample[s] = "leased"
    BY <1>9, FirstIn DEF Check, LeaseInv, Leasing, TypeOK
  <2>2. CASE Yield
    BY <1>1, <2>1, <2>2, ReturnedIs DEF Yield, NoThread, Drop
  <2>3. CASE pc' = "commit"
    <3>1. /\ sample' = [sample EXCEPT ![First(todo)] = "prepared"]
          /\ todo' = todo \ {First(todo)} /\ UNCHANGED <<held, work>>
      BY <1>9, <2>3, OnwardIs DEF Check, Stage, Yield, NoThread
    <3>2. InFlight' = held
      BY <2>1, <3>1 DEF InFlight, TypeOK
    <3>3. First(todo) \notin work
      BY <1>9, <2>1 DEF Check, LeaseInv, Leasing
    <3>4. \E p \in held' :
            /\ sample'[p] = "prepared" /\ p \notin todo' \cup work'
            /\ \A s \in held' \ {p} : sample'[s] = "leased" /\ s \in todo' \cup work'
      BY <2>1, <3>1, <3>3 DEF TypeOK
    <3> QED BY <2>3, <3>1, <3>2, <3>4 DEF LeaseInv, Leasing, NoOrphanLease
  <2>4. CASE pc' # "commit" /\ ~Yield
    <3>1. /\ todo' = todo \ {First(todo)} /\ work' = work \cup {First(todo)}
          /\ pc' = Onward(todo', work', reply) /\ UNCHANGED <<job, sample, held>>
      BY <1>9, <2>4 DEF Check, Stage
    <3>2. InFlight' = InFlight
      BY <3>1 DEF InFlight
    <3> QED BY <2>1, <3>1, <3>2, OnwardIs DEF LeaseInv, Leasing, NoOrphanLease
  <2> QED BY <2>2, <2>3, <2>4
<1>10. CASE Request
  <2>1. InFlight = held
    BY <1>10 DEF Request, LeaseInv, Leasing
  <2>2. CASE Yield
    BY <1>1, <2>1, <2>2, ReturnedIs DEF Yield, NoThread, Drop
  <2>3. CASE Error
    BY <1>2, <2>3
  <2>4. CASE pc' = "exchange" /\ UNCHANGED <<job, sample, held, todo, work>>
    BY <1>10, <2>4 DEF Request, LeaseInv, Leasing, NoOrphanLease, InFlight
  <2> QED BY <1>10, <2>2, <2>3, <2>4 DEF Request
<1>11. CASE Exchange
  <2>1. CASE Fatal
    BY <1>2, <2>1
  <2>2. CASE pc' = "settle" /\ UNCHANGED <<job, sample, held, todo, work>>
    BY <1>11, <2>2 DEF Exchange, LeaseInv, Leasing, NoOrphanLease, InFlight
  <2> QED BY <1>11, <2>1, <2>2 DEF Exchange
<1>12. CASE Settle
  <2>1. /\ First(work) \in work /\ First(work) \in held /\ InFlight = held
        /\ held = todo \cup work /\ todo \cap work = {} /\ \A s \in held : sample[s] = "leased"
    BY <1>12, FirstIn DEF Settle, LeaseInv, Leasing, TypeOK
  <2>2. /\ sample' = [sample EXCEPT ![First(work)] = "prepared"] /\ pc' = "commit"
        /\ work' = work \ {First(work)} /\ UNCHANGED <<held, todo>>
    BY <1>12 DEF Settle, Stage
  <2>3. InFlight' = held
    BY <2>1, <2>2 DEF InFlight, TypeOK
  <2>4. \E p \in held' :
          /\ sample'[p] = "prepared" /\ p \notin todo' \cup work'
          /\ \A s \in held' \ {p} : sample'[s] = "leased" /\ s \in todo' \cup work'
    BY <2>1, <2>2 DEF TypeOK
  <2> QED BY <2>1, <2>2, <2>3, <2>4 DEF LeaseInv, Leasing, NoOrphanLease
<1>13. CASE Commit
  <2>1. pc = "commit" /\ pc' = "complete" /\ UNCHANGED <<job, sample, held, todo, work>>
    BY <1>13 DEF Commit
  <2> QED BY <2>1 DEF LeaseInv, Leasing, NoOrphanLease, InFlight
<1>14. CASE Complete
  <2>1. PICK s \in held :
          /\ sample[s] = "prepared" /\ sample' = [sample EXCEPT ![s] = "completed"]
          /\ held' = held \ {s} /\ pc' = Onward(todo, work, reply')
    BY <1>14 DEF Complete, CompleteWith
  <2>2. /\ InFlight = held /\ todo \cap work = {} /\ UNCHANGED <<job, todo, work>>
        /\ s \notin todo \cup work
        /\ \A r \in held \ {s} : sample[r] = "leased" /\ r \in todo \cup work
    BY <1>14, <2>1 DEF Complete, LeaseInv
  <2>3. InFlight' = held'
    BY <2>1, <2>2 DEF InFlight, TypeOK
  <2>4. held' = todo' \cup work' /\ \A r \in held' : sample'[r] = "leased"
    BY <2>1, <2>2 DEF TypeOK
  <2> QED BY <2>1, <2>2, <2>3, <2>4, OnwardIs DEF LeaseInv, Leasing, NoOrphanLease
<1>15. CASE Pause \/ Resume \/ ChangeMachine \/ Recover
  <2>1. InFlight' = InFlight
    BY <1>15 DEF Pause, Resume, ChangeMachine, Recover, InFlight
  <2> QED BY <1>15, <2>1
    DEF Pause, Resume, ChangeMachine, Recover, LeaseInv, Leasing, NoOrphanLease
<1>16. CASE Crash
  BY <1>1, <1>16 DEF Crash, NoThread, Drop
<1>17. CASE RecoverSample
  BY <1>17 DEF RecoverSample, LeaseInv, Leasing, NoOrphanLease
<1>18. CASE Recovered
  BY <1>3, <1>18 DEF Recovered, LeaseInv, Leasing, InFlight
<1> QED
  BY <1>4, <1>5, <1>6, <1>7, <1>8, <1>9, <1>10, <1>11, <1>12, <1>13, <1>14, <1>15, <1>16, <1>17,
     <1>18
  DEF Next

-----------------------------------------------------------------------------
(* The binding, the sidecars and the outcomes                              *)

\* What Fatal, Error and Yield do to the files.
LEMMA EndIs ==
  ASSUME FilesInv, Fatal \/ Error \/ Yield
  PROVE  /\ pc' = "idle" /\ held' = {}
         /\ overlay' = overlay /\ FilesInv'
         /\ \A s \in Samples :
              \/ sample'[s] = sample[s] /\ prepared'[s] = prepared[s]
              \/ s \in held /\ sample'[s] = "pending" /\ prepared'[s] = None
  BY DEF Fatal, Error, Yield, Returned, NoThread, Drop, FilesInv, files

\* Every step keeps the files functions.
LEMMA FilesStep == ASSUME TypeOK, IInv, Next PROVE FilesInv'
<1> USE DEF frozen, files, ledger, batch, bounds, IInv, FilesInv
<1>1. CASE UNCHANGED files \/ Fatal \/ Error \/ Yield
  BY <1>1, EndIs
<1>2. CASE Start \/ Hello \/ WorkerRefuses \/ Unexpected \/ Poll \/ Finish \/ Request \/ Exchange
  BY <1>1, <1>2 DEF Start, Hello, WorkerRefuses, Unexpected, Poll, Finish, Request, Exchange
<1>3. CASE WorkerExits
  BY <1>1, <1>3 DEF WorkerExits, ExitReturns, Returned
<1>4. CASE Claim
  BY <1>1, <1>4, ClaimIs
<1>5. CASE Check \/ Settle
  BY <1>1, <1>5 DEF Check, Settle, Stage
<1>6. CASE Commit \/ Complete
  BY <1>6 DEF Commit, CommitFile, Complete
<1>7. CASE Pause \/ Resume \/ ChangeMachine \/ Crash \/ Recover \/ Recovered
  BY <1>1, <1>7 DEF Pause, Resume, ChangeMachine, Crash, Recover, Recovered
<1>8. CASE RecoverSample
  BY <1>8 DEF RecoverSample, Returned, RecoverPrepared
<1> QED BY <1>2, <1>3, <1>4, <1>5, <1>6, <1>7, <1>8 DEF Next

\* The stages that work under the binding.
Bound == Leasing \cup {"poll", "claim", "commit", "complete"}

\* Steps that keep the binding, and make no sidecar.
LEMMA BindingKept ==
  ASSUME BindingInv, UNCHANGED <<binding, parent>>,
         \A s \in Samples :
           /\ overlay'[s] \in {overlay[s], prepared[s], None}
           /\ prepared'[s] \in {prepared[s], None},
         pc' = "hello" => pc = "hello",
         pc' \in Bound => pc \in Bound /\ UNCHANGED <<limit, worker>>
  PROVE  BindingInv'
  BY DEF BindingInv, Made, Bound, Machine

\* Steps that put a sidecar, made under the binding, in the file of a lease.
LEMMA BindingStaged ==
  ASSUME BindingInv, FilesInv, NEW s \in Samples, NEW sidecar, Stage(s, sidecar), Made(sidecar),
         pc \in Bound, UNCHANGED <<binding, parent, limit, worker>>
  PROVE  BindingInv'
<1>1. \A r \in Samples : prepared'[r] = IF r = s THEN sidecar ELSE prepared[r]
  BY DEF Stage, FilesInv
<1>2. overlay' = overlay /\ pc' = "commit"
  BY DEF Stage
<1> QED BY <1>1, <1>2 DEF BindingInv, Made, Bound, Machine

\* Whatever is made is made under the binding, which never changes.
LEMMA BindingStep == ASSUME TypeOK, IInv, Next PROVE BindingInv'
<1> USE DEF frozen, files, ledger, batch, bounds, IInv
<1>1. CASE (Fatal \/ Error \/ Yield) /\ UNCHANGED <<binding, parent>>
  <2>1. pc' = "idle" /\ overlay' = overlay /\ \A s \in Samples : prepared'[s] \in {prepared[s], None}
    BY <1>1, EndIs
  <2> QED BY <1>1, <2>1, BindingKept DEF Bound, Leasing
<1>2. CASE Start
  <2>1. CASE Error /\ UNCHANGED binding
    BY <1>1, <1>2, <2>1 DEF Start
  <2>2. CASE ~(Error /\ UNCHANGED binding)
    <3> DEFINE b == IF parent \in {NoParent, Unbound} THEN binding ELSE parent
    <3>1. parent # Unbound /\ binding' = b /\ pc' = "hello" /\ UNCHANGED <<files, parent>>
      BY <1>2, <2>2 DEF Start
    <3>2. binding # None => b = binding
      BY <3>1 DEF BindingInv
    <3>3. parent # NoParent => b = parent
      BY <3>1
    <3>4. \A s \in Samples : Made(overlay[s])' /\ Made(prepared[s])'
      BY <3>1, <3>2 DEF BindingInv, Made, Machine
    <3> HIDE DEF b
    <3> QED BY <3>1, <3>3, <3>4 DEF BindingInv, Leasing
  <2> QED BY <2>1, <2>2
<1>3. CASE Hello
  <2>1. CASE Fatal /\ UNCHANGED binding
    BY <1>1, <1>3, <2>1 DEF Hello
  <2>2. CASE ~(Fatal /\ UNCHANGED binding)
    <3> DEFINE new == [runtime |-> Evidence.runtime, build |-> Evidence.build, card |-> Evidence.card,
                       limit |-> EffectiveLimit(Evidence.runtime, Evidence.card)]
    <3>1. /\ pc = "hello" /\ pc' = "poll"
          /\ binding' = IF binding # None THEN binding ELSE new
          /\ limit' = binding'.limit
          /\ worker' = Evidence /\ (binding # None => Evidence = Machine(binding))
          /\ UNCHANGED <<files, parent>>
      BY <1>3, <2>2 DEF Hello, HelloMatches
    <3>2. new # None
      BY BindingIsSome
    <3>3. Evidence = Machine(new)
      BY DEF Evidence, Machine
    <3> HIDE DEF new
    <3>4. binding' # None /\ worker' = Machine(binding')
      BY <3>1, <3>2, <3>3
    <3>5. parent # NoParent => binding' = parent
      <4>1. NoParent = None
        BY DEF NoParent, None
      <4> QED BY <3>1, <4>1 DEF BindingInv
    <3>6. \A s \in Samples : Made(overlay[s])' /\ Made(prepared[s])'
      BY <3>1 DEF BindingInv, Made, Machine
    <3>7. Machine(binding)' = Machine(binding')
      BY DEF Machine
    <3> QED BY <3>1, <3>4, <3>5, <3>6, <3>7 DEF BindingInv
  <2> QED BY <2>1, <2>2
<1>4. CASE WorkerExits
  <2>1. UNCHANGED <<binding, parent>>
    BY <1>4 DEF WorkerExits
  <2>2. CASE Fatal \/ Error
    BY <1>1, <2>1, <2>2
  <2>3. CASE ~(Fatal \/ Error)
    <3>1. Returned({s \in Samples : sample[s] = "leased"}) /\ pc' = "start"
      BY <1>4, <2>3 DEF WorkerExits, ExitReturns
    <3> QED BY <2>1, <3>1, BindingKept DEF Returned, Bound, Leasing
  <2> QED BY <2>2, <2>3
<1>5. CASE WorkerRefuses \/ Unexpected
  BY <1>1, <1>5 DEF WorkerRefuses, Unexpected
<1>6. CASE Poll \/ Request \/ Exchange
  <2>1. UNCHANGED <<binding, parent>> /\ pc \in Bound
    BY <1>6 DEF Poll, Request, Exchange, Bound, Leasing
  <2>2. CASE Fatal \/ Error \/ Yield
    BY <1>1, <2>1, <2>2
  <2>3. CASE pc' \in {"claim", "exchange", "settle"} /\ UNCHANGED <<files, limit, worker>>
    BY <2>1, <2>3, BindingKept
  <2> QED BY <1>6, <2>2, <2>3 DEF Poll, Request, Exchange
<1>7. CASE Claim
  <2>1. UNCHANGED <<binding, parent>> /\ pc \in Bound
    BY <1>7 DEF Claim, Bound
  <2>2. CASE Fatal
    BY <1>1, <2>1, <2>2
  <2>3. CASE pc' \in {"check", "finish"} /\ UNCHANGED <<files, limit, worker>>
    BY <2>1, <2>3, BindingKept
  <2> QED BY <1>7, <2>2, <2>3, ClaimIs
<1>8. CASE Finish \/ Crash
  BY <1>8, BindingKept DEF Finish, Crash, NoThread, Bound, Leasing
<1>9. CASE Check
  <2>1. UNCHANGED <<binding, parent>> /\ pc \in Bound /\ First(todo) \in Samples
    BY <1>9, FirstIn DEF Check, Bound, Leasing, LeaseInv, TypeOK
  <2>2. CASE Yield
    BY <1>1, <2>1, <2>2
  <2>3. CASE pc' = Onward(todo', work', reply) /\ UNCHANGED <<files, limit, worker>>
    BY <2>1, <2>3, BindingKept, OnwardIs
  <2> DEFINE earlier == [status |-> "text", limit |-> dataset[First(todo)].limit, on |-> Earlier]
  <2>4. CASE /\ Reusable(First(todo)) /\ Stage(First(todo), earlier)
             /\ UNCHANGED <<limit, worker>>
    <3>1. Made(earlier)
      BY <2>1, <2>4 DEF Made, Reusable, BindingInv, Bound
    <3> HIDE DEF earlier
    <3> QED BY <2>1, <2>4, <3>1, BindingStaged
  <2> QED BY <1>9, <2>2, <2>3, <2>4 DEF Check
<1>10. CASE Settle
  <2>1. /\ UNCHANGED <<binding, parent, limit, worker>> /\ pc \in Bound
        /\ First(work) \in Samples
    BY <1>10, FirstIn DEF Settle, Bound, Leasing, LeaseInv, TypeOK
  <2> DEFINE made == [status |-> reply[First(work)], limit |-> limit, on |-> worker]
  <2>2. Made(made)
    BY <2>1 DEF Made, BindingInv, Bound
  <2>3. Stage(First(work), made)
    BY <1>10 DEF Settle
  <2> HIDE DEF made
  <2> QED BY <2>1, <2>2, <2>3, BindingStaged
<1>11. CASE Commit
  <2>1. PICK s \in held : CommitFile(s)
    BY <1>11 DEF Commit
  <2>2. \A r \in Samples :
          /\ overlay'[r] \in {overlay[r], prepared[r], None}
          /\ prepared'[r] \in {prepared[r], None}
    BY <2>1 DEF CommitFile, FilesInv
  <2>3. /\ UNCHANGED <<binding, parent, limit, worker>>
        /\ pc = "commit" /\ pc' = "complete"
    BY <1>11 DEF Commit
  <2> QED BY <2>2, <2>3, BindingKept DEF Bound
<1>12. CASE Complete
  <2>1. /\ UNCHANGED <<binding, parent, limit, worker, prepared, overlay>>
        /\ pc = "complete" /\ pc' # "hello"
    BY <1>12, OnwardIs DEF Complete
  <2> QED BY <2>1, BindingKept DEF Bound
<1>13. CASE Pause \/ ChangeMachine
  BY <1>13, BindingKept DEF Pause, ChangeMachine
<1>14. CASE Resume \/ Recover \/ Recovered
  BY <1>14, BindingKept DEF Resume, Recover, Recovered, Bound, Leasing
<1>15. CASE RecoverSample
  <2>1. PICK s \in Samples : Returned({s}) \/ RecoverPrepared(s)
    <3>1. First(InFlight) \in Samples
      BY <1>15, FirstIn DEF RecoverSample, InFlight
    <3> QED BY <1>15, <3>1 DEF RecoverSample
  <2>2. \A r \in Samples :
          /\ overlay'[r] \in {overlay[r], prepared[r], None}
          /\ prepared'[r] \in {prepared[r], None}
    BY <2>1 DEF Returned, RecoverPrepared, FilesInv
  <2>3. UNCHANGED <<binding, parent>> /\ pc' = "recover"
    BY <1>15 DEF RecoverSample
  <2> QED BY <2>2, <2>3, BindingKept DEF Bound, Leasing
<1> QED
  BY <1>2, <1>3, <1>4, <1>5, <1>6, <1>7, <1>8, <1>9, <1>10, <1>11, <1>12, <1>13, <1>14, <1>15
  DEF Next

\* Steps that prepare and complete nothing.
LEMMA ReportKept ==
  ASSUME TypeOK, SidecarInv, OutcomeReported, UNCHANGED ledger,
         \A s \in Samples :
           /\ sample'[s] = "completed" <=> sample[s] = "completed"
           /\ sample'[s] = "prepared" => sample[s] = "prepared" /\ prepared'[s] = prepared[s]
           /\ overlay'[s] = overlay[s],
         pc' \notin {"commit", "complete"} \/ UNCHANGED <<pc, held>>
  PROVE  SidecarInv' /\ OutcomeReported'
<1>1. {s \in Samples : sample'[s] = "completed"} = {s \in Samples : sample[s] = "completed"}
  OBVIOUS
<1>2. OutcomeReported'
  BY <1>1 DEF OutcomeReported, ledger
<1>3. SidecarInv'
  BY DEF SidecarInv, TypeOK
<1> QED BY <1>2, <1>3

\* A sample is completed, and reported, with the sidecar that the overlay holds.
LEMMA ReportOne ==
  ASSUME TypeOK, OutcomeReported, NEW s \in Samples, sample[s] # "completed",
         CompleteWith(s, overlay'[s]), overlay'[s] # None,
         \A r \in Samples \ {s} : overlay'[r] = overlay[r]
  PROVE  OutcomeReported'
<1> DEFINE done == {r \in Samples : sample[r] = "completed"}
<1>1. sample' = [sample EXCEPT ![s] = "completed"] /\ completed' = completed + 1
  BY DEF CompleteWith
<1>2. {r \in Samples : sample'[r] = "completed"} = done \cup {s}
  BY <1>1 DEF TypeOK
<1>3. Cardinality(done \cup {s}) = Cardinality(done) + 1
  <2>1. done \in SUBSET Samples /\ s \notin done
    OBVIOUS
  <2> QED BY <2>1, OneMore
<1>4. completed' = Cardinality({r \in Samples : sample'[r] = "completed"})
  BY <1>1, <1>2, <1>3 DEF OutcomeReported
<1>5. ASSUME NEW r \in Samples
      PROVE  /\ sample'[r] = "completed" => overlay'[r] # None
             /\ r \in issues' <=> sample'[r] = "completed" /\ overlay'[r].status = "failed"
  <2>1. CASE r = s
    BY <1>1, <2>1 DEF CompleteWith, OutcomeReported, TypeOK
  <2>2. CASE r # s
    <3>1. sample'[r] = sample[r] /\ overlay'[r] = overlay[r] /\ (r \in issues' <=> r \in issues)
      BY <1>1, <2>2 DEF CompleteWith, TypeOK
    <3> QED BY <3>1 DEF OutcomeReported
  <2> QED BY <2>1, <2>2
<1> QED BY <1>4, <1>5 DEF OutcomeReported

\* A sidecar that is staged is there when its commit looks for it.
LEMMA StagedSidecar ==
  ASSUME TypeOK, FilesInv, SidecarInv, OutcomeReported, UNCHANGED <<ledger, held>>,
         NEW s \in Samples, NEW sidecar, sidecar # None, Stage(s, sidecar),
         \A r \in held : sample[r] = "leased", s \in held
  PROVE  SidecarInv' /\ OutcomeReported'
<1>1. /\ sample' = [sample EXCEPT ![s] = "prepared"] /\ overlay' = overlay /\ pc' = "commit"
      /\ \A r \in Samples : prepared'[r] = IF r = s THEN sidecar ELSE prepared[r]
  BY DEF Stage, FilesInv
<1>2. \A r \in Samples : sample'[r] = IF r = s THEN "prepared" ELSE sample[r]
  BY <1>1 DEF TypeOK
<1>3. {r \in Samples : sample'[r] = "completed"} = {r \in Samples : sample[r] = "completed"}
  BY <1>2
<1>4. OutcomeReported'
  BY <1>1, <1>2, <1>3 DEF OutcomeReported, ledger
<1>5. SidecarInv'
  BY <1>1, <1>2 DEF SidecarInv, TypeOK
<1> QED BY <1>4, <1>5

\* Every outcome is reported once, with the sidecar that the overlay keeps.
LEMMA ReportStep == ASSUME TypeOK, IInv, Next PROVE SidecarInv' /\ OutcomeReported'
<1> USE DEF frozen, files, batch, bounds, IInv
<1>1. CASE (Fatal \/ Error \/ Yield) /\ UNCHANGED ledger
  <2>1. \A s \in held : sample[s] # "completed"
    BY DEF LeaseInv, InFlight
  <2> QED BY <1>1, <2>1, EndIs, ReportKept
<1>2. CASE UNCHANGED <<files, sample, ledger>> /\ pc' \notin {"commit", "complete"}
  BY <1>2, ReportKept
<1>3. CASE Start \/ Hello \/ WorkerRefuses \/ Unexpected \/ Poll \/ Finish \/ Request \/ Exchange
  BY <1>1, <1>2, <1>3
  DEF Start, Hello, WorkerRefuses, Unexpected, Poll, Finish, Request, Exchange, NoThread
<1>4. CASE WorkerExits
  <2>1. UNCHANGED ledger
    BY <1>4 DEF WorkerExits
  <2>2. CASE Fatal \/ Error
    BY <1>1, <2>1, <2>2
  <2>3. CASE ~(Fatal \/ Error)
    <3>1. Returned({s \in Samples : sample[s] = "leased"}) /\ pc' = "start"
      BY <1>4, <2>3 DEF WorkerExits, ExitReturns
    <3> QED BY <2>1, <3>1, ReportKept DEF Returned
  <2> QED BY <2>2, <2>3
<1>5. CASE Claim
  <2>1. UNCHANGED ledger
    BY <1>5 DEF Claim
  <2>2. CASE Fatal \/ pc' = "finish"
    BY <1>1, <1>2, <1>5, <2>1, <2>2, ClaimIs
  <2>3. CASE ~(Fatal \/ pc' = "finish")
    <3>1. PICK claimed \in SUBSET Samples :
            /\ \A s \in claimed : sample[s] = "pending"
            /\ sample' = [s \in Samples |-> IF s \in claimed THEN "leased" ELSE sample[s]]
            /\ pc' = "check" /\ UNCHANGED files
      BY <1>5, <2>3, ClaimIs
    <3> QED BY <2>1, <3>1, ReportKept
  <2> QED BY <2>2, <2>3
<1>6. CASE Check
  <2>1. /\ UNCHANGED ledger /\ First(todo) \in held /\ First(todo) \in Samples
        /\ \A s \in held : sample[s] = "leased"
    BY <1>6, FirstIn DEF Check, LeaseInv, Leasing, TypeOK
  <2> DEFINE earlier == [status |-> "text", limit |-> dataset[First(todo)].limit, on |-> Earlier]
  <2>2. earlier # None
    BY SidecarIsSome
  <2>3. \/ Yield
        \/ UNCHANGED <<files, sample>> /\ pc' = Onward(todo', work', reply)
        \/ Stage(First(todo), earlier) /\ UNCHANGED held
    BY <1>6 DEF Check
  <2> HIDE DEF earlier
  <2> QED BY <1>1, <1>2, <2>1, <2>2, <2>3, OnwardIs, StagedSidecar
<1>7. CASE Settle
  <2>1. /\ UNCHANGED <<ledger, held>> /\ First(work) \in held /\ First(work) \in Samples
        /\ \A s \in held : sample[s] = "leased"
    BY <1>7, FirstIn DEF Settle, LeaseInv, Leasing, TypeOK
  <2> DEFINE made == [status |-> reply[First(work)], limit |-> limit, on |-> worker]
  <2>2. made # None
    BY SidecarIsSome
  <2>3. Stage(First(work), made)
    BY <1>7 DEF Settle
  <2> HIDE DEF made
  <2> QED BY <2>1, <2>2, <2>3, StagedSidecar
<1>8. CASE Commit
  <2>1. PICK s \in held : sample[s] = "prepared" /\ CommitFile(s)
    BY <1>8 DEF Commit
  <2>2. /\ pc = "commit" /\ pc' = "complete" /\ UNCHANGED <<sample, ledger, held>>
        /\ held \subseteq Samples
    BY <1>8 DEF Commit, TypeOK
  <2>3. \A r \in Samples :
          /\ overlay'[r] = IF r = s THEN prepared[s] ELSE overlay[r]
          /\ prepared'[r] = IF r = s THEN None ELSE prepared[r]
    BY <2>1 DEF CommitFile, FilesInv
  <2>4. \A r \in held : sample[r] = "prepared" => r = s /\ overlay'[r] # None
    <3>1. \A r \in held \ {s} : sample[r] # "prepared"
      BY <2>1, <2>2 DEF LeaseInv
    <3>2. prepared[s] # None
      BY <2>1, <2>2 DEF SidecarInv
    <3> QED BY <2>2, <2>3, <3>1, <3>2
  <2>5. OutcomeReported'
    BY <2>1, <2>2, <2>3 DEF OutcomeReported, ledger
  <2>6. SidecarInv'
    BY <2>2, <2>3, <2>4 DEF SidecarInv
  <2> QED BY <2>5, <2>6
<1>9. CASE Complete
  <2>1. PICK s \in held :
          /\ sample[s] = "prepared" /\ CompleteWith(s, overlay[s])
          /\ pc' = Onward(todo, work, reply')
    BY <1>9 DEF Complete
  <2>2. /\ overlay' = overlay /\ prepared' = prepared /\ s \in Samples /\ overlay[s] # None
    BY <1>9, <2>1 DEF Complete, SidecarInv, TypeOK
  <2>3. OutcomeReported'
    BY <2>1, <2>2, ReportOne
  <2>4. SidecarInv'
    BY <2>1, <2>2, OnwardIs DEF SidecarInv, CompleteWith, TypeOK
  <2> QED BY <2>3, <2>4
<1>10. CASE Pause \/ ChangeMachine
  BY <1>10, ReportKept DEF Pause, ChangeMachine
<1>11. CASE Resume \/ Crash \/ Recover \/ Recovered
  BY <1>2, <1>11 DEF Resume, Crash, Recover, Recovered, NoThread
<1>12. CASE RecoverSample
  <2>1. PICK s \in Samples :
          \/ sample[s] = "leased" /\ Returned({s}) /\ UNCHANGED ledger
          \/ sample[s] = "prepared" /\ RecoverPrepared(s)
    <3>1. First(InFlight) \in Samples
      BY <1>12, FirstIn DEF RecoverSample, InFlight
    <3> QED BY <1>12, <3>1 DEF RecoverSample
  <2>2. pc' = "recover"
    BY <1>12 DEF RecoverSample
  <2>3. CASE sample[s] = "leased" /\ Returned({s}) /\ UNCHANGED ledger
    BY <2>2, <2>3, ReportKept DEF Returned
  <2>4. CASE sample[s] = "prepared" /\ RecoverPrepared(s)
    <3> DEFINE sidecar == IF overlay[s] # None THEN overlay[s] ELSE prepared[s]
    <3>1. /\ CompleteWith(s, sidecar) /\ overlay' = [overlay EXCEPT ![s] = sidecar]
          /\ prepared' = [prepared EXCEPT ![s] = None]
      BY <2>4 DEF RecoverPrepared
    <3>2. sidecar # None
      BY <2>4 DEF SidecarInv
    <3> HIDE DEF sidecar
    <3>3. overlay'[s] = sidecar /\ \A r \in Samples \ {s} : overlay'[r] = overlay[r]
      BY <3>1 DEF FilesInv
    <3>4. OutcomeReported'
      BY <2>4, <3>1, <3>2, <3>3, ReportOne
    <3>5. \A r \in Samples \ {s} : sample'[r] = sample[r] /\ prepared'[r] = prepared[r]
      BY <3>1 DEF CompleteWith, FilesInv, TypeOK
    <3>6. sample'[s] = "completed"
      BY <3>1 DEF CompleteWith, TypeOK
    <3> QED BY <2>2, <3>3, <3>4, <3>5, <3>6 DEF SidecarInv
  <2> QED BY <2>1, <2>3, <2>4
<1> QED
  BY <1>3, <1>4, <1>5, <1>6, <1>7, <1>8, <1>9, <1>10, <1>11, <1>12 DEF Next

-----------------------------------------------------------------------------
(* The theorems                                                            *)

\* The job begins with nothing made, bound or leased.
LEMMA InitInv == ASSUME Init PROVE TypeOK /\ IInv
<1>1. TypeOK
  BY DEF Init, TypeOK, NoReply
<1>2. FilesInv
  BY DEF Init, FilesInv
<1>3. InFlight = {} /\ {s \in Samples : sample[s] = "completed"} = {}
  BY DEF Init, InFlight
<1>4. LeaseInv
  BY <1>3 DEF Init, LeaseInv, Leasing, NoOrphanLease
<1>5. BindingInv
  BY DEF Init, BindingInv, Made, Leasing
<1>6. SidecarInv
  BY DEF Init, SidecarInv
<1>7. OutcomeReported
  BY <1>3, FS_EmptySet DEF Init, OutcomeReported
<1> QED BY <1>1, <1>2, <1>4, <1>5, <1>6, <1>7 DEF IInv

\* Every step keeps the invariant.
LEMMA NextInv == ASSUME TypeOK, IInv, [Next]_vars PROVE TypeOK' /\ IInv'
<1>1. CASE Next
  BY <1>1, TypeStep, FilesStep, LeaseStep, BindingStep, ReportStep DEF IInv
<1>2. CASE UNCHANGED vars
  <2> USE DEF vars, frozen, files, ledger, batch, bounds
  <2>1. TypeOK' /\ FilesInv' /\ BindingInv' /\ SidecarInv'
    BY <1>2 DEF IInv, TypeOK, FilesInv, BindingInv, SidecarInv, Made, Machine
  <2>2. LeaseInv' /\ OutcomeReported'
    BY <1>2 DEF IInv, LeaseInv, NoOrphanLease, InFlight, OutcomeReported
  <2> QED BY <2>1, <2>2 DEF IInv
<1> QED BY <1>1, <1>2

\* The invariant holds in every behaviour.
LEMMA Invariants == Spec => [](TypeOK /\ IInv)
<1>1. Init => TypeOK /\ IInv
  BY InitInv
<1>2. TypeOK /\ IInv /\ [Next]_vars => (TypeOK /\ IInv)'
  BY NextInv
<1> QED BY <1>1, <1>2, PTL DEF Spec

\* Every variable keeps its type, and the loop its leases among the samples.
THEOREM TypeCorrect == Spec => []TypeOK
  BY Invariants, PTL

\* Whatever happens to the machine, the worker and the backend, every sidecar is made under
\* the one binding, which is the parent's in a repair job: _ocr_binding_path, is_reusable.
THEOREM OneRuntimeKept == Spec => []OneRuntime
<1>1. IInv => OneRuntime
  BY DEF IInv, BindingInv, Made, OneRuntime
<1> QED BY <1>1, Invariants, PTL

\* Every sample is completed once, with its sidecar in the overlay, and has an issue exactly
\* when its recognition failed, also when the recovery completes it.
THEOREM OutcomesReported == Spec => []OutcomeReported
<1>1. IInv => OutcomeReported
  BY DEF IInv
<1> QED BY <1>1, Invariants, PTL

\* A runner at the head of its loop finds no sample in flight: return_module_leases,
\* return_lease_to_pending and the recovery leave none behind.
THEOREM NoLeaseIsOrphaned == Spec => []NoOrphanLease
<1>1. IInv => NoOrphanLease
  BY DEF IInv, LeaseInv
<1> QED BY <1>1, Invariants, PTL

-----------------------------------------------------------------------------
(* The requests of the natural language module.                            *)

LEMMA Policy ==
  /\ NumSamples \in Nat /\ BatchSize \in Nat \ {0} /\ PerItem \in Nat \ {0}
  /\ Budget \in Nat \ {0} /\ MaxExtra \in Nat
BY PolicyAssumption DEF N!NlAssumption

(* The inductive invariant                                                 *)

\* The stages between the attempts of an outcome being counted and its end.
Settling == {"settle", "prepare", "commit", "unstage", "complete", "record", "streak"}

NlTypes ==
  /\ nlSample \in [N!Samples -> N!SampleStatuses]
  /\ nlStaged \subseteq N!Samples /\ nlOverlay \subseteq N!Samples
  /\ nlHeld \subseteq N!Samples /\ nlTodo \subseteq N!Samples /\ requests \subseteq N!Samples
  /\ DOMAIN outcomes \subseteq N!Samples
  /\ \A s \in DOMAIN outcomes : outcomes[s].n \in Nat
  /\ attempts \in Nat /\ extra \in Nat /\ maximum \in Nat
  /\ unknown \subseteq N!Samples

\* What the thread may give back before it has sent anything is leased to it.
HandInv ==
  /\ nlPc = "update" => update.next \in {"idle", "raise"}
  /\ nlPc = "poll" => requests = {}
  /\ nlPc = "check" => nlTodo \subseteq nlHeld /\ nlTodo \cap requests = {}
  /\ nlPc \in {"check", "budget", "release"} =>
       requests \subseteq nlHeld /\ \A s \in nlHeld : nlSample[s] = "leased"
  /\ nlPc = "mark" => \A s \in nlTodo : nlSample[s] = "leased"

\* Where the sample of the outcome being settled stands.
SettlingInv ==
  /\ nlPc \in Settling => one \in DOMAIN outcomes
  /\ nlPc = "prepare" => nlSample[one] = "response_staged"
  /\ nlPc \in {"commit", "unstage", "complete"} => nlSample[one] = "prepared"
  /\ nlPc \in {"unstage", "complete"} => one \in nlOverlay

\* The attempts that the answers of the batch will still count are within the budget.
BudgetInv ==
  /\ maximum <= Budget + extra
  /\ nlPc \in {"mark", "exchange"} => attempts <= maximum
  /\ nlPc = "outcome" => attempts + N!Total(outcomes) <= maximum
  /\ nlPc \in Settling => attempts + N!Total(N!Rest) <= maximum

\* Where an answer that was paid for lies.
PaidInv ==
  \A s \in N!Samples :
    /\ nlSample[s] = "response_staged" => s \in nlStaged
    /\ nlSample[s] = "prepared" => s \in nlStaged \cup nlOverlay
    /\ nlSample[s] = "completed" => s \in nlOverlay

NlInv ==
  /\ HandInv /\ SettlingInv /\ BudgetInv /\ PaidInv
  /\ N!UnknownKept /\ N!BudgetKept

-----------------------------------------------------------------------------
(* Samples, and the sum of the attempts of a batch                         *)

\* The next sample of a set is one of the set.
LEMMA NlFirstIn == ASSUME NEW S \in SUBSET N!Samples, S # {} PROVE N!First(S) \in S
<1>1. S \in SUBSET Nat
  BY Policy DEF N!Samples
<1>2. PICK x \in S : \A y \in S : x <= y
  BY <1>1, Least
<1> QED BY <1>2 DEF N!First

\* A set that holds 0, and each successor of what it holds, holds every natural: the
\* first that it misses would be neither.
LEMMA Climb ==
  ASSUME NEW S, 0 \in S, \A n \in Nat : n \in S => n + 1 \in S
  PROVE  Nat \subseteq S
<1>1. SUFFICES ASSUME Nat \ S # {} PROVE FALSE
  OBVIOUS
<1>2. PICK x \in Nat \ S : \A y \in Nat \ S : x <= y
  <2>1. Nat \ S \in SUBSET Nat
    OBVIOUS
  <2> QED BY <1>1, <2>1, Least
<1>3. x # 0 /\ x - 1 \in Nat /\ ~(x <= x - 1)
  BY <1>2
<1>4. x - 1 \in S
  BY <1>2, <1>3
<1>5. (x - 1) + 1 \in S
  BY <1>3, <1>4
<1> QED BY <1>2, <1>5

\* What sample n adds to the sum.
Share(o, n) == IF n \in DOMAIN o THEN o[n].n ELSE 0

\* The sum of the shares up to k.
Sums(u, o, k) ==
  u = [n \in 0 .. k |-> IF n = 0 THEN 0 ELSE u[n - 1] + (IF n \in DOMAIN o THEN o[n].n ELSE 0)]

\* The sums that Total speaks of exist.
LEMMA SumsExist == ASSUME NEW o, NEW k \in Nat PROVE \E u : Sums(u, o, k)
<1> DEFINE S == {n \in Nat : \E u : Sums(u, o, n)}
<1>1. 0 \in S
  <2> DEFINE u == [n \in 0 .. 0 |-> 0]
  <2>1. Sums(u, o, 0)
    BY DEF Sums
  <2> QED BY <2>1
<1>2. ASSUME NEW n \in Nat, n \in S PROVE n + 1 \in S
  <2>1. PICK u : Sums(u, o, n)
    BY <1>2
  <2> DEFINE w == [i \in 0 .. n + 1 |-> IF i <= n THEN u[i] ELSE u[n] + Share(o, n + 1)]
  <2>2. ASSUME NEW i \in 0 .. n + 1
        PROVE  w[i] = IF i = 0 THEN 0 ELSE w[i - 1] + Share(o, i)
    <3>1. CASE i = 0
      BY <2>1, <3>1 DEF Sums
    <3>2. CASE i # 0 /\ i <= n
      <4>1. i - 1 \in 0 .. n + 1 /\ i - 1 <= n /\ i \in 0 .. n
        BY <3>2
      <4>2. w[i] = u[i] /\ w[i - 1] = u[i - 1]
        BY <3>2, <4>1
      <4>3. u[i] = u[i - 1] + Share(o, i)
        BY <2>1, <3>2, <4>1 DEF Sums, Share
      <4> QED BY <3>2, <4>2, <4>3
    <3>3. CASE ~(i <= n)
      <4>1. i = n + 1 /\ n \in 0 .. n + 1 /\ n <= n /\ i # 0 /\ i - 1 = n
        BY <3>3
      <4>2. w[i] = u[n] + Share(o, n + 1) /\ w[i - 1] = u[n]
        BY <3>3, <4>1
      <4> QED BY <4>1, <4>2
    <3> QED BY <3>1, <3>2, <3>3
  <2>3. Sums(w, o, n + 1)
    BY <2>2 DEF Sums, Share
  <2> QED BY <2>3
<1>3. k \in S
  <2> HIDE DEF S
  <2> QED BY <1>1, <1>2, Climb
<1> QED BY <1>3

\* Total is the last of the sums.
LEMMA TotalIsSum ==
  ASSUME NEW o
  PROVE  \E u : Sums(u, o, NumSamples) /\ N!Total(o) = u[NumSamples]
<1> DEFINE u == CHOOSE u : Sums(u, o, NumSamples)
<1>1. Sums(u, o, NumSamples)
  BY SumsExist, Policy
<1>2. N!Total(o) = u[NumSamples]
  BY DEF N!Total, Sums
<1> QED BY <1>1, <1>2

\* The sum of natural numbers is one.
LEMMA TotalIsNat ==
  ASSUME NEW o, \A s \in DOMAIN o : o[s].n \in Nat
  PROVE  N!Total(o) \in Nat
<1>1. PICK u : Sums(u, o, NumSamples) /\ N!Total(o) = u[NumSamples]
  BY TotalIsSum
<1> DEFINE S == {n \in Nat : n <= NumSamples => u[n] \in Nat}
<1>2. 0 \in S
  <2>1. NumSamples \in Nat
    BY Policy
  <2>2. u[0] = 0
    BY <1>1, <2>1 DEF Sums
  <2> QED BY <2>2
<1>3. ASSUME NEW n \in Nat, n \in S PROVE n + 1 \in S
  <2>1. SUFFICES ASSUME n + 1 <= NumSamples PROVE u[n + 1] \in Nat
    OBVIOUS
  <2>2. u[n] \in Nat /\ n + 1 \in 0 .. NumSamples /\ n + 1 # 0 /\ (n + 1) - 1 = n
    BY <1>3, <2>1, Policy
  <2>3. u[n + 1] = u[n] + Share(o, n + 1)
    BY <1>1, <2>2 DEF Sums, Share
  <2>4. Share(o, n + 1) \in Nat
    BY DEF Share
  <2> QED BY <2>2, <2>3, <2>4
<1>4. NumSamples \in S
  <2> HIDE DEF S
  <2> QED BY <1>2, <1>3, Climb, Policy
<1> QED BY <1>1, <1>4, Policy

\* Taking one outcome away takes its attempts out of the sum.
LEMMA TotalWithout ==
  ASSUME NEW o, NEW m \in N!Samples,
         m \in DOMAIN o, DOMAIN o \subseteq N!Samples, \A s \in DOMAIN o : o[s].n \in Nat
  PROVE  LET rest == [s \in DOMAIN o \ {m} |-> o[s]]
         IN  /\ N!Total(o) \in Nat /\ N!Total(rest) \in Nat
             /\ N!Total(o) = o[m].n + N!Total(rest)
<1> DEFINE r == [s \in DOMAIN o \ {m} |-> o[s]]
<1>1. PICK u : Sums(u, o, NumSamples) /\ N!Total(o) = u[NumSamples]
  BY TotalIsSum
<1>2. PICK v : Sums(v, r, NumSamples) /\ N!Total(r) = v[NumSamples]
  BY TotalIsSum
<1> DEFINE Agrees(n) ==
             /\ u[n] \in Nat /\ v[n] \in Nat
             /\ u[n] = v[n] + (IF m <= n THEN o[m].n ELSE 0)
           S == {n \in Nat : n <= NumSamples => Agrees(n)}
<1>3. NumSamples \in Nat /\ m \in Nat /\ 1 <= m /\ m <= NumSamples
  BY Policy DEF N!Samples
<1>4. 0 \in S
  <2>1. u[0] = 0 /\ v[0] = 0 /\ ~(m <= 0)
    BY <1>1, <1>2, <1>3 DEF Sums
  <2> QED BY <2>1
<1>5. ASSUME NEW n \in Nat, n \in S PROVE n + 1 \in S
  <2>1. SUFFICES ASSUME n + 1 <= NumSamples PROVE Agrees(n + 1)
    OBVIOUS
  <2>2. Agrees(n) /\ n + 1 \in 0 .. NumSamples /\ n + 1 # 0 /\ (n + 1) - 1 = n
    BY <1>3, <1>5, <2>1
  <2>3. u[n + 1] = u[n] + Share(o, n + 1)
    BY <1>1, <2>2 DEF Sums, Share
  <2>4. v[n + 1] = v[n] + Share(r, n + 1)
    BY <1>2, <2>2 DEF Sums, Share
  <2>5. Share(o, n + 1) \in Nat
    BY DEF Share
  <2>6. CASE n + 1 = m
    <3>1. Share(r, n + 1) = 0 /\ Share(o, n + 1) = o[m].n /\ o[m].n \in Nat
      BY <2>6 DEF Share
    <3>2. ~(m <= n) /\ m <= n + 1
      BY <2>6, <1>3
    <3> HIDE DEF r
    <3> QED BY <2>2, <2>3, <2>4, <3>1, <3>2
  <2>7. CASE n + 1 # m
    <3>1. Share(r, n + 1) = Share(o, n + 1)
      BY <2>7 DEF Share
    <3>2. m <= n <=> m <= n + 1
      BY <2>7, <1>3
    <3>3. o[m].n \in Nat
      OBVIOUS
    <3> HIDE DEF r
    <3> QED BY <2>2, <2>3, <2>4, <2>5, <3>1, <3>2, <3>3
  <2> QED BY <2>6, <2>7
<1>6. Agrees(NumSamples)
  <2>1. NumSamples \in S
    <3> HIDE DEF S
    <3> QED BY <1>3, <1>4, <1>5, Climb
  <2> QED BY <2>1, <1>3
<1>7. o[m].n \in Nat
  OBVIOUS
<1> QED BY <1>1, <1>2, <1>3, <1>6, <1>7

-----------------------------------------------------------------------------
(* The type of the state                                                   *)

\* With nothing in hand no outcome is left.
LEMMA EmptyHand ==
  ASSUME N!NothingInHand
  PROVE  /\ nlHeld' = {} /\ nlTodo' = {} /\ requests' = {} /\ maximum' = Budget /\ Budget \in Nat
         /\ DOMAIN outcomes' = {}
<1>1. DOMAIN <<>> = {}
  OBVIOUS
<1>2. outcomes' = <<>>
  BY DEF N!NothingInHand
<1>3. DOMAIN outcomes' = {}
  BY <1>1, <1>2
<1> QED BY <1>3, Policy DEF N!NothingInHand

\* What Set does to the samples.
LEMMA SetIs ==
  ASSUME NEW S, NEW to, N!Set(S, to), NlTypes, to \in N!SampleStatuses
  PROVE  /\ nlSample' \in [N!Samples -> N!SampleStatuses]
         /\ \A s \in N!Samples : nlSample'[s] = IF s \in S THEN to ELSE nlSample[s]
  BY DEF N!Set, NlTypes

\* Every step keeps the types.
LEMMA NlTypeStep == ASSUME NlTypes, NlInv, N!Next PROVE NlTypes'
<1> USE DEF NlInv, N!row, N!ledger, N!queue, N!counters, N!local
<1>1. CASE N!CompleteUpdate \/ N!Yield \/ N!Drained \/ N!NotActive
  BY <1>1 DEF N!CompleteUpdate, N!Yield, N!Drained, N!NotActive, NlTypes
<1>2. CASE N!Launch \/ N!BatchSettled
  BY <1>2, EmptyHand DEF N!Launch, N!BatchSettled, NlTypes
<1>3. CASE N!Claim
  <2>1. PICK claimed \in SUBSET N!Samples :
          N!Set(claimed, "leased") /\ nlHeld' = claimed /\ nlTodo' = claimed
    BY <1>3 DEF N!Claim, N!Lowest, N!In
  <2>2. nlSample' \in [N!Samples -> N!SampleStatuses]
    BY <2>1, SetIs DEF N!SampleStatuses
  <2> QED BY <1>3, <2>1, <2>2 DEF N!Claim, NlTypes
<1>4. CASE N!SettleLocally
  <2>1. N!First(nlTodo) \in N!Samples
    BY <1>4, NlFirstIn DEF N!SettleLocally, NlTypes
  <2>2. nlSample' \in [N!Samples -> N!SampleStatuses]
    BY <1>4, SetIs DEF N!SettleLocally, N!SampleStatuses
  <2> QED BY <1>4, <2>1, <2>2 DEF N!SettleLocally, NlTypes
<1>5. CASE N!NeedsRequest
  <2>1. N!First(nlTodo) \in N!Samples
    BY <1>5, NlFirstIn DEF N!NeedsRequest, NlTypes
  <2> QED BY <1>5, <2>1 DEF N!NeedsRequest, NlTypes
<1>6. CASE N!Checked \/ N!CheckBudget
  BY <1>6, Policy DEF N!Checked, N!CheckBudget, NlTypes
<1>7. CASE N!ReleaseUnstarted \/ N!HandleLost \/ N!FailModule
  <2>1. nlSample' \in [N!Samples -> N!SampleStatuses]
    BY <1>7, SetIs DEF N!ReleaseUnstarted, N!HandleLost, N!FailModule, N!SampleStatuses
  <2> QED BY <1>7, <2>1, EmptyHand DEF N!ReleaseUnstarted, N!HandleLost, N!FailModule, NlTypes
<1>8. CASE N!MarkRequestStarted
  <2>1. nlSample' \in [N!Samples -> N!SampleStatuses]
    BY <1>8, SetIs DEF N!MarkRequestStarted, N!SampleStatuses
  <2> QED BY <1>8, <2>1 DEF N!MarkRequestStarted, NlTypes
<1>9. CASE N!SendBatch
  BY <1>9 DEF N!SendBatch, NlTypes
<1>10. CASE N!Answered
  <2>1. PICK kinds : outcomes' \in [requests -> [kind : kinds, n : 0 .. PerItem]]
    BY <1>10 DEF N!Answered, N!Answers
  <2>2. DOMAIN outcomes' = requests /\ \A s \in requests : outcomes'[s].n \in Nat
    <3>1. ASSUME NEW s \in requests PROVE outcomes'[s].n \in Nat
      <4>1. outcomes'[s] \in [kind : kinds, n : 0 .. PerItem]
        BY <2>1
      <4> QED BY <4>1, Policy
    <3> QED BY <2>1, <3>1
  <2> QED BY <1>10, <2>2 DEF N!Answered, NlTypes
<1>11. CASE N!CountAttempts
  <2>1. N!First(DOMAIN outcomes) \in DOMAIN outcomes
    BY <1>11, NlFirstIn DEF N!CountAttempts, NlTypes
  <2> QED BY <1>11, <2>1 DEF N!CountAttempts, NlTypes
<1>12. CASE N!ReturnUnsubmitted
  <2>1. nlSample' \in [N!Samples -> N!SampleStatuses]
    BY <1>12, SetIs DEF N!ReturnUnsubmitted, N!SampleStatuses
  <2> QED BY <1>12, <2>1 DEF N!ReturnUnsubmitted, N!Rest, NlTypes
<1>13. CASE N!RaiseIssue \/ N!StagePrepared \/ N!CompleteSample
  <2>1. nlSample' \in [N!Samples -> N!SampleStatuses]
    BY <1>13, SetIs DEF N!RaiseIssue, N!StagePrepared, N!CompleteSample, N!SampleStatuses
  <2> QED BY <1>13, <2>1 DEF N!RaiseIssue, N!StagePrepared, N!CompleteSample, NlTypes
<1>14. CASE N!StageResponse
  <2>1. nlSample' \in [N!Samples -> N!SampleStatuses]
    BY <1>14, SetIs DEF N!StageResponse, N!SampleStatuses
  <2>2. one \in N!Samples
    BY <1>14 DEF N!StageResponse, SettlingInv, Settling, NlTypes
  <2> QED BY <1>14, <2>1, <2>2 DEF N!StageResponse, NlTypes
<1>15. CASE N!CommitPrepared \/ N!DeleteStaged
  <2>1. one \in N!Samples
    BY <1>15 DEF N!CommitPrepared, N!DeleteStaged, SettlingInv, Settling, NlTypes
  <2> QED BY <1>15, <2>1 DEF N!CommitPrepared, N!DeleteStaged, NlTypes
<1>16. CASE N!OutcomeRejected \/ N!RecordOutcome \/ N!PauseItself
  BY <1>16 DEF N!OutcomeRejected, N!RecordOutcome, N!PauseItself, NlTypes
<1>17. CASE N!CountStreak
  BY <1>17 DEF N!CountStreak, N!Rest, NlTypes
<1>18. CASE N!WorkerExited
  <2>1. nlSample' = nlSample \/ N!Set(N!In({"leased"}), "pending")
    BY <1>18 DEF N!WorkerExited
  <2>2. nlSample' \in [N!Samples -> N!SampleStatuses]
    BY <2>1, SetIs DEF N!SampleStatuses, NlTypes
  <2> QED BY <1>18, <2>2 DEF N!WorkerExited, NlTypes
<1>19. CASE N!FailJob \/ N!FailRun \/ N!SettleReturned
  BY <1>19 DEF N!FailJob, N!FailRun, N!SettleReturned, NlTypes
<1>20. CASE N!Pause \/ N!Resume \/ N!AddBudget \/ N!BeginConfirmation \/ N!BeginCancellation
  BY <1>20 DEF N!Pause, N!Resume, N!AddBudget, N!BeginConfirmation, N!BeginCancellation, NlTypes
<1>21. CASE N!BeginRecovery
  BY <1>21 DEF N!BeginRecovery, N!InFlight, N!In, NlTypes
<1>22. CASE N!ConfirmUnknown
  <2>1. nlSample' \in [N!Samples -> N!SampleStatuses]
    BY <1>22, SetIs DEF N!ConfirmUnknown, N!SampleStatuses
  <2> QED BY <1>22, <2>1 DEF N!ConfirmUnknown, NlTypes
<1>23. CASE N!SettleCancellation \/ N!Recovered
  BY <1>23 DEF N!SettleCancellation, N!Recovered, NlTypes
<1>24. CASE N!RecoverSample
  <2>1. N!First(nlTodo) \in N!Samples
    BY <1>24, NlFirstIn DEF N!RecoverSample, NlTypes
  <2>2. \/ nlSample' = nlSample
        \/ N!Set({N!First(nlTodo)}, "pending")
        \/ N!Set({N!First(nlTodo)}, "completed")
    BY <1>24 DEF N!RecoverSample
  <2>3. nlSample' \in [N!Samples -> N!SampleStatuses]
    BY <2>2, SetIs DEF N!SampleStatuses, NlTypes
  <2> QED BY <1>24, <2>1, <2>3 DEF N!RecoverSample, NlTypes
<1>25. CASE N!WorkerLost \/ N!RunnerError
  BY <1>25 DEF N!WorkerLost, N!RunnerError, NlTypes
<1>26. CASE N!Crash
  BY <1>26, EmptyHand DEF N!Crash, NlTypes
<1> QED
  BY <1>1, <1>2, <1>3, <1>4, <1>5, <1>6, <1>7, <1>8, <1>9, <1>10, <1>11, <1>12, <1>13, <1>14,
     <1>15, <1>16, <1>17, <1>18, <1>19, <1>20, <1>21, <1>22, <1>23, <1>24, <1>25, <1>26
  DEF N!Next, N!Pipeline, N!User, N!Serve

-----------------------------------------------------------------------------
(* The requests and the answers                                            *)

\* Nothing the thread holds in these stages was sent.
LEMMA HandStep == ASSUME NlTypes, NlInv, N!Next PROVE HandInv'
<1> USE DEF NlInv, HandInv, N!row, N!ledger, N!queue, N!counters, N!local
<1>1. CASE N!CompleteUpdate
  BY <1>1 DEF N!CompleteUpdate
<1>2. CASE N!Launch \/ N!BatchSettled
  <2>1. nlPc' \in {"poll", "pause"} /\ requests' = {}
    BY <1>2, EmptyHand DEF N!Launch, N!BatchSettled
  <2> QED BY <2>1
<1>3. CASE N!Claim
  <2>1. PICK claimed \in SUBSET N!Samples :
          N!Set(claimed, "leased") /\ nlHeld' = claimed /\ nlTodo' = claimed
    BY <1>3 DEF N!Claim, N!Lowest, N!In
  <2>2. \A s \in claimed : nlSample'[s] = "leased"
    BY <2>1, SetIs DEF N!SampleStatuses
  <2>3. nlPc' = "check" /\ requests' = {}
    BY <1>3 DEF N!Claim
  <2> QED BY <2>1, <2>2, <2>3
<1>4. CASE N!SettleLocally
  <2>1. N!First(nlTodo) \in nlTodo
    BY <1>4, NlFirstIn DEF N!SettleLocally, NlTypes
  <2>2. N!Set({N!First(nlTodo)}, "completed") \/ N!Set({N!First(nlTodo)}, "failed")
    BY <1>4 DEF N!SettleLocally
  <2>3. \A s \in N!Samples : s # N!First(nlTodo) => nlSample'[s] = nlSample[s]
    BY <2>2, SetIs DEF N!SampleStatuses
  <2> QED BY <1>4, <2>1, <2>3 DEF N!SettleLocally, NlTypes
<1>5. CASE N!NeedsRequest
  <2>1. N!First(nlTodo) \in nlTodo
    BY <1>5, NlFirstIn DEF N!NeedsRequest, NlTypes
  <2> QED BY <1>5, <2>1 DEF N!NeedsRequest
<1>6. CASE N!Checked
  BY <1>6 DEF N!Checked
<1>7. CASE N!CheckBudget
  BY <1>7 DEF N!CheckBudget
<1>8. CASE N!PauseItself \/ N!FailJob \/ N!FailRun
  BY <1>8 DEF N!PauseItself, N!FailJob, N!FailRun, N!BeginUpdate
<1>9. CASE N!Yield \/ N!Drained \/ N!NotActive \/ N!ReleaseUnstarted \/ N!OutcomeRejected
  BY <1>9 DEF N!Yield, N!Drained, N!NotActive, N!ReleaseUnstarted, N!OutcomeRejected
<1>10. CASE N!MarkRequestStarted \/ N!SendBatch \/ N!Answered \/ N!CountAttempts
  <2>1. CASE N!MarkRequestStarted
    <3>1. N!Set({N!First(nlTodo)}, "request_started")
      BY <2>1 DEF N!MarkRequestStarted
    <3>2. \A s \in N!Samples : s # N!First(nlTodo) => nlSample'[s] = nlSample[s]
      BY <3>1, SetIs DEF N!SampleStatuses
    <3> QED BY <2>1, <3>2 DEF N!MarkRequestStarted, NlTypes
  <2>2. CASE N!SendBatch \/ N!Answered \/ N!CountAttempts
    BY <2>2 DEF N!SendBatch, N!Answered, N!CountAttempts
  <2> QED BY <1>10, <2>1, <2>2
<1>11. CASE N!ReturnUnsubmitted \/ N!RaiseIssue \/ N!StageResponse \/ N!StagePrepared
  BY <1>11 DEF N!ReturnUnsubmitted, N!RaiseIssue, N!StageResponse, N!StagePrepared
<1>12. CASE N!CommitPrepared \/ N!DeleteStaged \/ N!CompleteSample \/ N!RecordOutcome \/ N!CountStreak
  BY <1>12 DEF N!CommitPrepared, N!DeleteStaged, N!CompleteSample, N!RecordOutcome, N!CountStreak
<1>13. CASE N!HandleLost \/ N!WorkerExited \/ N!FailModule \/ N!SettleReturned
  BY <1>13 DEF N!HandleLost, N!WorkerExited, N!FailModule, N!SettleReturned
<1>14. CASE N!Pause \/ N!AddBudget \/ N!BeginConfirmation \/ N!BeginCancellation \/ N!SettleCancellation
  BY <1>14 DEF N!Pause, N!AddBudget, N!BeginConfirmation, N!BeginCancellation, N!SettleCancellation
<1>15. CASE N!Resume \/ N!BeginRecovery \/ N!RecoverSample \/ N!Recovered
  BY <1>15 DEF N!Resume, N!BeginRecovery, N!RecoverSample, N!Recovered
<1>16. CASE N!ConfirmUnknown
  <2>1. \A s \in N!Samples : nlSample[s] = "leased" => nlSample'[s] = "leased"
    BY <1>16, SetIs DEF N!ConfirmUnknown, N!In, N!SampleStatuses
  <2> QED BY <1>16, <2>1 DEF N!ConfirmUnknown, NlTypes
<1>17. CASE N!WorkerLost \/ N!RunnerError \/ N!Crash
  BY <1>17 DEF N!WorkerLost, N!RunnerError, N!Crash
<1> QED
  BY <1>1, <1>2, <1>3, <1>4, <1>5, <1>6, <1>7, <1>8, <1>9, <1>10, <1>11, <1>12, <1>13, <1>14,
     <1>15, <1>16, <1>17
  DEF N!Next, N!Pipeline, N!User, N!Serve

\* The sample of an outcome goes through staging and the overlay by itself.
LEMMA SettlingStep == ASSUME NlTypes, NlInv, N!Next PROVE SettlingInv'
<1> USE DEF NlInv, SettlingInv, Settling, N!row, N!ledger, N!queue, N!counters, N!local
<1>1. CASE N!CompleteUpdate
  BY <1>1 DEF N!CompleteUpdate, HandInv
<1>2. CASE N!Launch \/ N!Yield \/ N!Claim \/ N!Drained \/ N!NotActive \/ N!SettleLocally \/ N!NeedsRequest
  BY <1>2 DEF N!Launch, N!Yield, N!Claim, N!Drained, N!NotActive, N!SettleLocally, N!NeedsRequest
<1>3. CASE N!Checked \/ N!CheckBudget \/ N!ReleaseUnstarted \/ N!MarkRequestStarted \/ N!SendBatch
  BY <1>3 DEF N!Checked, N!CheckBudget, N!ReleaseUnstarted, N!MarkRequestStarted, N!SendBatch
<1>4. CASE N!Answered \/ N!OutcomeRejected \/ N!BatchSettled \/ N!PauseItself \/ N!FailJob \/ N!FailRun
  BY <1>4 DEF N!Answered, N!OutcomeRejected, N!BatchSettled, N!PauseItself, N!FailJob, N!FailRun, N!BeginUpdate
<1>5. CASE N!CountAttempts
  <2>1. N!First(DOMAIN outcomes) \in DOMAIN outcomes
    BY <1>5, NlFirstIn DEF N!CountAttempts, NlTypes
  <2> QED BY <1>5, <2>1 DEF N!CountAttempts
<1>6. CASE N!ReturnUnsubmitted \/ N!CountStreak
  BY <1>6 DEF N!ReturnUnsubmitted, N!CountStreak
<1>7. CASE N!RaiseIssue \/ N!RecordOutcome
  BY <1>7 DEF N!RaiseIssue, N!RecordOutcome
<1>8. CASE N!StageResponse
  <2>1. one \in N!Samples
    BY <1>8 DEF N!StageResponse, NlTypes
  <2>2. nlSample'[one] = "response_staged"
    BY <1>8, <2>1, SetIs DEF N!StageResponse, N!SampleStatuses
  <2> QED BY <1>8, <2>2 DEF N!StageResponse
<1>9. CASE N!StagePrepared
  <2>1. one \in N!Samples
    BY <1>9 DEF N!StagePrepared, NlTypes
  <2>2. nlSample'[one] = "prepared"
    BY <1>9, <2>1, SetIs DEF N!StagePrepared, N!SampleStatuses
  <2> QED BY <1>9, <2>2 DEF N!StagePrepared
<1>10. CASE N!CommitPrepared \/ N!DeleteStaged \/ N!CompleteSample
  BY <1>10 DEF N!CommitPrepared, N!DeleteStaged, N!CompleteSample
<1>11. CASE N!HandleLost \/ N!WorkerExited \/ N!FailModule \/ N!SettleReturned
  BY <1>11 DEF N!HandleLost, N!WorkerExited, N!FailModule, N!SettleReturned
<1>12. CASE N!Pause \/ N!AddBudget \/ N!BeginConfirmation \/ N!BeginCancellation \/ N!SettleCancellation
  BY <1>12 DEF N!Pause, N!AddBudget, N!BeginConfirmation, N!BeginCancellation, N!SettleCancellation
<1>13. CASE N!Resume \/ N!BeginRecovery \/ N!RecoverSample \/ N!Recovered
  BY <1>13 DEF N!Resume, N!BeginRecovery, N!RecoverSample, N!Recovered
<1>14. CASE N!ConfirmUnknown
  <2>1. \A s \in N!Samples : nlSample[s] # "request_started" => nlSample'[s] = nlSample[s]
    BY <1>14, SetIs DEF N!ConfirmUnknown, N!In, N!SampleStatuses
  <2> QED BY <1>14, <2>1 DEF N!ConfirmUnknown, NlTypes
<1>15. CASE N!WorkerLost \/ N!RunnerError \/ N!Crash
  BY <1>15 DEF N!WorkerLost, N!RunnerError, N!Crash, N!Working
<1> QED
  BY <1>1, <1>2, <1>3, <1>4, <1>5, <1>6, <1>7, <1>8, <1>9, <1>10, <1>11, <1>12, <1>13, <1>14,
     <1>15
  DEF N!Next, N!Pipeline, N!User, N!Serve

\* What the worker is allowed is no more than what is left.
LEMMA AllowanceLeft ==
  ASSUME NlTypes
  PROVE  N!Allowance \in Int /\ N!Allowance <= maximum - attempts
<1>1. Cardinality(requests) * PerItem \in Int
  <2>1. 1 \in Int /\ NumSamples \in Int /\ PerItem \in Nat
    BY Policy
  <2>2. IsFiniteSet(requests)
    BY <2>1, FS_Interval, FS_Subset DEF NlTypes, N!Samples
  <2>3. Cardinality(requests) \in Nat
    BY <2>2, FS_CardinalityType
  <2> QED BY <2>1, <2>3
<1>2. maximum - attempts \in Int
  BY DEF NlTypes
<1>3. N!Cardinality(requests) = Cardinality(requests)
  BY DEF N!Cardinality, Cardinality
<1> QED BY <1>1, <1>2, <1>3 DEF N!Allowance, N!AtMost

\* The answers of a batch count no more than what was left when it was sent.
LEMMA BudgetStep == ASSUME NlTypes, NlInv, N!Next PROVE BudgetInv' /\ N!BudgetKept'
<1> USE DEF NlInv, BudgetInv, N!BudgetKept, Settling, N!row, N!ledger, N!queue, N!counters, N!local
<1>0. Budget \in Nat
  BY Policy
<1>1. CASE N!CompleteUpdate
  BY <1>1 DEF N!CompleteUpdate, HandInv
<1>2. CASE N!Launch \/ N!BatchSettled \/ N!ReleaseUnstarted \/ N!HandleLost \/ N!FailModule \/ N!Crash
  <2>1. /\ nlPc' \notin {"mark", "exchange", "outcome"} \cup Settling
        /\ maximum' = Budget /\ UNCHANGED <<attempts, extra>>
    BY <1>2, EmptyHand
    DEF N!Launch, N!BatchSettled, N!ReleaseUnstarted, N!HandleLost, N!FailModule, N!Crash
  <2> QED BY <1>0, <2>1 DEF NlTypes
<1>3. CASE N!Yield \/ N!Claim \/ N!Drained \/ N!NotActive \/ N!SettleLocally \/ N!NeedsRequest
  BY <1>3 DEF N!Yield, N!Claim, N!Drained, N!NotActive, N!SettleLocally, N!NeedsRequest
<1>4. CASE N!Checked
  BY <1>0, <1>4 DEF N!Checked, NlTypes
<1>5. CASE N!CheckBudget
  BY <1>5 DEF N!CheckBudget, NlTypes
<1>6. CASE N!MarkRequestStarted \/ N!SendBatch \/ N!OutcomeRejected
  BY <1>6 DEF N!MarkRequestStarted, N!SendBatch, N!OutcomeRejected
<1>7. CASE N!Answered
  <2>1. N!Total(outcomes') <= N!Allowance
    BY <1>7 DEF N!Answered, N!Answers
  <2>2. NlTypes'
    BY <1>7, NlTypeStep DEF N!Next, N!Pipeline
  <2>3. N!Total(outcomes') \in Nat
    BY <2>2, TotalIsNat DEF NlTypes
  <2> QED BY <1>0, <1>7, <2>1, <2>3, AllowanceLeft DEF N!Answered, NlTypes
<1>8. CASE N!CountAttempts
  <2>1. one' \in DOMAIN outcomes
    BY <1>8, NlFirstIn DEF N!CountAttempts, NlTypes
  <2>2. N!Rest' = [s \in DOMAIN outcomes \ {one'} |-> outcomes[s]]
    BY <1>8 DEF N!CountAttempts, N!Rest
  <2>3. /\ N!Total(outcomes) \in Nat /\ N!Total(N!Rest') \in Nat
        /\ N!Total(outcomes) = outcomes[one'].n + N!Total(N!Rest')
    BY <2>1, <2>2, TotalWithout DEF NlTypes
  <2>4. attempts' = attempts + outcomes[one'].n /\ outcomes[one'].n \in Nat
    BY <1>8, <2>1 DEF N!CountAttempts, NlTypes
  <2> QED BY <1>0, <1>8, <2>3, <2>4 DEF N!CountAttempts, NlTypes
<1>9. CASE N!ReturnUnsubmitted \/ N!CountStreak
  BY <1>9 DEF N!ReturnUnsubmitted, N!CountStreak
<1>10. CASE N!RaiseIssue \/ N!StageResponse \/ N!StagePrepared \/ N!CommitPrepared
  BY <1>10 DEF N!RaiseIssue, N!StageResponse, N!StagePrepared, N!CommitPrepared, N!Rest
<1>11. CASE N!DeleteStaged \/ N!CompleteSample \/ N!RecordOutcome
  BY <1>11 DEF N!DeleteStaged, N!CompleteSample, N!RecordOutcome, N!Rest
<1>12. CASE N!PauseItself \/ N!FailJob \/ N!FailRun
  BY <1>12 DEF N!PauseItself, N!FailJob, N!FailRun, N!BeginUpdate
<1>13. CASE N!WorkerExited \/ N!SettleReturned \/ N!Resume \/ N!BeginRecovery
  BY <1>13 DEF N!WorkerExited, N!SettleReturned, N!Resume, N!BeginRecovery
<1>14. CASE N!Pause \/ N!BeginConfirmation \/ N!BeginCancellation \/ N!ConfirmUnknown
  BY <1>14 DEF N!Pause, N!BeginConfirmation, N!BeginCancellation, N!ConfirmUnknown, N!Rest
<1>15. CASE N!SettleCancellation
  BY <1>15 DEF N!SettleCancellation, N!Rest
<1>16. CASE N!RecoverSample \/ N!Recovered \/ N!WorkerLost \/ N!RunnerError
  BY <1>16 DEF N!RecoverSample, N!Recovered, N!WorkerLost, N!RunnerError
<1>17. CASE N!AddBudget
  <2>1. N!Rest' = N!Rest
    BY <1>17 DEF N!AddBudget, N!Rest
  <2> QED BY <1>0, <1>17, <2>1 DEF N!AddBudget, NlTypes
<1> QED
  BY <1>1, <1>2, <1>3, <1>4, <1>5, <1>6, <1>7, <1>8, <1>9, <1>10, <1>11, <1>12, <1>13, <1>14,
     <1>15, <1>16, <1>17
  DEF N!Next, N!Pipeline, N!User, N!Serve

\* Moving samples that have no request of unknown outcome.
LEMMA KnownMoves ==
  ASSUME NlTypes, N!UnknownKept, NEW S, NEW to \in N!SampleStatuses, N!Set(S, to),
         \A s \in S : s \notin unknown', unknown' \subseteq unknown
  PROVE  N!UnknownKept'
<1>1. \A s \in N!Samples : s \notin S => nlSample'[s] = nlSample[s]
  BY SetIs
<1> QED BY <1>1 DEF N!UnknownKept, NlTypes

\* No step but the confirmation moves a request whose outcome is unknown.
LEMMA UnknownStep == ASSUME NlTypes, NlInv, N!Next PROVE N!UnknownKept'
<1> USE DEF NlInv, N!row, N!ledger, N!queue, N!counters, N!local, N!SampleStatuses
<1>1. CASE UNCHANGED <<nlSample, unknown>>
  BY <1>1 DEF N!UnknownKept
<1>2. CASE N!Claim
  <2>1. PICK claimed \in SUBSET N!In({"pending"}) : N!Set(claimed, "leased") /\ unknown' = unknown
    BY <1>2 DEF N!Claim, N!Lowest
  <2>2. \A s \in claimed : s \notin unknown
    BY <2>1 DEF N!In, N!UnknownKept
  <2> QED BY <2>1, <2>2, KnownMoves
<1>3. CASE N!SettleLocally
  <2>1. N!First(nlTodo) \in nlTodo /\ nlSample[N!First(nlTodo)] = "leased" /\ unknown' = unknown
    BY <1>3, NlFirstIn DEF N!SettleLocally, NlTypes, HandInv
  <2>2. \A s \in {N!First(nlTodo)} : s \notin unknown
    BY <2>1 DEF N!UnknownKept
  <2>3. N!Set({N!First(nlTodo)}, "completed") \/ N!Set({N!First(nlTodo)}, "failed")
    BY <1>3 DEF N!SettleLocally
  <2> QED BY <2>1, <2>2, <2>3, KnownMoves
<1>4. CASE N!ReleaseUnstarted
  <2>1. N!Set(requests, "pending") /\ unknown' = unknown
    BY <1>4 DEF N!ReleaseUnstarted
  <2>2. \A s \in requests : s \notin unknown
    BY <1>4 DEF N!ReleaseUnstarted, HandInv, N!UnknownKept
  <2> QED BY <2>1, <2>2, KnownMoves
<1>5. CASE N!MarkRequestStarted
  <2>1. N!Set({N!First(nlTodo)}, "request_started") /\ unknown' = unknown
    BY <1>5 DEF N!MarkRequestStarted
  <2>2. \A s \in N!Samples : nlSample'[s] = nlSample[s] \/ nlSample'[s] = "request_started"
    BY <2>1, SetIs
  <2> QED BY <2>1, <2>2 DEF N!UnknownKept, NlTypes
<1>6. CASE N!SendBatch
  BY <1>6 DEF N!SendBatch, N!UnknownKept
<1>7. CASE N!ReturnUnsubmitted \/ N!RaiseIssue \/ N!StageResponse
  <2>1. /\ N!Set({one}, "pending") \/ N!Set({one}, "failed") \/ N!Set({one}, "response_staged")
        /\ unknown' = unknown \ {one}
    BY <1>7 DEF N!ReturnUnsubmitted, N!RaiseIssue, N!StageResponse
  <2> QED BY <2>1, KnownMoves
<1>8. CASE N!StagePrepared \/ N!CompleteSample
  <2>1. nlSample[one] # "request_started" /\ unknown' = unknown
    BY <1>8 DEF N!StagePrepared, N!CompleteSample, SettlingInv
  <2>2. \A s \in {one} : s \notin unknown
    BY <2>1 DEF N!UnknownKept
  <2>3. N!Set({one}, "prepared") \/ N!Set({one}, "completed")
    BY <1>8 DEF N!StagePrepared, N!CompleteSample
  <2> QED BY <2>1, <2>2, <2>3, KnownMoves
<1>9. CASE N!HandleLost \/ N!FailModule \/ N!WorkerExited
  <2>1. PICK leased \in SUBSET N!In({"leased"}) :
          (N!Set(leased, "pending") \/ nlSample' = nlSample) /\ unknown' = unknown
    <3>1. CASE N!HandleLost \/ N!FailModule
      <4>1. {s \in nlHeld : nlSample[s] = "leased"} \in SUBSET N!In({"leased"})
        BY DEF N!In, NlTypes
      <4> QED BY <3>1, <4>1 DEF N!HandleLost, N!FailModule
    <3>2. CASE N!WorkerExited
      BY <3>2 DEF N!WorkerExited
    <3> QED BY <1>9, <3>1, <3>2
  <2>2. \A s \in leased : s \notin unknown
    BY <2>1 DEF N!In, N!UnknownKept
  <2> QED BY <2>1, <2>2, KnownMoves DEF N!UnknownKept
<1>10. CASE N!ConfirmUnknown
  <2>1. \A s \in N!In({"request_started"}) : s \notin unknown'
    BY <1>10 DEF N!ConfirmUnknown
  <2> QED BY <1>10, <2>1, KnownMoves DEF N!ConfirmUnknown
<1>11. CASE N!RecoverSample
  <2>1. N!First(nlTodo) \in nlTodo /\ unknown' = unknown
    BY <1>11, NlFirstIn DEF N!RecoverSample, NlTypes
  <2>2. \/ nlSample' = nlSample
        \/ /\ nlSample[N!First(nlTodo)] # "request_started"
           /\ N!Set({N!First(nlTodo)}, "pending") \/ N!Set({N!First(nlTodo)}, "completed")
    BY <1>11 DEF N!RecoverSample
  <2>3. CASE nlSample[N!First(nlTodo)] # "request_started"
    <3>1. \A s \in {N!First(nlTodo)} : s \notin unknown
      BY <2>3 DEF N!UnknownKept
    <3> QED BY <2>1, <2>2, <3>1, KnownMoves DEF N!UnknownKept
  <2> QED BY <2>1, <2>2, <2>3 DEF N!UnknownKept
<1>12. CASE N!CompleteUpdate \/ N!Launch \/ N!Yield \/ N!Drained \/ N!NotActive \/ N!NeedsRequest \/ N!Checked
  BY <1>1, <1>12
  DEF N!CompleteUpdate, N!Launch, N!Yield, N!Drained, N!NotActive, N!NeedsRequest, N!Checked
<1>13. CASE N!CheckBudget \/ N!Answered \/ N!CountAttempts \/ N!OutcomeRejected \/ N!CommitPrepared
  BY <1>1, <1>13 DEF N!CheckBudget, N!Answered, N!CountAttempts, N!OutcomeRejected, N!CommitPrepared
<1>14. CASE N!DeleteStaged \/ N!RecordOutcome \/ N!CountStreak \/ N!BatchSettled \/ N!PauseItself
  BY <1>1, <1>14 DEF N!DeleteStaged, N!RecordOutcome, N!CountStreak, N!BatchSettled, N!PauseItself
<1>15. CASE N!FailJob \/ N!FailRun \/ N!SettleReturned \/ N!User \/ N!SettleCancellation \/ N!Recovered
  BY <1>1, <1>15
  DEF N!FailJob, N!FailRun, N!SettleReturned, N!User, N!Pause, N!Resume, N!AddBudget, N!BeginConfirmation,
      N!BeginCancellation, N!BeginRecovery, N!SettleCancellation, N!Recovered
<1>16. CASE N!WorkerLost \/ N!RunnerError \/ N!Crash
  BY <1>1, <1>16 DEF N!WorkerLost, N!RunnerError, N!Crash
<1> QED
  BY <1>2, <1>3, <1>4, <1>5, <1>6, <1>7, <1>8, <1>9, <1>10, <1>11, <1>12, <1>13, <1>14, <1>15,
     <1>16
  DEF N!Next, N!Pipeline, N!Serve

\* What AnswersKept says of one step.
StepKeepsAnswers ==
  /\ nlStaged \ nlStaged' \subseteq nlOverlay'
  /\ nlOverlay \subseteq nlOverlay'
  /\ \A s \in N!Samples :
       /\ nlSample[s] = "response_staged" =>
            nlSample'[s] \in {"response_staged", "prepared", "completed"}
       /\ nlSample'[s] \in {"response_staged", "prepared"} => s \in nlStaged' \cup nlOverlay'
       /\ nlSample'[s] = "completed" => s \in nlOverlay'

\* Moving samples to where an answer has been put away.
LEMMA PaidMoves ==
  ASSUME NlTypes, PaidInv, NEW S, NEW to \in N!SampleStatuses, N!Set(S, to),
         to \notin {"response_staged", "prepared", "completed"} =>
           \A s \in S : nlSample[s] # "response_staged",
         to = "response_staged" => S \subseteq nlStaged',
         to = "prepared" => S \subseteq nlStaged',
         to = "completed" => S \subseteq nlOverlay',
         nlOverlay \subseteq nlOverlay',
         nlStaged \ nlStaged' \subseteq nlOverlay' \cap S
  PROVE  PaidInv' /\ StepKeepsAnswers
<1>1. \A s \in N!Samples : nlSample'[s] = IF s \in S THEN to ELSE nlSample[s]
  BY SetIs
<1>2. PaidInv'
  BY <1>1 DEF PaidInv
<1>3. StepKeepsAnswers
  BY <1>1, <1>2 DEF PaidInv, StepKeepsAnswers
<1> QED BY <1>2, <1>3

\* An answer leaves the staging only when the overlay has it.
LEMMA AnswersStep == ASSUME NlTypes, NlInv, N!Next PROVE PaidInv' /\ StepKeepsAnswers
<1> USE DEF NlInv, N!row, N!ledger, N!queue, N!counters, N!local, N!SampleStatuses
<1>1. CASE UNCHANGED <<nlSample, nlStaged, nlOverlay>>
  BY <1>1 DEF PaidInv, StepKeepsAnswers
<1>2. CASE N!Claim
  <2>1. PICK claimed \in SUBSET N!In({"pending"}) :
          N!Set(claimed, "leased") /\ UNCHANGED <<nlStaged, nlOverlay>>
    BY <1>2 DEF N!Claim, N!Lowest
  <2>2. \A s \in claimed : nlSample[s] # "response_staged"
    BY <2>1 DEF N!In
  <2> QED BY <2>1, <2>2, PaidMoves
<1>3. CASE N!SettleLocally
  <2>1. /\ \/ N!Set({N!First(nlTodo)}, "completed") /\ nlOverlay' = nlOverlay \cup {N!First(nlTodo)}
           \/ N!Set({N!First(nlTodo)}, "failed") /\ UNCHANGED nlOverlay
        /\ UNCHANGED nlStaged
    BY <1>3 DEF N!SettleLocally
  <2>2. nlSample[N!First(nlTodo)] = "leased"
    BY <1>3, NlFirstIn DEF N!SettleLocally, NlTypes, HandInv
  <2> QED BY <2>1, <2>2, PaidMoves
<1>4. CASE N!ReleaseUnstarted \/ N!MarkRequestStarted \/ N!ReturnUnsubmitted \/ N!RaiseIssue
  <2>1. CASE N!ReleaseUnstarted
    <3>1. N!Set(requests, "pending") /\ UNCHANGED <<nlStaged, nlOverlay>>
      BY <2>1 DEF N!ReleaseUnstarted
    <3>2. \A s \in requests : nlSample[s] # "response_staged"
      BY <2>1 DEF N!ReleaseUnstarted, HandInv
    <3> QED BY <3>1, <3>2, PaidMoves
  <2>2. CASE N!MarkRequestStarted
    <3>1. N!Set({N!First(nlTodo)}, "request_started") /\ UNCHANGED <<nlStaged, nlOverlay>>
      BY <2>2 DEF N!MarkRequestStarted
    <3>2. nlSample[N!First(nlTodo)] # "response_staged"
      BY <2>2, NlFirstIn DEF N!MarkRequestStarted, NlTypes, HandInv
    <3> QED BY <3>1, <3>2, PaidMoves
  <2>3. CASE N!ReturnUnsubmitted \/ N!RaiseIssue
    <3>1. /\ N!Set({one}, "pending") \/ N!Set({one}, "failed")
          /\ UNCHANGED <<nlStaged, nlOverlay>>
      BY <2>3 DEF N!ReturnUnsubmitted, N!RaiseIssue
    <3>2. nlSample[one] # "response_staged"
      BY <2>3 DEF N!ReturnUnsubmitted, N!RaiseIssue, N!Started
    <3> QED BY <3>1, <3>2, PaidMoves
  <2> QED BY <1>4, <2>1, <2>2, <2>3
<1>5. CASE N!StageResponse
  <2>1. N!Set({one}, "response_staged") /\ nlStaged' = nlStaged \cup {one} /\ UNCHANGED nlOverlay
    BY <1>5 DEF N!StageResponse
  <2> QED BY <2>1, PaidMoves
<1>6. CASE N!StagePrepared
  <2>1. N!Set({one}, "prepared") /\ UNCHANGED <<nlStaged, nlOverlay>>
    BY <1>6 DEF N!StagePrepared
  <2>2. one \in nlStaged
    BY <1>6 DEF N!StagePrepared, SettlingInv, PaidInv, Settling, NlTypes
  <2> QED BY <2>1, <2>2, PaidMoves
<1>7. CASE N!CommitPrepared
  BY <1>7 DEF N!CommitPrepared, PaidInv, StepKeepsAnswers
<1>8. CASE N!DeleteStaged
  <2>1. nlSample[one] = "prepared" /\ one \in nlOverlay
    BY <1>8 DEF N!DeleteStaged, SettlingInv
  <2> QED BY <1>8, <2>1 DEF N!DeleteStaged, PaidInv, StepKeepsAnswers
<1>9. CASE N!CompleteSample
  <2>1. one \in nlOverlay
    BY <1>9 DEF N!CompleteSample, SettlingInv
  <2>2. N!Set({one}, "completed") /\ UNCHANGED <<nlStaged, nlOverlay>>
    BY <1>9 DEF N!CompleteSample
  <2> QED BY <2>1, <2>2, PaidMoves
<1>10. CASE N!HandleLost \/ N!FailModule \/ N!WorkerExited \/ N!ConfirmUnknown
  <2>1. PICK S \in SUBSET N!In({"leased", "request_started"}) :
          (N!Set(S, "pending") \/ nlSample' = nlSample) /\ UNCHANGED <<nlStaged, nlOverlay>>
    <3>1. CASE N!HandleLost \/ N!FailModule
      <4>1. {s \in nlHeld : nlSample[s] = "leased"} \in SUBSET N!In({"leased", "request_started"})
        BY DEF N!In, NlTypes
      <4> QED BY <3>1, <4>1 DEF N!HandleLost, N!FailModule
    <3>2. CASE N!WorkerExited
      <4>1. N!In({"leased"}) \in SUBSET N!In({"leased", "request_started"})
        BY DEF N!In
      <4> QED BY <3>2, <4>1 DEF N!WorkerExited
    <3>3. CASE N!ConfirmUnknown
      <4>1. N!In({"request_started"}) \in SUBSET N!In({"leased", "request_started"})
        BY DEF N!In
      <4> QED BY <3>3, <4>1 DEF N!ConfirmUnknown
    <3> QED BY <1>10, <3>1, <3>2, <3>3
  <2>2. \A s \in S : nlSample[s] # "response_staged"
    BY <2>1 DEF N!In
  <2> QED BY <1>1, <2>1, <2>2, PaidMoves
<1>11. CASE N!RecoverSample
  <2> DEFINE s == N!First(nlTodo)
  <2>1. \/ UNCHANGED <<nlSample, nlStaged, nlOverlay>>
        \/ /\ N!Set({s}, "pending") /\ nlSample[s] # "response_staged"
           /\ UNCHANGED <<nlStaged, nlOverlay>>
        \/ /\ N!Set({s}, "completed") /\ nlOverlay' = nlOverlay \cup {s}
           /\ nlStaged' = nlStaged \/ nlStaged' = nlStaged \ {s}
    BY <1>11 DEF N!RecoverSample
  <2> QED BY <1>1, <2>1, PaidMoves
<1>12. CASE N!CompleteUpdate \/ N!Launch \/ N!Yield \/ N!Drained \/ N!NotActive \/ N!NeedsRequest \/ N!Checked
  BY <1>1, <1>12
  DEF N!CompleteUpdate, N!Launch, N!Yield, N!Drained, N!NotActive, N!NeedsRequest, N!Checked
<1>13. CASE N!CheckBudget \/ N!Answered \/ N!CountAttempts \/ N!OutcomeRejected \/ N!SendBatch
  BY <1>1, <1>13 DEF N!CheckBudget, N!Answered, N!CountAttempts, N!OutcomeRejected, N!SendBatch
<1>14. CASE N!RecordOutcome \/ N!CountStreak \/ N!BatchSettled \/ N!PauseItself
  BY <1>1, <1>14 DEF N!RecordOutcome, N!CountStreak, N!BatchSettled, N!PauseItself
<1>15. CASE N!FailJob \/ N!FailRun \/ N!SettleReturned \/ N!User \/ N!SettleCancellation \/ N!Recovered
  BY <1>1, <1>15
  DEF N!FailJob, N!FailRun, N!SettleReturned, N!User, N!Pause, N!Resume, N!AddBudget, N!BeginConfirmation,
      N!BeginCancellation, N!BeginRecovery, N!SettleCancellation, N!Recovered
<1>16. CASE N!WorkerLost \/ N!RunnerError \/ N!Crash
  BY <1>1, <1>16 DEF N!WorkerLost, N!RunnerError, N!Crash
<1> QED
  BY <1>2, <1>3, <1>4, <1>5, <1>6, <1>7, <1>8, <1>9, <1>10, <1>11, <1>12, <1>13, <1>14, <1>15,
     <1>16
  DEF N!Next, N!Pipeline, N!Serve

-----------------------------------------------------------------------------
(* The theorems                                                            *)

\* It holds of the first state.
LEMMA NlStarts == ASSUME N!Init PROVE NlTypes /\ NlInv
<1>1. DOMAIN <<>> = {} /\ Budget \in Nat
  BY Policy
<1>2. NlTypes
  BY <1>1 DEF N!Init, NlTypes, N!SampleStatuses
<1>3. HandInv /\ SettlingInv
  BY DEF N!Init, HandInv, SettlingInv, Settling
<1>4. BudgetInv /\ N!BudgetKept
  BY <1>1 DEF N!Init, BudgetInv, N!BudgetKept, Settling
<1>5. N!UnknownKept /\ PaidInv
  BY DEF N!Init, N!UnknownKept, PaidInv
<1> QED BY <1>2, <1>3, <1>4, <1>5 DEF NlInv

\* A step that changes nothing keeps it.
LEMMA NlStutters == ASSUME NlTypes, NlInv, UNCHANGED N!vars PROVE NlTypes' /\ NlInv'
<1> USE DEF N!vars, N!row, N!ledger, N!queue, N!counters, N!local
<1>1. NlTypes'
  BY DEF NlTypes
<1>2. HandInv' /\ SettlingInv'
  BY DEF NlInv, HandInv, SettlingInv, Settling
<1>3. N!Rest' = N!Rest
  BY DEF N!Rest
<1>4. BudgetInv' /\ N!BudgetKept'
  BY <1>3 DEF NlInv, BudgetInv, N!BudgetKept, Settling
<1>5. N!UnknownKept' /\ PaidInv'
  BY DEF NlInv, N!UnknownKept, PaidInv
<1> QED BY <1>1, <1>2, <1>4, <1>5 DEF NlInv

\* And so does every step of the module.
LEMMA NlStep == ASSUME NlTypes, NlInv, N!Next PROVE NlTypes' /\ NlInv'
BY NlTypeStep, HandStep, SettlingStep, BudgetStep, UnknownStep, AnswersStep DEF NlInv

\* The invariant holds always.
LEMMA NlInvariants == NlSpec => [](NlTypes /\ NlInv)
<1>1. NlInit => NlTypes /\ NlInv
  BY NlStarts DEF NlInit
<1>2. NlTypes /\ NlInv /\ [N!Next /\ UNCHANGED vars]_<<vars, nlVars>> => (NlTypes /\ NlInv)'
  <2>1. UNCHANGED nlVars => UNCHANGED N!vars
    BY DEF nlVars, N!vars, N!row, N!ledger, N!queue, N!counters, N!local
  <2> QED BY <2>1, NlStep, NlStutters
<1> QED BY <1>1, <1>2, PTL DEF NlSpec

\* A request whose outcome the core has not seen keeps its mark until the user confirms
\* it, so no batch holds it again: mark_nl_request_started, recover,
\* confirm_nl_api_outcome_unknown.
THEOREM UnknownIsKept == NlSpec => []UnknownKept
<1>1. NlInv => UnknownKept
  BY DEF NlInv, UnknownKept
<1> QED BY <1>1, NlInvariants, PTL

\* The attempts that nl_http_attempts counts stay within the budget and its extensions,
\* though the budget is read once for a batch of requests.
THEOREM BudgetIsKept == NlSpec => []BudgetKept
<1>1. NlInv => BudgetKept
  BY DEF NlInv, BudgetKept
<1> QED BY <1>1, NlInvariants, PTL

\* A row leaves staged_nl only when the overlay has its text, a sample whose answer is staged
\* is never asked for again, and what completes is in the overlay: commit_staged, recover.
THEOREM PaidAnswersKept == NlSpec => AnswersKept
<1>1. NlTypes /\ NlInv /\ [N!Next /\ UNCHANGED vars]_<<vars, nlVars>>
        => [StepKeepsAnswers]_N!vars
  <2>1. UNCHANGED nlVars => UNCHANGED N!vars
    BY DEF nlVars, N!vars, N!row, N!ledger, N!queue, N!counters, N!local
  <2> QED BY <2>1, AnswersStep
<1>2. NlSpec => [][StepKeepsAnswers]_N!vars
  BY <1>1, NlInvariants, PTL DEF NlSpec
<1> QED BY <1>2 DEF AnswersKept, N!AnswersKept, StepKeepsAnswers
=============================================================================

-------------------------- MODULE TokenBudget_proofs --------------------------
(***************************************************************************)
(* Proofs about TokenBudget, for every number of samples, requests,        *)
(* versions, attempts and faults: what is exported was counted, what is    *)
(* asked of the paid model stays in the budget, and a settled sample stays *)
(* settled.                                                                *)
(***************************************************************************)
EXTENDS TokenBudget, FiniteSetTheorems, WellFoundedInduction, TLAPS

-----------------------------------------------------------------------------
(* The inductive invariant                                                 *)

Stages ==
  {"idle", "sweep", "prepared", "verify", "reset", "conclude", "answer", "read", "save",
   "lease", "file", "record", "stage", "commit", "finalise", "resolve",
   "operation", "begin", "reserve", "call", "charge", "unknown", "recheck"}

Asked ==
  [op : Operations \cup {"none"}, stage : Stages, s : Nat, v : Nat, base : Nat,
   rows : SUBSET (Samples \X Nat), allowance : Nat, charge : Nat, paid : BOOLEAN]

QueueType ==
  /\ st \in [Samples -> {"pending", "leased", "prepared", "failed", "completed", "export"}]
  /\ lease \in [Samples -> Nat]
  /\ issues \in [Samples -> SUBSET {"overflow", "worker", "gate"}]
  /\ todo \subseteq Samples

OverlayType ==
  /\ text \in [Samples -> Nat] /\ record \in [Samples -> Nat \cup {None}]
  /\ files \in [Samples -> SUBSET Nat] /\ fitting \in [Samples -> SUBSET Nat]
  /\ proposal \in [Samples -> [version : Nat \ {0}, fits : BOOLEAN, base : Nat]]

RequestType ==
  /\ req \in [Requests -> Asked]
  /\ used \in Nat /\ reserved \in Nat /\ sent \in Nat

TypeOK == QueueType /\ OverlayType /\ RequestType

\* The stages in which a request holds the lease of its proposal.
Applying == {"file", "record", "stage", "commit", "finalise", "resolve"}

\* Rows are leases of the review, and what is applied was counted within the budget.
RequestInv ==
  \A q \in Requests :
    /\ req[q].stage # "idle" => req[q].s \in Samples
    /\ \A r \in req[q].rows : r[1] \in Samples /\ r[2] > 1
    /\ req[q].stage \in {"verify", "reset", "conclude"} => req[q].rows # {}
    /\ req[q].stage \in Applying => req[q].v > 1 /\ req[q].v \in fitting[req[q].s]

\* The runner between a claim and the end of the batch.
Batch == {"exchange", "settle", "stage", "commit", "complete"}

\* No request reaches the samples of the batch: their lease is none of the review's.
RunnerInv ==
  /\ pc \in Batch => \A s \in todo : st[s] \in {"leased", "prepared"} /\ lease[s] = 1
  /\ pc \in {"stage", "commit", "complete"} => todo # {}
  /\ pc \in {"stage", "commit"} => 1 \in fitting[First(todo)]

\* Artifacts, texts, records and proposals that fit are of texts that were counted.
CountedInv ==
  \A s \in Samples :
    /\ files[s] \subseteq fitting[s]
    /\ text[s] \in fitting[s] \cup {0} /\ record[s] \in fitting[s] \cup {None}
    /\ proposal[s].fits => proposal[s].version > 1 /\ proposal[s].version \in fitting[s]

\* What the gate has passed was counted.
GateInv ==
  pc = "gate" /\ ~gateFailed => \A s \in Samples \ todo : text[s] \in fitting[s]

\* What a request may still send, or has to give back.
Owed(q) ==
  CASE req[q].stage = "call" -> req[q].allowance
    [] req[q].stage = "charge" -> req[q].allowance - req[q].charge
    [] OTHER -> 0

Slack == {w \in Requests \X (Nat \ {0}) : w[2] <= Owed(w[1])}

\* The attempts that were made are paid for without what the requests owe.
BudgetInv ==
  /\ \A q \in Requests : req[q].stage = "charge" => req[q].charge <= req[q].allowance
  /\ IsFiniteSet(Slack)
  /\ sent + Cardinality(Slack) <= used + reserved /\ used + reserved <= Attempts

IInv == RequestInv /\ RunnerInv /\ CountedInv /\ GateInv /\ BudgetInv /\ ExportsWithinBudget

-----------------------------------------------------------------------------
(* Choices of the least                                                    *)

Below == {p \in Nat \X Nat : p[1] < p[2]}

\* A nonempty set of naturals has a least element.
LEMMA Least == ASSUME NEW S \in SUBSET Nat, S # {} PROVE \E x \in S : \A y \in S : x <= y
<1>1. IsWellFoundedOn(Below, Nat)
  <2>1. Below = OpToRel(<, Nat)
    BY DEF OpToRel, Below
  <2> QED BY <2>1, NatLessThanWellFounded
<1>2. PICK x \in S : \A y \in S : ~(<<y, x>> \in Below)
  BY <1>1, WFMin
<1>3. ASSUME NEW y \in S PROVE x <= y
  <2>1. x \in Nat /\ y \in Nat
    OBVIOUS
  <2>2. ~(<<y, x>> \in Below)
    BY <1>2
  <2>3. ~(y < x)
    BY <2>1, <2>2 DEF Below
  <2> QED BY <2>1, <2>3
<1> QED BY <1>3

\* The next sample of a set is one of the set.
LEMMA FirstIn == ASSUME NEW S \in SUBSET Samples, S # {} PROVE First(S) \in S
<1>1. S \in SUBSET Nat
  BY TokenBudgetAssumption DEF Samples
<1>2. PICK x \in S : \A y \in S : x <= y
  BY <1>1, Least
<1> QED BY <1>2 DEF First

\* The next row of a request is one of its rows.
LEMMA OneRowIn ==
  ASSUME RequestType, NEW q \in Requests, req[q].rows # {} PROVE OneRow(q) \in req[q].rows
<1> DEFINE firsts == {r[1] : r \in req[q].rows}
<1>1. req[q].rows \subseteq Samples \X Nat
  BY DEF RequestType, Asked
<1>2. firsts \in SUBSET Nat /\ firsts # {}
  BY <1>1, TokenBudgetAssumption DEF Samples
<1>3. PICK x \in firsts : \A y \in firsts : x <= y
  BY <1>2, Least
<1>4. PICK r \in req[q].rows : \A t \in req[q].rows : r[1] <= t[1]
  BY <1>3
<1> QED BY <1>4 DEF OneRow

\* A function keeps its type when one of its values is replaced by another of the type.
LEMMA Put ==
  ASSUME NEW A, NEW B, NEW f \in [A -> B], NEW x, NEW y \in B PROVE [f EXCEPT ![x] = y] \in [A -> B]
OBVIOUS

-----------------------------------------------------------------------------
(* The steps of a request                                                  *)

\* A request that goes on keeps everything but its stage.
LEMMA Going ==
  ASSUME RequestType, NEW q \in Requests, NEW stage \in Stages, Goto(q, stage)
  PROVE  /\ req' \in [Requests -> Asked] /\ \A p \in Requests \ {q} : req'[p] = req[p]
         /\ req'[q] = [req[q] EXCEPT !.stage = stage]
         /\ req'[q].stage = stage /\ req'[q].s = req[q].s /\ req'[q].v = req[q].v
         /\ req'[q].rows = req[q].rows /\ req'[q].allowance = req[q].allowance
         /\ req'[q].charge = req[q].charge
<1>1. req[q] \in Asked
  BY DEF RequestType
<1>2. req' = [req EXCEPT ![q] = [req[q] EXCEPT !.stage = stage]]
  BY DEF Goto, RequestType
<1>3. [req[q] EXCEPT !.stage = stage] \in Asked
  BY <1>1 DEF Asked
<1>4. req'[q] = [req[q] EXCEPT !.stage = stage]
  BY <1>2 DEF RequestType
<1>5. /\ req'[q].stage = stage /\ req'[q].s = req[q].s /\ req'[q].v = req[q].v
      /\ req'[q].rows = req[q].rows /\ req'[q].allowance = req[q].allowance
      /\ req'[q].charge = req[q].charge
  BY <1>1, <1>4 DEF Asked
<1> QED BY <1>2, <1>3, <1>4, <1>5 DEF RequestType

\* A request that has a row behind it keeps the others.
LEMMA GoingOn ==
  ASSUME RequestType, NEW q \in Requests, NEW stage \in Stages, NextRow(q, stage)
  PROVE  /\ req' \in [Requests -> Asked] /\ \A p \in Requests \ {q} : req'[p] = req[p]
         /\ req'[q].stage = stage /\ req'[q].s = req[q].s /\ req'[q].v = req[q].v
         /\ req'[q].rows = req[q].rows \ {OneRow(q)} /\ req'[q].allowance = req[q].allowance
         /\ req'[q].charge = req[q].charge
<1>1. req[q] \in Asked
  BY DEF RequestType
<1> DEFINE to == [req[q] EXCEPT !.stage = stage, !.rows = @ \ {OneRow(q)}]
<1>2. req' = [req EXCEPT ![q] = to]
  BY DEF NextRow, RequestType
<1>3. to \in Asked
  BY <1>1 DEF Asked
<1>4. /\ to.stage = stage /\ to.s = req[q].s /\ to.v = req[q].v
      /\ to.rows = req[q].rows \ {OneRow(q)} /\ to.allowance = req[q].allowance
      /\ to.charge = req[q].charge
  BY <1>1 DEF Asked
<1>5. req'[q] = to
  BY <1>2 DEF RequestType
<1> QED BY <1>2, <1>3, <1>4, <1>5 DEF RequestType

\* A request that is answered leaves nothing.
LEMMA Answered ==
  ASSUME RequestType, NEW q \in Requests, Done(q)
  PROVE  /\ req' \in [Requests -> Asked] /\ \A p \in Requests \ {q} : req'[p] = req[p]
         /\ req'[q] = NoRequest /\ NoRequest.stage = "idle" /\ NoRequest.rows = {}
<1>1. NoRequest \in Asked
  BY DEF NoRequest, Asked, Stages
<1>2. NoRequest.stage = "idle" /\ NoRequest.rows = {}
  BY DEF NoRequest
<1> QED BY <1>1, <1>2 DEF Done, RequestType

\* The rows that a sweep starts from.
LEMMA RowsAre ==
  ASSUME QueueType, NEW state, NEW r \in RowsIn(state)
  PROVE  r \in Samples \X Nat /\ r[2] > 1
BY DEF RowsIn, Reviewed, QueueType

\* How a request's own step moves it.
Moves(q) ==
  /\ req' \in [Requests -> Asked] /\ \A p \in Requests \ {q} : req'[p] = req[p]
  /\ \/ req'[q] = NoRequest
     \/ /\ req'[q].s = req[q].s /\ req'[q].v = req[q].v
        /\ \/ req'[q].rows \subseteq req[q].rows
           \/ req'[q].rows \in {RowsIn("leased"), RowsIn("prepared")}
        /\ req'[q].stage \in {"verify", "reset", "conclude"} => req'[q].rows # {}
        /\ req'[q].stage \in Applying =>
             \/ req[q].stage \in Applying
             \/ proposal[req[q].s].fits /\ proposal[req[q].s].version = req[q].v
        /\ req'[q].stage \in {"call", "charge"} => req[q].stage \in {"reserve", "call"}

\* What is reserved for a rewrite is left of the budget.
Reserves(q) ==
  /\ req[q].stage = "reserve" /\ UNCHANGED <<used, sent>>
  /\ \/ Done(q) /\ UNCHANGED reserved
     \/ /\ req' \in [Requests -> Asked] /\ \A p \in Requests \ {q} : req'[p] = req[p]
        /\ req'[q].stage = "call" /\ req'[q].allowance \in 1 .. Attempts - used - reserved
        /\ req'[q].s = req[q].s /\ req'[q].v = req[q].v /\ req'[q].rows = req[q].rows
        /\ reserved' = reserved + req'[q].allowance

LEMMA Reserving ==
  ASSUME RequestType, NEW q \in Requests, ReserveAttempts(q) PROVE Reserves(q)
<1>1. CASE Remaining < 1
  BY <1>1 DEF ReserveAttempts, Reserves, At
<1>2. CASE ~(Remaining < 1)
  <2> DEFINE allowance == AtMost(Remaining, PerSample)
             to == [req[q] EXCEPT !.stage = "call", !.allowance = allowance]
  <2>1. allowance \in 1 .. Attempts - used - reserved /\ allowance \in Nat
    BY <1>2, TokenBudgetAssumption DEF AtMost, Remaining, RequestType
  <2>2. req[q] \in Asked
    BY DEF RequestType
  <2> HIDE DEF allowance
  <2>3. /\ to \in Asked /\ to.stage = "call" /\ to.allowance = allowance
        /\ to.s = req[q].s /\ to.v = req[q].v /\ to.rows = req[q].rows
    BY <2>1, <2>2 DEF Asked, Stages
  <2>4. req' = [req EXCEPT ![q] = to] /\ reserved' = reserved + allowance
    BY <1>2 DEF ReserveAttempts, allowance, RequestType
  <2>5. UNCHANGED <<used, sent>> /\ req[q].stage = "reserve"
    BY DEF ReserveAttempts, At
  <2> QED BY <2>1, <2>3, <2>4, <2>5 DEF Reserves, RequestType
<1> QED BY <1>1, <1>2

\* No more attempts are made, nor charged, than were allowed.
Calls(q) ==
  /\ req[q].stage = "call" /\ UNCHANGED <<used, reserved>>
  /\ req' \in [Requests -> Asked] /\ \A p \in Requests \ {q} : req'[p] = req[p]
  /\ req'[q].stage = "charge" /\ req'[q].allowance = req[q].allowance
  /\ req'[q].s = req[q].s /\ req'[q].v = req[q].v /\ req'[q].rows = req[q].rows
  /\ req'[q].charge \in 0 .. req[q].allowance /\ sent' - sent \in 0 .. req'[q].charge
  /\ sent' \in Nat

LEMMA Calling ==
  ASSUME RequestType, NEW q \in Requests, CallRewriter(q) PROVE Calls(q)
<1>1. PICK n \in 0 .. req[q].allowance :
        /\ sent' = sent + n
        /\ \/ /\ n > 0
              /\ req' = [req EXCEPT ![q].stage = "charge", ![q].charge = n, ![q].paid = TRUE]
           \/ req' = [req EXCEPT ![q].stage = "charge", ![q].charge = req[q].allowance]
  BY DEF CallRewriter
<1>2. req[q] \in Asked /\ req[q].allowance \in Nat /\ sent \in Nat /\ n \in Nat /\ n <= req[q].allowance
  BY DEF RequestType, Asked
<1>3. PICK charge \in {n, req[q].allowance}, paid \in BOOLEAN :
        req' = [req EXCEPT ![q] = [req[q] EXCEPT !.stage = "charge", !.charge = charge, !.paid = paid]]
  <2>1. CASE n > 0 /\ req' = [req EXCEPT ![q].stage = "charge", ![q].charge = n, ![q].paid = TRUE]
    <3>1. req' = [req EXCEPT ![q] = [req[q] EXCEPT !.stage = "charge", !.charge = n, !.paid = TRUE]]
      BY <2>1 DEF RequestType
    <3> QED BY <3>1
  <2>2. CASE req' = [req EXCEPT ![q].stage = "charge", ![q].charge = req[q].allowance]
    <3>1. req' = [req EXCEPT ![q] = [req[q] EXCEPT !.stage = "charge", !.charge = req[q].allowance]]
      BY <2>2 DEF RequestType
    <3>2. [req[q] EXCEPT !.stage = "charge", !.charge = req[q].allowance] =
            [req[q] EXCEPT !.stage = "charge", !.charge = req[q].allowance, !.paid = req[q].paid]
      BY <1>2 DEF Asked
    <3>3. req[q].paid \in BOOLEAN
      BY <1>2 DEF Asked
    <3> QED BY <3>1, <3>2, <3>3
  <2> QED BY <1>1, <2>1, <2>2
<1> DEFINE to == [req[q] EXCEPT !.stage = "charge", !.charge = charge, !.paid = paid]
<1>4. /\ to \in Asked /\ to.stage = "charge" /\ to.allowance = req[q].allowance
      /\ to.charge = charge /\ to.s = req[q].s /\ to.v = req[q].v /\ to.rows = req[q].rows
  BY <1>2 DEF Asked, Stages
<1>5. req[q].stage = "call" /\ UNCHANGED <<used, reserved>>
  BY DEF CallRewriter, At
<1> QED BY <1>1, <1>2, <1>3, <1>4, <1>5 DEF Calls, RequestType

\* Every step of a request keeps what its later steps rest on.
LEMMA Served ==
  ASSUME TypeOK, RequestInv, NEW q \in Requests, Serve(q)
  PROVE  Moves(q) /\ req[q].stage # "idle"
<1> USE DEF TypeOK
<1>1. CASE SweepLease(q) \/ ResetApply(q)
  BY <1>1, GoingOn DEF SweepLease, ResetApply, Moves, At, Stages, Applying
<1>2. CASE ConcludeApply(q)
  <2>1. CASE NextRow(q, "prepared")
    BY <1>2, <2>1, GoingOn DEF ConcludeApply, Moves, At, Stages, Applying
  <2>2. CASE Goto(q, "reset")
    <3>1. req[q].rows # {}
      BY <1>2 DEF ConcludeApply, At, RequestInv
    <3> QED BY <1>2, <2>2, <3>1, Going DEF ConcludeApply, Moves, At, Stages, Applying
  <2> QED BY <1>2, <2>1, <2>2 DEF ConcludeApply
<1>3. CASE LeasesSwept(q)
  <2> DEFINE to == [req[q] EXCEPT !.stage = "prepared", !.rows = RowsIn("prepared")]
  <2>1. req[q] \in Asked /\ RowsIn("prepared") \subseteq Samples \X Nat
    BY RowsAre DEF RequestType
  <2>2. to \in Asked /\ to.stage = "prepared" /\ to.rows = RowsIn("prepared")
        /\ to.s = req[q].s /\ to.v = req[q].v
    BY <2>1 DEF Asked, Stages
  <2>3. req' = [req EXCEPT ![q] = to]
    BY <1>3 DEF LeasesSwept, RequestType
  <2> QED BY <1>3, <2>2, <2>3 DEF LeasesSwept, At, Moves, Applying, RequestType
<1>4. CASE RecoverApply(q)
  BY <1>4, Going DEF RecoverApply, Moves, At, Stages, Applying
<1>5. CASE VerifyApply(q)
  BY <1>5, Going DEF VerifyApply, Moves, At, Stages, Applying, RequestInv
<1>6. CASE Recovered(q)
  <2>1. FirstStage(q) \in Stages \ (Applying \cup {"verify", "reset", "conclude", "call", "charge"})
    BY DEF FirstStage, Stages, Applying
  <2>2. CASE Goto(q, FirstStage(q))
    <3>1. PICK to \in Stages : to = FirstStage(q)
      BY <2>1
    <3>2. req' \in [Requests -> Asked] /\ (\A p \in Requests \ {q} : req'[p] = req[p])
          /\ req'[q].stage = to /\ req'[q].s = req[q].s /\ req'[q].v = req[q].v
          /\ req'[q].rows = req[q].rows
      BY <2>2, <3>1, Going
    <3> QED BY <1>6, <2>1, <3>1, <3>2 DEF Recovered, Moves, At
  <2> QED BY <1>6, <2>2, Answered DEF Recovered, Refuse, Moves, At
<1>7. CASE AnswerPage(q) \/ OutcomeUnknown(q)
  BY <1>7, Answered DEF AnswerPage, OutcomeUnknown, Moves, At
<1>8. CASE ReadForRecount(q)
  <2> DEFINE to == [req[q] EXCEPT !.stage = "save", !.base = text[req[q].s]]
  <2>1. CASE Done(q)
    BY <1>8, <2>1, Answered DEF ReadForRecount, At, Moves
  <2>2. CASE req' = [req EXCEPT ![q] = to]
    <3>1. req[q] \in Asked /\ text[req[q].s] \in Nat
      BY <1>8 DEF RequestType, OverlayType, ReadForRecount, At, RequestInv
    <3>2. to \in Asked /\ to.stage = "save" /\ to.rows = req[q].rows
          /\ to.s = req[q].s /\ to.v = req[q].v
      BY <3>1 DEF Asked, Stages
    <3> QED BY <1>8, <2>2, <3>2 DEF ReadForRecount, At, Moves, Applying, RequestType
  <2>3. req' = [req EXCEPT ![q] = to] \/ Done(q)
    BY <1>8 DEF ReadForRecount, Refuse, RequestType
  <2> QED BY <2>1, <2>2, <2>3
<1>9. CASE SaveProposal(q)
  BY <1>9, Answered DEF SaveProposal, Refuse, Moves, At
<1>10. CASE LeaseApply(q)
  BY <1>10, Going, Answered DEF LeaseApply, Moves, At, Stages
<1>11. CASE WriteArtifact(q) \/ WriteApplyRecord(q)
  BY <1>11, Going DEF WriteArtifact, WriteApplyRecord, Moves, At, Stages, Applying
<1>12. CASE StageApply(q) \/ CommitApply(q) \/ FinaliseApply(q)
  BY <1>12, Going, Answered DEF StageApply, CommitApply, FinaliseApply, Moves, At, Stages, Applying
<1>13. CASE ResolveApply(q)
  BY <1>13, Answered DEF ResolveApply, Moves, At
<1>14. CASE LookUpOperation(q)
  BY <1>14, Going, Answered DEF LookUpOperation, Moves, At, Stages, Applying
<1>15. CASE BeginOperation(q)
  <2> DEFINE to == [req[q] EXCEPT !.stage = "reserve", !.base = text[req[q].s]]
  <2>1. CASE Done(q)
    BY <1>15, <2>1, Answered DEF BeginOperation, At, Moves
  <2>2. CASE req' = [req EXCEPT ![q] = to]
    <3>1. req[q] \in Asked /\ text[req[q].s] \in Nat
      BY <1>15 DEF RequestType, OverlayType, BeginOperation, At, RequestInv
    <3>2. to \in Asked /\ to.stage = "reserve" /\ to.rows = req[q].rows
          /\ to.s = req[q].s /\ to.v = req[q].v
      BY <3>1 DEF Asked, Stages
    <3> QED BY <1>15, <2>2, <3>2 DEF BeginOperation, At, Moves, Applying, RequestType
  <2>3. req' = [req EXCEPT ![q] = to] \/ Done(q)
    BY <1>15 DEF BeginOperation, RequestType
  <2> QED BY <2>1, <2>2, <2>3
<1>16. CASE ReserveAttempts(q)
  BY <1>16, Answered, Reserving DEF Moves, Applying, Reserves
<1>17. CASE CallRewriter(q)
  BY <1>17, Calling DEF Moves, Applying, Calls
<1>18. CASE SettleAttempts(q)
  BY <1>18, Going DEF SettleAttempts, At, Moves, Stages, Applying
<1>19. CASE Recheck(q)
  <2> DEFINE to == [req[q] EXCEPT !.stage = "sweep", !.rows = RowsIn("leased")]
  <2>1. CASE Done(q)
    BY <1>19, <2>1, Answered DEF Recheck, At, Moves
  <2>2. CASE req' = [req EXCEPT ![q] = to]
    <3>1. req[q] \in Asked /\ RowsIn("leased") \subseteq Samples \X Nat
      BY RowsAre DEF RequestType
    <3>2. to \in Asked /\ to.stage = "sweep" /\ to.rows = RowsIn("leased")
          /\ to.s = req[q].s /\ to.v = req[q].v
      BY <3>1 DEF Asked, Stages
    <3> QED BY <1>19, <2>2, <3>2 DEF Recheck, At, Moves, Applying, RequestType
  <2>3. req' = [req EXCEPT ![q] = to] \/ Done(q)
    BY <1>19 DEF Recheck, Refuse, RequestType
  <2> QED BY <2>1, <2>2, <2>3
<1> QED BY <1>1, <1>2, <1>3, <1>4, <1>5, <1>6, <1>7, <1>8, <1>9, <1>10, <1>11, <1>12, <1>13, <1>14,
           <1>15, <1>16, <1>17, <1>18, <1>19 DEF Serve

\* The steps that touch the requests.
LEMMA Requested ==
  ASSUME Next
  PROVE  \/ UNCHANGED <<req, money>>
         \/ Crash
         \/ \E q \in Requests : Serve(q)
         \/ \E q \in Requests : \E op \in Operations, s \in Samples : Arrive(q, op, s)
BY DEF Next, Thread, money, Claim, Yield, Finish, Exchange, SettleFailure, WriteRecord,
       StagePrepared, CommitPrepared, Complete, BatchSettled, CheckIssues, VerifyRecord, GateRefuses,
       BeginExport, StartExport, RunnerError, Resume, Cancel, BeginRecovery, RecoverSample,
       JobRecovered

\* The steps that write texts, artifacts, records and proposals.
LEMMA ServeWrites ==
  ASSUME NEW q \in Requests, Serve(q)
  PROVE  \/ UNCHANGED <<text, record, files, proposal, fitting>>
         \/ RecoverApply(q) \/ SaveProposal(q)
         \/ WriteArtifact(q) \/ WriteApplyRecord(q) \/ CommitApply(q)
BY DEF Serve, overlay, SweepLease, LeasesSwept, ResetApply, VerifyApply, ConcludeApply, Recovered,
       AnswerPage, ReadForRecount, LeaseApply, StageApply, FinaliseApply, ResolveApply,
       LookUpOperation, BeginOperation, ReserveAttempts, CallRewriter, SettleAttempts,
       OutcomeUnknown, Recheck

LEMMA Written ==
  ASSUME Next
  PROVE  \/ UNCHANGED <<text, record, files, proposal, fitting>>
         \/ WriteRecord \/ CommitPrepared \/ RecoverSample
         \/ \E q \in Requests :
               \/ RecoverApply(q) \/ SaveProposal(q)
               \/ WriteArtifact(q) \/ WriteApplyRecord(q) \/ CommitApply(q)
<1>1. CASE \E q \in Requests : Serve(q)
  BY <1>1, ServeWrites
<1>2. CASE \E q \in Requests : \E op \in Operations, s \in Samples : Arrive(q, op, s)
  BY <1>2 DEF Arrive, overlay
<1>3. CASE Thread \/ RunnerError \/ Resume \/ Cancel \/ Crash
           \/ BeginRecovery \/ RecoverSample \/ JobRecovered
  BY <1>3 DEF Thread, overlay, Claim, Yield, Finish, Exchange, SettleFailure, StagePrepared, Complete,
       BatchSettled, CheckIssues, VerifyRecord, GateRefuses, BeginExport, StartExport, RunnerError,
       Resume, Cancel, Crash, BeginRecovery, JobRecovered
<1> QED BY <1>1, <1>2, <1>3 DEF Next

\* A request that arrives.
LEMMA Arrived ==
  ASSUME TypeOK, NEW q \in Requests, NEW op \in Operations, NEW s \in Samples, Arrive(q, op, s)
  PROVE  /\ req[q].stage = "idle"
         /\ req' \in [Requests -> Asked] /\ \A p \in Requests \ {q} : req'[p] = req[p]
         /\ req'[q].stage = "sweep" /\ req'[q].s = s /\ req'[q].rows = RowsIn("leased")
         /\ UNCHANGED <<row, queue, overlay, money, service, fitting>>
<1> DEFINE to == [NoRequest EXCEPT !.op = op, !.stage = "sweep", !.s = s, !.v = proposal[s].version,
                                   !.rows = RowsIn("leased")]
<1>1. proposal[s].version \in Nat /\ s \in Nat
  BY TokenBudgetAssumption DEF TypeOK, OverlayType, Samples
<1>2. RowsIn("leased") \subseteq Samples \X Nat
  BY RowsAre DEF TypeOK
<1>3. to \in Asked /\ to.stage = "sweep" /\ to.s = s /\ to.rows = RowsIn("leased")
  BY <1>1, <1>2 DEF NoRequest, Asked, Stages
<1>4. req' = [req EXCEPT ![q] = to]
  BY DEF Arrive
<1> QED BY <1>3, <1>4 DEF Arrive, At, TypeOK, RequestType

-----------------------------------------------------------------------------
(* Types                                                                   *)

\* What the steps of a request do to the types of the queue and the overlay.
LEMMA ServeTypes ==
  ASSUME TypeOK, RequestInv, NEW q \in Requests, Serve(q)
  PROVE  QueueType' /\ OverlayType'
<1>1. st' \in [Samples -> {"pending", "leased", "prepared", "failed", "completed", "export"}]
      /\ lease' \in [Samples -> Nat] /\ todo' \subseteq Samples
      /\ issues' \in [Samples -> SUBSET {"overflow", "worker", "gate"}]
  <2>1. req[q].v \in Nat
    BY DEF TypeOK, RequestType, Asked
  <2>2. \/ UNCHANGED <<st, lease>>
        \/ \E s \in {req[q].s, OneRow(q)[1]}, state \in {"failed", "export", "leased", "prepared"},
              n \in {0, req[q].v} : Sample(s, state, n)
    BY DEF Serve, queue, Conclude, Reset, SweepLease,
       LeasesSwept, RecoverApply, ResetApply, VerifyApply, ConcludeApply, Recovered, AnswerPage,
       ReadForRecount, SaveProposal, LeaseApply, WriteArtifact, WriteApplyRecord, StageApply,
       CommitApply, FinaliseApply, ResolveApply, LookUpOperation, BeginOperation, ReserveAttempts,
       CallRewriter, SettleAttempts, OutcomeUnknown, Recheck
  <2>3. \/ UNCHANGED issues
        \/ \E s \in {req[q].s, OneRow(q)[1]} : issues' = [issues EXCEPT ![s] = @ \ {"overflow"}]
    BY DEF Serve, queue, Conclude, SweepLease,
       LeasesSwept, RecoverApply, ResetApply, VerifyApply, ConcludeApply, Recovered, AnswerPage,
       ReadForRecount, SaveProposal, LeaseApply, WriteArtifact, WriteApplyRecord, StageApply,
       CommitApply, FinaliseApply, ResolveApply, LookUpOperation, BeginOperation, ReserveAttempts,
       CallRewriter, SettleAttempts, OutcomeUnknown, Recheck
  <2>4. todo' = todo
    BY DEF Serve, service, SweepLease,
       LeasesSwept, RecoverApply, ResetApply, VerifyApply, ConcludeApply, Recovered, AnswerPage,
       ReadForRecount, SaveProposal, LeaseApply, WriteArtifact, WriteApplyRecord, StageApply,
       CommitApply, FinaliseApply, ResolveApply, LookUpOperation, BeginOperation, ReserveAttempts,
       CallRewriter, SettleAttempts, OutcomeUnknown, Recheck
  <2>5. issues' \in [Samples -> SUBSET {"overflow", "worker", "gate"}]
    BY <2>3 DEF TypeOK, QueueType
  <2> QED BY <2>1, <2>2, <2>4, <2>5 DEF TypeOK, QueueType, Sample
<1>2. CASE UNCHANGED <<text, record, files, proposal, fitting>>
  BY <1>1, <1>2 DEF TypeOK, QueueType, OverlayType
<1>3. CASE RecoverApply(q)
  <2>1. req[q].rows \subseteq Samples \X Nat /\ OneRow(q) \in req[q].rows
    BY <1>3, OneRowIn DEF RecoverApply, TypeOK, RequestType, Asked
  <2>2. OneRow(q)[2] \in Nat
    BY <2>1
  <2> QED BY <1>1, <1>3, <2>2 DEF RecoverApply, Reinstate, TypeOK, QueueType, OverlayType
<1>4. CASE SaveProposal(q)
  <2>1. req[q].v \in Nat /\ req[q].base \in Nat
    BY DEF TypeOK, RequestType, Asked
  <2>2. \/ UNCHANGED <<proposal, fitting>>
        \/ \E fits \in BOOLEAN :
             /\ proposal' = [proposal EXCEPT ![req[q].s] =
                   [version |-> req[q].v + 1, fits |-> fits, base |-> req[q].base]]
             /\ \/ fitting' = fitting
                \/ fitting' = [fitting EXCEPT ![req[q].s] = fitting[req[q].s] \cup {req[q].v + 1}]
    BY <1>4 DEF SaveProposal
  <2>3. proposal' \in [Samples -> [version : Nat \ {0}, fits : BOOLEAN, base : Nat]]
    <3>1. \A fits \in BOOLEAN :
            [version |-> req[q].v + 1, fits |-> fits, base |-> req[q].base]
              \in [version : Nat \ {0}, fits : BOOLEAN, base : Nat]
      BY <2>1
    <3>2. proposal \in [Samples -> [version : Nat \ {0}, fits : BOOLEAN, base : Nat]]
      BY DEF TypeOK, OverlayType
    <3>3. ASSUME NEW fits \in BOOLEAN,
                 proposal' = [proposal EXCEPT ![req[q].s] =
                   [version |-> req[q].v + 1, fits |-> fits, base |-> req[q].base]]
          PROVE  proposal' \in [Samples -> [version : Nat \ {0}, fits : BOOLEAN, base : Nat]]
      BY <3>1, <3>2, <3>3, Put
    <3> QED BY <2>2, <3>2, <3>3
  <2>4. fitting' \in [Samples -> SUBSET Nat]
    <3>1. req[q].v + 1 \in Nat
      BY <2>1
    <3>2. req[q].s \in Samples
      BY <1>4 DEF SaveProposal, At, RequestInv
    <3>3. fitting \in [Samples -> SUBSET Nat]
      BY DEF TypeOK, OverlayType
    <3>4. fitting[req[q].s] \cup {req[q].v + 1} \in SUBSET Nat
      BY <3>1, <3>2, <3>3
    <3>5. [fitting EXCEPT ![req[q].s] = fitting[req[q].s] \cup {req[q].v + 1}]
            \in [Samples -> SUBSET Nat]
      BY <3>3, <3>4, Put
    <3> QED BY <2>2, <3>3, <3>5
  <2> QED BY <1>1, <1>4, <2>3, <2>4 DEF SaveProposal, TypeOK, QueueType, OverlayType
<1>5. CASE WriteArtifact(q) \/ WriteApplyRecord(q) \/ CommitApply(q)
  <2>1. req[q].v \in Nat
    BY DEF TypeOK, RequestType, Asked
  <2>2. \A s \in Samples : files[s] \cup {req[q].v} \in SUBSET Nat /\ files[s] \ {req[q].v} \in SUBSET Nat
    BY <2>1 DEF TypeOK, OverlayType
  <2>3. files' \in [Samples -> SUBSET Nat] /\ UNCHANGED <<proposal, fitting>>
    BY <1>5, <2>2 DEF WriteArtifact, WriteApplyRecord, CommitApply, Reinstate, TypeOK, OverlayType
  <2>4. text' \in [Samples -> Nat] /\ record' \in [Samples -> Nat \cup {None}]
    BY <1>5, <2>1 DEF WriteArtifact, WriteApplyRecord, CommitApply, Reinstate, TypeOK, OverlayType
  <2> QED BY <1>1, <2>3, <2>4 DEF TypeOK, QueueType, OverlayType
<1> QED BY <1>2, <1>3, <1>4, <1>5, ServeWrites

\* What the steps of a request do to the money.
LEMMA ServeMoney ==
  ASSUME TypeOK, RequestInv, NEW q \in Requests, Serve(q)
  PROVE  RequestType'
<1>1. req' \in [Requests -> Asked]
  BY Served DEF Moves
<1>2. CASE UNCHANGED money
  BY <1>1, <1>2 DEF TypeOK, RequestType, money
<1>3. CASE ReserveAttempts(q)
  <2>1. Reserves(q)
    BY <1>3, Reserving DEF TypeOK
  <2> QED BY <1>1, <2>1 DEF Reserves, TypeOK, RequestType, Asked
<1>4. CASE CallRewriter(q)
  <2>1. Calls(q)
    BY <1>4, Calling DEF TypeOK
  <2> QED BY <1>1, <2>1 DEF Calls, TypeOK, RequestType
<1>5. CASE SettleAttempts(q)
  <2>1. req[q].allowance \in Nat /\ req[q].charge \in Nat
    BY DEF TypeOK, RequestType, Asked
  <2> QED BY <1>1, <1>5, <2>1 DEF SettleAttempts, TypeOK, RequestType
<1> QED BY <1>2, <1>3, <1>4, <1>5 DEF Serve, money, SweepLease,
       LeasesSwept, RecoverApply, ResetApply, VerifyApply, ConcludeApply, Recovered, AnswerPage,
       ReadForRecount, SaveProposal, LeaseApply, WriteArtifact, WriteApplyRecord, StageApply,
       CommitApply, FinaliseApply, ResolveApply, LookUpOperation, BeginOperation, OutcomeUnknown,
       Recheck

\* Every step keeps the types.
LEMMA TypeStep == ASSUME TypeOK, RequestInv, Next PROVE TypeOK'
<1>1. CASE \E q \in Requests : Serve(q)
  BY <1>1, ServeTypes, ServeMoney DEF TypeOK
<1>2. CASE \E q \in Requests : \E op \in Operations, s \in Samples : Arrive(q, op, s)
  BY <1>2, Arrived DEF TypeOK, QueueType, OverlayType, RequestType, queue, overlay, money, service
<1>3. CASE \A q \in Requests : ~Serve(q) /\ \A op \in Operations, s \in Samples : ~Arrive(q, op, s)
  <2>1. RequestType'
    <3>1. NoRequest \in Asked
      BY DEF NoRequest, Asked, Stages
    <3> QED BY <1>3, <3>1, Requested DEF TypeOK, RequestType, money, Crash
  <2>2. QueueType'
    BY <1>3 DEF Next, TypeOK, QueueType, Thread, queue, service, Claim, Yield, Finish, Exchange,
       SettleFailure, WriteRecord, StagePrepared, CommitPrepared, Complete, BatchSettled, CheckIssues,
       VerifyRecord, GateRefuses, BeginExport, StartExport, RunnerError, Resume, Cancel, Crash,
       BeginRecovery, RecoverSample, JobRecovered, Sample, Conclude, InState
  <2>3. OverlayType'
    <3>1. CASE UNCHANGED <<text, record, files, proposal, fitting>>
      BY <3>1 DEF TypeOK, OverlayType
    <3>2. CASE WriteRecord \/ CommitPrepared
      <4>1. /\ UNCHANGED proposal
            /\ text' = text \/ text' = [text EXCEPT ![First(todo)] = 1]
            /\ record' = record \/ record' = [record EXCEPT ![First(todo)] = 1]
            /\ \/ files' = [files EXCEPT ![First(todo)] = @ \ {1}]
               \/ files' = [files EXCEPT ![First(todo)] = @ \cup {1}]
            /\ fitting' = fitting \/ fitting' = [fitting EXCEPT ![First(todo)] = @ \cup {1}]
        BY <3>2 DEF WriteRecord, CommitPrepared
      <4>2. text' \in [Samples -> Nat] /\ record' \in [Samples -> Nat \cup {None}]
        BY <4>1 DEF TypeOK, OverlayType
      <4>3. files' \in [Samples -> SUBSET Nat]
        BY <4>1 DEF TypeOK, OverlayType
      <4>4. fitting' \in [Samples -> SUBSET Nat]
        BY <4>1 DEF TypeOK, OverlayType
      <4> QED BY <4>1, <4>2, <4>3, <4>4 DEF TypeOK, OverlayType
    <3>3. CASE RecoverSample
      <4>1. First(todo) \in Samples
        BY <3>3, FirstIn DEF RecoverSample, TypeOK, QueueType
      <4>2. lease[First(todo)] \in Nat
        BY <4>1 DEF TypeOK, QueueType
      <4>3. PICK s \in Samples, v \in Nat : s = First(todo) /\ v = lease[s]
        BY <4>1, <4>2
      <4>5. /\ text' = text \/ text' = [text EXCEPT ![s] = v]
            /\ files' = files \/ files' = [files EXCEPT ![s] = @ \ {v}]
        BY <3>3, <4>3 DEF RecoverSample, Reinstate
      <4>4. text' \in [Samples -> Nat] /\ files' \in [Samples -> SUBSET Nat]
        BY <4>5 DEF TypeOK, OverlayType
      <4> QED BY <3>3, <4>4 DEF RecoverSample, TypeOK, OverlayType
    <3>4. \A q \in Requests : RecoverApply(q) \/ SaveProposal(q) \/ WriteArtifact(q)
                                \/ WriteApplyRecord(q) \/ CommitApply(q) => Serve(q)
      BY DEF Serve
    <3> QED BY <1>3, <3>1, <3>2, <3>3, <3>4, Written
  <2> QED BY <2>1, <2>2, <2>3 DEF TypeOK
<1> QED BY <1>1, <1>2, <1>3
-----------------------------------------------------------------------------
(* The requests and the texts                                              *)

\* What was counted stays counted.
LEMMA Growing ==
  ASSUME TypeOK, RequestInv, Next
  PROVE  \A s \in Samples : fitting[s] \subseteq fitting'[s]
<1>1. CASE UNCHANGED fitting
  BY <1>1
<1>2. CASE WriteRecord
  BY <1>2 DEF WriteRecord, TypeOK, OverlayType
<1>3. CASE \E q \in Requests : SaveProposal(q)
  <2>1. PICK q \in Requests : SaveProposal(q)
    BY <1>3
  <2>2. \/ fitting' = fitting
        \/ fitting' = [fitting EXCEPT ![req[q].s] = @ \cup {req[q].v + 1}]
    BY <2>1 DEF SaveProposal
  <2> QED BY <2>2 DEF TypeOK, OverlayType
<1> QED BY <1>1, <1>2, <1>3, Written DEF CommitPrepared, RecoverSample, RecoverApply, WriteArtifact,
       WriteApplyRecord, CommitApply

\* Every step keeps the requests to leases of the review and to texts that were counted.
LEMMA RequestStep ==
  ASSUME TypeOK, RequestInv, CountedInv, Next PROVE RequestInv'
<1> DEFINE Sound(p) ==
      /\ req'[p].stage # "idle" => req'[p].s \in Samples
      /\ \A r \in req'[p].rows : r[1] \in Samples /\ r[2] > 1
      /\ req'[p].stage \in {"verify", "reset", "conclude"} => req'[p].rows # {}
      /\ req'[p].stage \in Applying => req'[p].v > 1 /\ req'[p].v \in fitting'[req'[p].s]
<1>1. ASSUME NEW p \in Requests, req'[p] = req[p] PROVE Sound(p)
  <2>1. req[p].stage \in Applying => req[p].stage # "idle"
    BY DEF Applying
  <2> QED BY <1>1, <2>1, Growing DEF RequestInv
<1>2. ASSUME NEW p \in Requests, req'[p] = NoRequest PROVE Sound(p)
  BY <1>2 DEF NoRequest, Applying
<1>3. ASSUME NEW q \in Requests, Serve(q), req'[q] # NoRequest PROVE Sound(q)
  <2>1. Moves(q) /\ req[q].stage # "idle"
    BY <1>3, Served
  <2>2. req'[q].s = req[q].s /\ req'[q].v = req[q].v /\ req[q].s \in Samples
    BY <1>3, <2>1 DEF Moves, RequestInv
  <2>3. \A r \in req'[q].rows : r[1] \in Samples /\ r[2] > 1
    BY <1>3, <2>1, RowsAre DEF Moves, RequestInv, TypeOK
  <2>4. req'[q].stage \in {"verify", "reset", "conclude"} => req'[q].rows # {}
    BY <1>3, <2>1 DEF Moves
  <2>5. req'[q].stage \in Applying => req[q].v > 1 /\ req[q].v \in fitting[req[q].s]
    BY <1>3, <2>1, <2>2 DEF Moves, RequestInv, CountedInv
  <2> QED BY <2>2, <2>3, <2>4, <2>5, Growing
<1>4. ASSUME NEW q \in Requests, NEW op \in Operations, NEW s \in Samples, Arrive(q, op, s)
      PROVE  Sound(q)
  BY <1>4, Arrived, RowsAre DEF Applying, TypeOK
<1>5. \A p \in Requests : Sound(p)
  <2>1. CASE UNCHANGED <<req, money>>
    BY <1>1, <2>1
  <2>2. CASE Crash
    BY <1>2, <2>2 DEF Crash
  <2>3. CASE \E q \in Requests : Serve(q)
    BY <1>1, <1>2, <1>3, <2>3, Served DEF Moves
  <2>4. CASE \E q \in Requests : \E op \in Operations, s \in Samples : Arrive(q, op, s)
    BY <1>1, <1>4, <2>4, Arrived
  <2> QED BY <2>1, <2>2, <2>3, <2>4, Requested
<1> QED BY <1>5 DEF RequestInv

\* A recovery or a commit puts a text back that its lease names.
LEMMA PutBack ==
  ASSUME TypeOK, CountedInv, NEW s \in Samples, NEW v,
         text[s] = v \/ v \in files[s], fitting' = fitting,
         text' = [text EXCEPT ![s] = v], files' = [files EXCEPT ![s] = @ \ {v}]
  PROVE  \A t \in Samples : /\ files'[t] \subseteq fitting'[t] /\ text'[t] \in fitting'[t] \cup {0}
                            /\ text'[t] = text[t] \/ text'[t] \in fitting'[t]
BY DEF CountedInv, TypeOK, OverlayType

\* A step keeps the texts counted, and replaces one only by one that was.
Counted ==
  CountedInv' /\ \A s \in Samples : text'[s] = text[s] \/ text'[s] \in fitting'[s]

\* Every step keeps the texts of the overlay counted.
LEMMA CountedStep ==
  ASSUME TypeOK, RequestInv, RunnerInv, CountedInv, Next PROVE Counted
<1>1. CASE UNCHANGED <<text, record, files, proposal, fitting>>
  BY <1>1 DEF Counted, CountedInv
<1>2. CASE WriteRecord
  <2>1. First(todo) \in Samples
    BY <1>2, FirstIn DEF WriteRecord, TypeOK, QueueType
  <2>2. PICK f \in Samples : f = First(todo)
    BY <2>1
  <2> QED BY <1>2, <2>2 DEF WriteRecord, Counted, CountedInv, TypeOK, OverlayType
<1>3. CASE CommitPrepared
  <2>1. First(todo) \in Samples /\ 1 \in fitting[First(todo)]
    BY <1>3, FirstIn DEF CommitPrepared, RunnerInv, TypeOK, QueueType
  <2>2. PICK f \in Samples : f = First(todo)
    BY <2>1
  <2> QED BY <1>3, <2>1, <2>2 DEF CommitPrepared, Counted, CountedInv, TypeOK, OverlayType
<1>4. CASE RecoverSample
  <2>1. First(todo) \in Samples
    BY <1>4, FirstIn DEF RecoverSample, TypeOK, QueueType
  <2>2. PICK f \in Samples : f = First(todo)
    BY <2>1
  <2>3. UNCHANGED <<record, proposal, fitting>>
    BY <1>4 DEF RecoverSample
  <2>4. CASE UNCHANGED <<text, files>>
    BY <1>1, <2>3, <2>4
  <2>5. CASE Recoverable(f, lease[f]) /\ Reinstate(f, lease[f])
    <3>1. \A t \in Samples : /\ files'[t] \subseteq fitting'[t] /\ text'[t] \in fitting'[t] \cup {0}
                             /\ text'[t] = text[t] \/ text'[t] \in fitting'[t]
      BY <2>3, <2>5, PutBack DEF Recoverable, Reinstate, CountedInv
    <3>2. UNCHANGED <<record, proposal, fitting>>
      BY <2>3
    <3> QED BY <3>1, <3>2 DEF Counted, CountedInv
  <2> QED BY <1>4, <2>2, <2>4, <2>5 DEF RecoverSample
<1>5. ASSUME NEW q \in Requests, RecoverApply(q)
      PROVE  Counted
  <2>1. OneRow(q) \in req[q].rows
    BY <1>5, OneRowIn DEF RecoverApply, TypeOK
  <2>2. PICK r \in req[q].rows : r = OneRow(q)
    BY <2>1
  <2>3. r[1] \in Samples
    BY DEF RequestInv
  <2>4. UNCHANGED <<record, proposal, fitting>>
    BY <1>5 DEF RecoverApply
  <2>5. CASE UNCHANGED <<text, files>>
    BY <1>1, <2>4, <2>5
  <2>6. CASE Recoverable(r[1], r[2]) /\ Reinstate(r[1], r[2])
    <3>1. \A t \in Samples : /\ files'[t] \subseteq fitting'[t] /\ text'[t] \in fitting'[t] \cup {0}
                             /\ text'[t] = text[t] \/ text'[t] \in fitting'[t]
      BY <2>3, <2>4, <2>6, PutBack DEF Recoverable, Reinstate, CountedInv
    <3>2. UNCHANGED <<record, proposal, fitting>>
      BY <2>4
    <3> QED BY <3>1, <3>2 DEF Counted, CountedInv
  <2> QED BY <1>5, <2>2, <2>5, <2>6 DEF RecoverApply
<1>6. ASSUME NEW q \in Requests, SaveProposal(q)
      PROVE  Counted
  <2>1. req[q].s \in Samples /\ UNCHANGED <<text, record, files>>
    BY <1>6 DEF SaveProposal, At, RequestInv
  <2>2. CASE UNCHANGED <<proposal, fitting>>
    BY <1>1, <2>1, <2>2
  <2>3. CASE ~UNCHANGED <<proposal, fitting>>
    <3>1. PICK fits \in BOOLEAN :
            /\ proposal' = [proposal EXCEPT ![req[q].s] =
                  [version |-> req[q].v + 1, fits |-> fits, base |-> req[q].base]]
            /\ fitting' = IF fits THEN [fitting EXCEPT ![req[q].s] = @ \cup {req[q].v + 1}]
                         ELSE fitting
            /\ proposal[req[q].s].version = req[q].v
      BY <1>6, <2>3 DEF SaveProposal
    <3>2. req[q].v + 1 > 1 /\ req[q].v \in Nat
      BY <2>1, <3>1 DEF TypeOK, OverlayType
    <3>3. \A s \in Samples : proposal'[s].fits =>
            proposal'[s].version > 1 /\ proposal'[s].version \in fitting'[s]
      BY <2>1, <3>1, <3>2 DEF Counted, CountedInv, TypeOK, OverlayType
    <3> QED BY <1>6, <2>1, <3>3, Growing DEF Counted, CountedInv
  <2> QED BY <2>2, <2>3
<1>7. ASSUME NEW q \in Requests, WriteArtifact(q) \/ WriteApplyRecord(q) \/ CommitApply(q)
      PROVE  Counted
  <2>1. req[q].s \in Samples /\ UNCHANGED <<proposal, fitting>>
    BY <1>7 DEF WriteArtifact, WriteApplyRecord, CommitApply, At, RequestInv
  <2>2. req[q].stage \in Applying
    BY <1>7 DEF WriteArtifact, WriteApplyRecord, CommitApply, At, Applying
  <2>3. PICK s \in Samples, v \in fitting[req[q].s] : s = req[q].s /\ v = req[q].v
    BY <2>1, <2>2 DEF RequestInv
  <2>4. v \in fitting[s]
    BY <2>3
  <2>5. CASE CommitApply(q) /\ v \in files[s]
    <3>1. \A t \in Samples : /\ files'[t] \subseteq fitting'[t] /\ text'[t] \in fitting'[t] \cup {0}
                             /\ text'[t] = text[t] \/ text'[t] \in fitting'[t]
      <4>1. text' = [text EXCEPT ![s] = v] /\ files' = [files EXCEPT ![s] = @ \ {v}]
        BY <2>3, <2>5 DEF CommitApply, Reinstate
      <4>2. fitting' = fitting
        BY <2>1
      <4> QED BY <2>5, <4>1, <4>2, PutBack DEF CountedInv
    <3>2. UNCHANGED <<record, proposal, fitting>>
      BY <2>1, <2>5 DEF CommitApply
    <3> QED BY <3>1, <3>2 DEF Counted, CountedInv
  <2>6. CASE CommitApply(q) /\ v \notin files[s]
    BY <1>1, <2>1, <2>3, <2>6 DEF CommitApply
  <2>7. CASE WriteArtifact(q)
    BY <2>1, <2>3, <2>4, <2>7 DEF WriteArtifact, Counted, CountedInv, TypeOK, OverlayType
  <2>8. CASE WriteApplyRecord(q)
    BY <2>1, <2>3, <2>4, <2>8 DEF WriteApplyRecord, Counted, CountedInv, TypeOK, OverlayType
  <2> QED BY <1>7, <2>5, <2>6, <2>7, <2>8
<1> QED BY <1>1, <1>2, <1>3, <1>4, <1>5, <1>6, <1>7, Written

-----------------------------------------------------------------------------
(* The runner's batch and the settled samples                              *)

\* No request touches a sample of the runner's batch, or one that is settled.
LEMMA ServeKeeps ==
  ASSUME TypeOK, RequestInv, NEW q \in Requests, Serve(q), NEW s \in Samples
  PROVE  /\ st[s] \in {"leased", "prepared"} /\ lease[s] = 1 => st'[s] = st[s] /\ lease'[s] = lease[s]
         /\ st[s] = "export" => st'[s] = "export"
<1>1. CASE UNCHANGED <<st, lease>>
  BY <1>1
<1>2. CASE SweepLease(q) \/ ResetApply(q) \/ ConcludeApply(q)
  <2>1. req[q].rows # {}
    BY <1>2 DEF SweepLease, ResetApply, ConcludeApply, At, RequestInv
  <2>2. OneRow(q) \in req[q].rows
    BY <2>1, OneRowIn DEF TypeOK
  <2>3. OneRow(q)[1] \in Samples /\ OneRow(q)[2] \in Nat /\ OneRow(q)[2] > 1
    BY <2>2 DEF RequestInv, TypeOK, RequestType, Asked
  <2>4. PICK f \in Samples, n \in Nat : f = OneRow(q)[1] /\ n = OneRow(q)[2] /\ n > 1
    BY <2>3
  <2>5. \/ UNCHANGED <<st, lease>>
        \/ /\ st[f] \in {"leased", "prepared"} /\ lease[f] = n
           /\ \A t \in Samples \ {f} : st'[t] = st[t] /\ lease'[t] = lease[t]
    BY <1>2, <2>4 DEF SweepLease, ResetApply, ConcludeApply, queue, Reset, Concluded, Conclude, Sample,
       TypeOK, QueueType
  <2> QED BY <1>1, <2>4, <2>5
<1>3. CASE LeaseApply(q)
  BY <1>3 DEF LeaseApply, Sample, TypeOK, QueueType
<1>4. CASE StageApply(q) \/ ResolveApply(q)
  <2>1. req[q].v > 1
    BY <1>4 DEF StageApply, ResolveApply, At, RequestInv, Applying
  <2> QED BY <1>4, <2>1 DEF StageApply, ResolveApply, Concluded, Conclude, Sample, queue, TypeOK, QueueType
<1> QED BY <1>1, <1>2, <1>3, <1>4 DEF Serve, queue, LeasesSwept, RecoverApply, VerifyApply, Recovered,
       AnswerPage, ReadForRecount, SaveProposal, WriteArtifact, WriteApplyRecord, CommitApply,
       FinaliseApply, LookUpOperation, BeginOperation, ReserveAttempts, CallRewriter, SettleAttempts,
       OutcomeUnknown, Recheck

\* The sample the runner is at.
LEMMA Working ==
  ASSUME TypeOK, RunnerInv, pc \in {"settle", "stage", "commit", "complete"}, todo # {}
  PROVE  /\ First(todo) \in todo /\ First(todo) \in Samples
         /\ st[First(todo)] \in {"leased", "prepared"} /\ lease[First(todo)] = 1
BY FirstIn DEF TypeOK, QueueType, RunnerInv, Batch

\* The runner's own steps on its batch.
LEMMA BatchStep ==
  ASSUME TypeOK, RunnerInv,
         Claim \/ Exchange \/ SettleFailure \/ WriteRecord \/ StagePrepared \/ CommitPrepared
         \/ Complete
  PROVE  RunnerInv'
<1>1. CASE Claim
  BY <1>1 DEF Claim, RunnerInv, Batch, InState, TypeOK, QueueType
<1>2. CASE Exchange
  BY <1>2 DEF Exchange, RunnerInv, Batch, queue
<1>3. CASE SettleFailure \/ Complete
  <2>1. First(todo) \in todo /\ First(todo) \in Samples
    BY <1>3, Working DEF SettleFailure, Complete, RunnerInv
  <2>2. PICK f \in todo : f = First(todo)
    BY <2>1
  <2>3. /\ pc' = "settle" /\ todo' = todo \ {f}
        /\ \A s \in Samples \ {f} : st'[s] = st[s] /\ lease'[s] = lease[s]
    BY <1>3, <2>2 DEF SettleFailure, Complete, Sample, TypeOK, QueueType
  <2>4. \A s \in todo : st[s] \in {"leased", "prepared"} /\ lease[s] = 1
    BY <1>3 DEF SettleFailure, Complete, RunnerInv, Batch
  <2> QED BY <2>3, <2>4 DEF RunnerInv, TypeOK, QueueType
<1>4. CASE WriteRecord
  <2>1. First(todo) \in Samples
    BY <1>4, Working DEF WriteRecord
  <2>2. PICK f \in Samples : f = First(todo)
    BY <2>1
  <2>3. UNCHANGED <<todo, st, lease>> /\ pc' = "stage" /\ 1 \in fitting'[f]
    BY <1>4, <2>2 DEF WriteRecord, queue, TypeOK, OverlayType
  <2>4. First(todo') = f
    BY <2>2, <2>3
  <2> QED BY <1>4, <2>3, <2>4 DEF WriteRecord, RunnerInv, Batch
<1>5. CASE StagePrepared
  <2>1. First(todo) \in Samples /\ todo # {}
    BY <1>5, Working DEF StagePrepared, RunnerInv
  <2>2. PICK f \in Samples : f = First(todo)
    BY <2>1
  <2>3. /\ UNCHANGED <<todo, fitting>> /\ pc' = "commit"
        /\ st'[f] = "prepared" /\ lease'[f] = 1
        /\ \A s \in Samples \ {f} : st'[s] = st[s] /\ lease'[s] = lease[s]
    BY <1>5, <2>2 DEF StagePrepared, Sample, TypeOK, QueueType
  <2>4. First(todo') = f /\ 1 \in fitting[f]
    BY <1>5, <2>2, <2>3 DEF StagePrepared, RunnerInv
  <2>5. \A s \in todo : s \in Samples /\ st[s] \in {"leased", "prepared"} /\ lease[s] = 1
    BY <1>5 DEF StagePrepared, RunnerInv, Batch, TypeOK, QueueType
  <2> QED BY <2>1, <2>3, <2>4, <2>5 DEF RunnerInv
<1>6. CASE CommitPrepared
  BY <1>6 DEF CommitPrepared, RunnerInv, Batch, queue
<1> QED BY <1>1, <1>2, <1>3, <1>4, <1>5, <1>6

\* Every step leaves the runner its batch.
LEMMA RunnerStep ==
  ASSUME TypeOK, RequestInv, RunnerInv, Next PROVE RunnerInv'
<1>1. CASE \E q \in Requests : Serve(q)
  <2>1. PICK q \in Requests : Serve(q)
    BY <1>1
  <2>2. UNCHANGED <<pc, todo>>
    BY <2>1 DEF Serve, service, SweepLease, LeasesSwept, RecoverApply, ResetApply, VerifyApply,
       ConcludeApply, Recovered, AnswerPage, ReadForRecount, SaveProposal, LeaseApply, WriteArtifact,
       WriteApplyRecord, StageApply, CommitApply, FinaliseApply, ResolveApply, LookUpOperation,
       BeginOperation, ReserveAttempts, CallRewriter, SettleAttempts, OutcomeUnknown, Recheck
  <2>3. pc \in Batch => \A s \in todo : st'[s] \in {"leased", "prepared"} /\ lease'[s] = 1
    BY <2>1, ServeKeeps DEF RunnerInv, TypeOK, QueueType
  <2>4. pc \in {"stage", "commit"} => First(todo) \in Samples
    BY FirstIn DEF RunnerInv, TypeOK, QueueType
  <2> QED BY <2>2, <2>3, <2>4, Growing DEF RunnerInv
<1>2. CASE \E q \in Requests : \E op \in Operations, s \in Samples : Arrive(q, op, s)
  BY <1>2 DEF Arrive, RunnerInv, queue, service
<1>3. CASE Claim \/ Exchange \/ SettleFailure \/ WriteRecord \/ StagePrepared \/ CommitPrepared
           \/ Complete
  BY <1>3, BatchStep
<1>4. CASE Thread \/ RunnerError \/ Resume \/ Cancel \/ Crash
           \/ BeginRecovery \/ RecoverSample \/ JobRecovered
  <2>1. \/ Claim \/ Exchange \/ SettleFailure \/ WriteRecord \/ StagePrepared \/ CommitPrepared
        \/ Complete
        \/ pc' \notin Batch
        \/ UNCHANGED <<pc, todo, st, lease, fitting>>
    BY <1>4 DEF Thread, queue, service, Yield, Finish, BatchSettled, CheckIssues, VerifyRecord,
       GateRefuses, BeginExport, StartExport, RunnerError, Resume, Cancel, Crash, BeginRecovery,
       RecoverSample, JobRecovered, Batch
  <2>2. CASE pc' \notin Batch
    BY <2>2 DEF RunnerInv, Batch
  <2>3. CASE UNCHANGED <<pc, todo, st, lease, fitting>>
    BY <2>3 DEF RunnerInv
  <2> QED BY <1>3, <2>1, <2>2, <2>3
<1> QED BY <1>1, <1>2, <1>4 DEF Next

\* No step takes a settled sample back.
LEMMA SettledStep ==
  ASSUME TypeOK, RequestInv, RunnerInv, Next, NEW s \in Samples, st[s] = "export"
  PROVE  st'[s] = "export"
<1>1. CASE \E q \in Requests : Serve(q)
  BY <1>1, ServeKeeps
<1>2. CASE \E q \in Requests : \E op \in Operations, t \in Samples : Arrive(q, op, t)
  BY <1>2 DEF Arrive, queue
<1>3. CASE SettleFailure \/ StagePrepared \/ Complete
  <2>1. st[First(todo)] # "export" /\ First(todo) \in Samples
    BY <1>3, Working DEF SettleFailure, StagePrepared, Complete, RunnerInv
  <2> QED BY <1>3, <2>1 DEF SettleFailure, StagePrepared, Complete, Sample, TypeOK, QueueType
<1>4. CASE RecoverSample
  <2>1. First(todo) \in Samples
    BY <1>4, FirstIn DEF RecoverSample, TypeOK, QueueType
  <2>2. PICK f \in Samples : f = First(todo)
    BY <2>1
  <2>3. st'[f] # st[f] => st[f] \in {"leased", "prepared"}
    BY <1>4, <2>2 DEF RecoverSample, queue
  <2>4. \A t \in Samples \ {f} : st'[t] = st[t]
    BY <1>4, <2>2 DEF RecoverSample, Sample, Conclude, queue, TypeOK, QueueType
  <2> QED BY <2>3, <2>4
<1>5. CASE Claim \/ Yield \/ RunnerError \/ BeginRecovery
  BY <1>5 DEF Claim, Yield, RunnerError, BeginRecovery
<1>6. CASE UNCHANGED st
  BY <1>6
<1> QED BY <1>1, <1>2, <1>3, <1>4, <1>5, <1>6 DEF Next, Thread, queue, Finish, Exchange, WriteRecord,
       CommitPrepared, BatchSettled, CheckIssues, VerifyRecord, GateRefuses, BeginExport, StartExport,
       Resume, Cancel, Crash, JobRecovered

-----------------------------------------------------------------------------
(* The gate                                                                *)
-----------------------------------------------------------------------------
(* The gate                                                                *)

\* Every step keeps the gate from passing a text that was not counted.
LEMMA GateStep ==
  ASSUME TypeOK, RequestInv, RunnerInv, CountedInv, GateInv, ExportsWithinBudget, Next
  PROVE  GateInv' /\ ExportsWithinBudget'
<1>1. \A s \in Samples : text[s] \in fitting[s] => text'[s] \in fitting'[s]
  BY CountedStep, Growing DEF Counted
<1>2. CASE VerifyRecord
  <2>1. First(todo) \in Samples
    BY <1>2, FirstIn DEF VerifyRecord, TypeOK, QueueType
  <2>2. PICK f \in Samples : f = First(todo)
    BY <2>1
  <2>3. /\ UNCHANGED <<pc, text, fitting>> /\ pc # "exported" /\ todo' = todo \ {f}
        /\ ~gateFailed' => ~gateFailed /\ record[f] # None /\ record[f] = text[f]
    BY <1>2, <2>2 DEF VerifyRecord, overlay
  <2> QED BY <2>2, <2>3 DEF GateInv, CountedInv, ExportsWithinBudget
<1>3. CASE StartExport
  BY <1>3 DEF StartExport, overlay, GateInv, ExportsWithinBudget
<1>4. CASE CheckIssues
  BY <1>4 DEF CheckIssues, GateInv, ExportsWithinBudget
<1>5. CASE UNCHANGED <<pc, todo, gateFailed>> \/ pc' \notin {"gate", "exported"}
  <2>1. CASE UNCHANGED <<pc, todo, gateFailed>>
    BY <1>1, <2>1 DEF GateInv, ExportsWithinBudget
  <2>2. CASE pc' \notin {"gate", "exported"}
    BY <2>2 DEF GateInv, ExportsWithinBudget
  <2> QED BY <1>5, <2>1, <2>2
<1>6. CASE \E q \in Requests : Serve(q)
  <2>1. PICK q \in Requests : Serve(q)
    BY <1>6
  <2>2. UNCHANGED <<pc, todo, gateFailed>>
    BY <2>1 DEF Serve, service, SweepLease, LeasesSwept, RecoverApply, ResetApply, VerifyApply,
       ConcludeApply, Recovered, AnswerPage, ReadForRecount, SaveProposal, LeaseApply, WriteArtifact,
       WriteApplyRecord, StageApply, CommitApply, FinaliseApply, ResolveApply, LookUpOperation,
       BeginOperation, ReserveAttempts, CallRewriter, SettleAttempts, OutcomeUnknown, Recheck
  <2> QED BY <1>5, <2>2
<1>7. CASE \E q \in Requests : \E op \in Operations, s \in Samples : Arrive(q, op, s)
  BY <1>5, <1>7 DEF Arrive, service
<1>8. CASE Thread \/ RunnerError \/ Resume \/ Cancel \/ Crash
           \/ BeginRecovery \/ RecoverSample \/ JobRecovered
  <2>1. \/ VerifyRecord \/ StartExport \/ CheckIssues
        \/ UNCHANGED <<pc, todo, gateFailed>> \/ pc' \notin {"gate", "exported"}
    BY <1>8 DEF Thread, service, Claim, Yield, Finish, Exchange, SettleFailure, WriteRecord,
       StagePrepared, CommitPrepared, Complete, BatchSettled, GateRefuses, BeginExport, RunnerError,
       Resume, Cancel, Crash, BeginRecovery, RecoverSample, JobRecovered
  <2> QED BY <1>2, <1>3, <1>4, <1>5, <2>1
<1> QED BY <1>6, <1>7, <1>8 DEF Next

-----------------------------------------------------------------------------
(* The budget of attempts                                                  *)

Slice(q, n) == {q} \X (1 .. n)

\* A request's slice of the slack is what it owes.
LEMMA SliceSize ==
  ASSUME NEW q, NEW n \in Nat
  PROVE  IsFiniteSet(Slice(q, n)) /\ Cardinality(Slice(q, n)) = n
<1>1. IsFiniteSet({q}) /\ Cardinality({q}) = 1
  BY FS_Singleton
<1>2. IsFiniteSet(1 .. n) /\ Cardinality(1 .. n) = n
  BY FS_Interval
<1>3. IsFiniteSet({q} \X (1 .. n)) /\ Cardinality({q} \X (1 .. n)) = Cardinality({q}) * Cardinality(1 .. n)
  BY <1>1, <1>2, FS_Product
<1> QED BY <1>1, <1>2, <1>3 DEF Slice

\* When one slice is replaced, the size of the whole changes by the difference.
LEMMA SliceReplaced ==
  ASSUME NEW S, NEW T, NEW q, NEW n \in Nat, NEW m \in Nat, IsFiniteSet(S),
         Slice(q, n) \subseteq S, T = (S \ Slice(q, n)) \cup Slice(q, m),
         (S \ Slice(q, n)) \cap Slice(q, m) = {}
  PROVE  IsFiniteSet(T) /\ Cardinality(T) = Cardinality(S) - n + m
<1> DEFINE R == S \ Slice(q, n)
<1>1. IsFiniteSet(R) /\ Cardinality(R) = Cardinality(S) - Cardinality(S \cap Slice(q, n))
  BY FS_Difference
<1>2. S \cap Slice(q, n) = Slice(q, n)
  OBVIOUS
<1>3. Cardinality(R) = Cardinality(S) - n
  BY <1>1, <1>2, SliceSize
<1>4. IsFiniteSet(R \cup Slice(q, m))
      /\ Cardinality(R \cup Slice(q, m))
           = Cardinality(R) + Cardinality(Slice(q, m)) - Cardinality(R \cap Slice(q, m))
  BY <1>1, SliceSize, FS_Union
<1>5. Cardinality(R \cap Slice(q, m)) = 0
  BY FS_EmptySet
<1>6. Cardinality(S) \in Nat
  BY FS_CardinalityType
<1> QED BY <1>3, <1>4, <1>5, <1>6, SliceSize

\* What one request owes is all that its own step changes of the slack.
LEMMA SlackStep ==
  ASSUME IsFiniteSet(Slack), NEW q \in Requests, \A p \in Requests \ {q} : req'[p] = req[p],
         Owed(q) \in Nat, Owed(q)' \in Nat
  PROVE  IsFiniteSet(Slack') /\ Cardinality(Slack') = Cardinality(Slack) - Owed(q) + Owed(q)'
<1>1. PICK n \in Nat, m \in Nat : n = Owed(q) /\ m = Owed(q)'
  OBVIOUS
<1>2. \A p \in Requests \ {q} : Owed(p)' = Owed(p)
  BY DEF Owed
<1>3. \A p \in Requests, i \in Nat \ {0} : <<p, i>> \in Slack <=> i <= Owed(p)
  BY DEF Slack
<1>4. \A p \in Requests, i \in Nat \ {0} : <<p, i>> \in Slack' <=> i <= Owed(p)'
  BY DEF Slack
<1>5. Slack \subseteq Requests \X (Nat \ {0}) /\ Slack' \subseteq Requests \X (Nat \ {0})
  BY DEF Slack
<1>6. Slice(q, n) \subseteq Slack
  BY <1>1, <1>3 DEF Slice
<1>7. Slack' = (Slack \ Slice(q, n)) \cup Slice(q, m)
  <2>1. ASSUME NEW p \in Requests, NEW i \in Nat \ {0}
        PROVE  <<p, i>> \in Slack' <=> <<p, i>> \in (Slack \ Slice(q, n)) \cup Slice(q, m)
    <3>1. CASE p = q
      BY <1>1, <1>3, <1>4, <3>1 DEF Slice
    <3>2. CASE p # q
      BY <1>2, <1>3, <1>4, <3>2 DEF Slice
    <3> QED BY <3>1, <3>2
  <2>2. (Slack \ Slice(q, n)) \cup Slice(q, m) \subseteq Requests \X (Nat \ {0})
    BY <1>5 DEF Slice
  <2> QED BY <1>5, <2>1, <2>2
<1>8. (Slack \ Slice(q, n)) \cap Slice(q, m) = {}
  <2>1. ASSUME NEW i \in 1 .. m, <<q, i>> \in Slack PROVE <<q, i>> \in Slice(q, n)
    BY <1>1, <1>3, <2>1 DEF Slice
  <2>2. ASSUME NEW w \in Slice(q, m), w \in Slack PROVE w \in Slice(q, n)
    <3>1. PICK i \in 1 .. m : w = <<q, i>>
      BY DEF Slice
    <3> QED BY <2>1, <2>2, <3>1
  <2> QED BY <2>2
<1>9. PICK S, T : S = Slack /\ T = Slack'
  OBVIOUS
<1>10. /\ IsFiniteSet(S) /\ Slice(q, n) \subseteq S /\ T = (S \ Slice(q, n)) \cup Slice(q, m)
       /\ (S \ Slice(q, n)) \cap Slice(q, m) = {}
  BY <1>6, <1>7, <1>8, <1>9
<1>11. IsFiniteSet(T) /\ Cardinality(T) = Cardinality(S) - n + m
  BY <1>10, SliceReplaced
<1> QED BY <1>1, <1>9, <1>11

\* Requests that owe nothing, before and after, leave the slack what it was.
LEMMA SlackKept ==
  ASSUME \A p \in Requests : Owed(p)' = Owed(p)
  PROVE  Slack' = Slack
BY DEF Slack

\* Every step keeps what was sent within what is used and reserved.
LEMMA BudgetStep ==
  ASSUME TypeOK, RequestInv, BudgetInv, Next, TypeOK' PROVE BudgetInv'
<1>1. used \in Nat /\ reserved \in Nat /\ sent \in Nat /\ Cardinality(Slack) \in Nat
  BY FS_CardinalityType DEF TypeOK, RequestType, BudgetInv
<1>2. CASE UNCHANGED <<req, money>>
  BY <1>2, SlackKept DEF BudgetInv, Owed, money
<1>3. CASE Crash
  <2>1. \A q \in Requests : req'[q].stage = "idle"
    BY <1>3 DEF Crash, NoRequest
  <2>2. Slack' = {}
    BY <2>1 DEF Slack, Owed
  <2>3. IsFiniteSet({}) /\ Cardinality({}) = 0
    BY FS_EmptySet
  <2>4. UNCHANGED <<used, reserved, sent>>
    BY <1>3 DEF Crash, money
  <2> QED BY <1>1, <2>1, <2>2, <2>3, <2>4 DEF BudgetInv
<1>4. CASE \E q \in Requests : \E op \in Operations, s \in Samples : Arrive(q, op, s)
  <2>1. PICK q \in Requests : \E op \in Operations, s \in Samples : Arrive(q, op, s)
    BY <1>4
  <2>2. /\ req[q].stage = "idle" /\ req'[q].stage = "sweep"
        /\ \A p \in Requests \ {q} : req'[p] = req[p]
        /\ UNCHANGED <<used, reserved, sent>>
    BY <2>1, Arrived DEF money
  <2>3. \A p \in Requests : Owed(p)' = Owed(p)
    BY <2>2 DEF Owed
  <2> QED BY <2>2, <2>3, SlackKept DEF BudgetInv
<1>5. ASSUME NEW q \in Requests, Serve(q)
      PROVE  BudgetInv'
  <2>1. Moves(q)
    BY <1>5, Served
  <2>2. \A p \in Requests \ {q} : req'[p] = req[p]
    BY <2>1 DEF Moves
  <2>3. CASE ReserveAttempts(q)
    <3>1. Reserves(q)
      BY <2>3, Reserving DEF TypeOK
    <3>2. CASE Done(q) /\ UNCHANGED reserved
      <4>1. req'[q].stage = "idle"
        BY <3>2, Answered DEF TypeOK
      <4>2. \A p \in Requests : Owed(p)' = Owed(p)
        BY <2>2, <3>1, <4>1 DEF Owed, Reserves
      <4> QED BY <2>2, <3>1, <3>2, <4>1, <4>2, SlackKept DEF BudgetInv, Reserves
    <3>3. CASE ~(Done(q) /\ UNCHANGED reserved)
      <4>1. /\ req'[q].stage = "call" /\ req'[q].allowance \in 1 .. Attempts - used - reserved
            /\ reserved' = reserved + req'[q].allowance /\ UNCHANGED <<used, sent>>
            /\ req[q].stage = "reserve"
        BY <3>1, <3>3 DEF Reserves
      <4>2. Owed(q) = 0 /\ Owed(q)' = req'[q].allowance /\ req'[q].allowance \in Nat
        BY <4>1 DEF Owed
      <4>3. IsFiniteSet(Slack') /\ Cardinality(Slack') = Cardinality(Slack) + req'[q].allowance
        BY <1>1, <2>2, <4>2, SlackStep DEF BudgetInv
      <4>4. sent' + Cardinality(Slack') <= used' + reserved' /\ used' + reserved' <= Attempts
        BY <1>1, <4>1, <4>2, <4>3, TokenBudgetAssumption DEF BudgetInv
      <4> QED BY <2>2, <4>1, <4>3, <4>4 DEF BudgetInv
    <3> QED BY <3>2, <3>3
  <2>4. CASE CallRewriter(q)
    <3>1. Calls(q)
      BY <2>4, Calling DEF TypeOK
    <3>2. /\ req[q].allowance \in Nat /\ req'[q].charge \in Nat
          /\ req'[q].charge <= req[q].allowance /\ sent' - sent \in 0 .. req'[q].charge
          /\ sent' \in Nat
      <4>1. req[q].allowance \in Nat
        BY DEF TypeOK, RequestType, Asked
      <4>2. /\ req'[q].charge \in 0 .. req[q].allowance /\ sent' - sent \in 0 .. req'[q].charge
            /\ sent' \in Nat
        BY <3>1 DEF Calls
      <4> QED BY <4>1, <4>2
    <3>3. Owed(q) = req[q].allowance /\ Owed(q)' = req[q].allowance - req'[q].charge
      BY <3>1 DEF Calls, Owed
    <3>4. IsFiniteSet(Slack') /\ Cardinality(Slack') = Cardinality(Slack) - req'[q].charge
      <4>1. Owed(q) \in Nat /\ Owed(q)' \in Nat
        BY <3>2, <3>3
      <4>2. /\ IsFiniteSet(Slack')
            /\ Cardinality(Slack') = Cardinality(Slack) - Owed(q) + Owed(q)'
        BY <2>2, <4>1, SlackStep DEF BudgetInv
      <4> QED BY <1>1, <3>2, <3>3, <4>2
    <3>5. sent' + Cardinality(Slack') <= used' + reserved' /\ used' + reserved' <= Attempts
      BY <1>1, <3>1, <3>2, <3>4 DEF BudgetInv, Calls
    <3> QED BY <2>2, <3>1, <3>2, <3>4, <3>5 DEF BudgetInv, Calls
  <2>5. CASE SettleAttempts(q)
    <3>1. /\ req[q].stage = "charge" /\ reserved' = reserved - req[q].allowance
          /\ used' = used + req[q].charge /\ sent' = sent
      BY <2>5 DEF SettleAttempts, At
    <3>2. req'[q].stage \in {"recheck", "unknown"}
      BY <2>5, Going DEF SettleAttempts, Stages, TypeOK
    <3>3. req[q].allowance \in Nat /\ req[q].charge \in Nat /\ req[q].charge <= req[q].allowance
      BY <3>1 DEF TypeOK, RequestType, Asked, BudgetInv
    <3>4. Owed(q) = req[q].allowance - req[q].charge /\ Owed(q)' = 0
      BY <3>1, <3>2 DEF Owed
    <3>5. /\ IsFiniteSet(Slack')
          /\ Cardinality(Slack') = Cardinality(Slack) - (req[q].allowance - req[q].charge)
      <4>1. Owed(q) \in Nat /\ Owed(q)' \in Nat
        BY <3>3, <3>4
      <4>2. /\ IsFiniteSet(Slack')
            /\ Cardinality(Slack') = Cardinality(Slack) - Owed(q) + Owed(q)'
        BY <2>2, <4>1, SlackStep DEF BudgetInv
      <4> QED BY <1>1, <3>3, <3>4, <4>2
    <3>6. sent' + Cardinality(Slack') <= used' + reserved' /\ used' + reserved' <= Attempts
      BY <1>1, <3>1, <3>3, <3>5, TokenBudgetAssumption DEF BudgetInv
    <3> QED BY <2>2, <3>2, <3>5, <3>6 DEF BudgetInv
  <2>6. CASE req[q].stage \notin {"reserve", "call", "charge"}
    <3>1. req'[q].stage \notin {"call", "charge"}
      BY <2>1, <2>6 DEF Moves, NoRequest
    <3>2. UNCHANGED <<used, reserved, sent>>
      BY <1>5, <2>6 DEF Serve, money, At, SweepLease, LeasesSwept, RecoverApply, ResetApply, VerifyApply,
       ConcludeApply, Recovered, AnswerPage, ReadForRecount, SaveProposal, LeaseApply, WriteArtifact,
       WriteApplyRecord, StageApply, CommitApply, FinaliseApply, ResolveApply, LookUpOperation,
       BeginOperation, ReserveAttempts, CallRewriter, SettleAttempts, OutcomeUnknown, Recheck
    <3>3. \A p \in Requests : Owed(p)' = Owed(p)
      BY <2>2, <2>6, <3>1 DEF Owed
    <3> QED BY <2>2, <3>1, <3>2, <3>3, SlackKept DEF BudgetInv
  <2>7. req[q].stage \in {"reserve", "call", "charge"} =>
          ReserveAttempts(q) \/ CallRewriter(q) \/ SettleAttempts(q)
    BY <1>5 DEF Serve, At, SweepLease, LeasesSwept, RecoverApply, ResetApply, VerifyApply,
       ConcludeApply, Recovered, AnswerPage, ReadForRecount, SaveProposal, LeaseApply, WriteArtifact,
       WriteApplyRecord, StageApply, CommitApply, FinaliseApply, ResolveApply, LookUpOperation,
       BeginOperation, OutcomeUnknown, Recheck
  <2> QED BY <2>3, <2>4, <2>5, <2>6, <2>7
<1> QED BY <1>2, <1>3, <1>4, <1>5, Requested

-----------------------------------------------------------------------------
(* The theorems                                                            *)

\* The invariant holds when the module starts.
LEMMA InitInv == Init => TypeOK /\ IInv
<1> SUFFICES ASSUME Init PROVE TypeOK /\ IInv
  OBVIOUS
<1>1. NoRequest \in Asked
  BY DEF NoRequest, Asked, Stages
<1>2. TypeOK
  BY <1>1 DEF Init, TypeOK, QueueType, OverlayType, RequestType
<1>3. RequestInv
  BY DEF Init, RequestInv, NoRequest, Applying
<1>4. RunnerInv /\ CountedInv /\ GateInv /\ ExportsWithinBudget
  BY DEF Init, RunnerInv, CountedInv, GateInv, ExportsWithinBudget, Batch
<1>5. BudgetInv
  <2>1. \A q \in Requests : req[q].stage = "idle"
    BY DEF Init, NoRequest
  <2>2. Slack = {}
    BY <2>1 DEF Slack, Owed
  <2>3. IsFiniteSet({}) /\ Cardinality({}) = 0
    BY FS_EmptySet
  <2> QED BY <2>1, <2>2, <2>3, TokenBudgetAssumption DEF BudgetInv, Init
<1> QED BY <1>2, <1>3, <1>4, <1>5 DEF IInv

\* A step that changes nothing keeps it.
LEMMA StutterInv == ASSUME TypeOK, IInv, UNCHANGED vars PROVE (TypeOK /\ IInv)'
<1>1. BudgetInv'
  BY SlackKept DEF vars, money, IInv, BudgetInv, Owed
<1> QED BY <1>1 DEF vars, row, queue, overlay, money, service, TypeOK, QueueType, OverlayType, RequestType,
       IInv, RequestInv, RunnerInv, CountedInv, GateInv, ExportsWithinBudget

\* A step of the program keeps it.
LEMMA NextInv == ASSUME TypeOK, IInv, Next PROVE (TypeOK /\ IInv)'
<1>1. TypeOK' /\ RequestInv' /\ RunnerInv'
  BY TypeStep, RequestStep, RunnerStep DEF IInv
<1>2. CountedInv'
  BY CountedStep DEF IInv, Counted
<1>3. GateInv' /\ ExportsWithinBudget'
  BY GateStep DEF IInv
<1>4. BudgetInv'
  BY <1>1, BudgetStep DEF IInv
<1> QED BY <1>1, <1>2, <1>3, <1>4 DEF IInv

\* The invariant holds throughout.
LEMMA Invariants == Spec => [](TypeOK /\ IInv)
<1>1. TypeOK /\ IInv /\ [Next]_vars => (TypeOK /\ IInv)'
  BY StutterInv, NextInv
<1> QED BY <1>1, InitInv, PTL DEF Spec

\* The queue, the overlay and the requests are what the code's types allow.
THEOREM TypeCorrect == Spec => []TypeOK
BY Invariants, PTL

\* Whatever was recovered, applied twice or reset half-way: the export starts only from
\* texts that were counted within maxTokens (_token_budget_export_gate).
THEOREM ExportsCounted == Spec => []ExportsWithinBudget
<1>1. IInv => ExportsWithinBudget
  BY DEF IInv
<1> QED BY <1>1, Invariants, PTL

\* The attempts that were made never exceed the budget, over concurrent rewrites, lost
\* answers and crashes (_reserve_short_rewrite_attempts, _settle_short_rewrite_attempts).
THEOREM AttemptsBounded == Spec => []AttemptsWithinBudget
<1>1. TypeOK /\ IInv => AttemptsWithinBudget
  <2> SUFFICES ASSUME TypeOK, IInv PROVE AttemptsWithinBudget
    OBVIOUS
  <2>1. used \in Nat /\ reserved \in Nat /\ sent \in Nat /\ Cardinality(Slack) \in Nat
    BY FS_CardinalityType DEF TypeOK, RequestType, IInv, BudgetInv
  <2> QED BY <2>1 DEF IInv, BudgetInv, AttemptsWithinBudget
<1> QED BY <1>1, Invariants, PTL

\* A sample whose apply was settled is never taken back into the review, by no second
\* apply, late reset or recovery (_require_open_overflow, _reset_prepared_apply_to_failed).
THEOREM SettledSamplesStay == Spec => SettledStays
<1>1. ASSUME TypeOK, IInv, [Next]_vars, NEW s \in Samples, st[s] = "export" PROVE st'[s] = "export"
  <2>1. CASE Next
    BY <1>1, <2>1, SettledStep DEF IInv
  <2>2. CASE UNCHANGED vars
    BY <1>1, <2>2 DEF vars, queue
  <2> QED BY <1>1, <2>1, <2>2
<1>2. TypeOK /\ IInv /\ [Next]_vars => \A s \in Samples : st[s] = "export" => st'[s] = "export"
  BY <1>1
<1> QED BY <1>2, Invariants, PTL DEF Spec, SettledStays
=============================================================================

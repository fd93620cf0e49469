-------------------------- MODULE CountReview_proofs --------------------------
(***************************************************************************)
(* Proofs about CountReview, for every number of samples, clients and      *)
(* counts, every page size and every number of faults: what is written is  *)
(* what was decided, after the user was asked where that is due, and a     *)
(* decision is replaced only by a client that saw it.                      *)
(***************************************************************************)
EXTENDS CountReview, WellFoundedInduction, TLAPS

-----------------------------------------------------------------------------
(* The inductive invariant                                                 *)

Decisions ==
  [status : {"undecided", "pending", "auto_resolved", "manual_resolved"},
   final : Counts \cup {NoCount}, version : Nat, applied : BOOLEAN]

TypeOK ==
  /\ input \in [Samples -> Inputs]
  /\ decision \in [Samples -> Decisions]
  /\ st \in [Samples -> {"pending", "leased", "prepared", "completed"}]
  /\ text = [s \in Samples |-> text[s]]
  /\ prepared = [s \in Samples |-> prepared[s]]
  /\ todo \subseteq Samples
  /\ seen \in [Clients -> [Samples -> Decisions]]

\* A decision says what its sources or the user gave, and only a completed sample's is
\* applied.
DecisionInv ==
  \A s \in Samples :
    /\ \/ decision[s] = Undecided
       \/ decision[s].status = "pending" /\ decision[s].version \in Nat \ {0}
       \/ /\ decision[s].status \in {"auto_resolved", "manual_resolved"}
          /\ decision[s].final \in Counts /\ decision[s].version \in Nat \ {0}
    /\ decision[s].status = "auto_resolved" => Reasons(input[s]) = {}
    /\ decision[s].applied => st[s] = "completed"

\* What a client sees is the decision of its version, until that is applied.
SeenInv ==
  \A c \in Clients, s \in Samples :
    /\ seen[c][s].version <= decision[s].version
    /\ seen[c][s].version = decision[s].version /\ ~decision[s].applied
         => seen[c][s] = decision[s]

Settled == Decided = Samples /\ Pending = {}

\* The stages between a claim and the next poll.
Applying == {"write", "stage", "commit", "complete"}

\* No sample leaves the queue's start before everything is decided, and the user edits while
\* no thread is about and no sample is in flight.
ReviewInv ==
  /\ InState({"leased", "prepared", "completed"}) # {} => Settled
  /\ status = "reviewing" => pc = "idle" /\ InFlight = {}
  /\ pc = "update" => update.next \in {"idle", "beyond"}
  /\ pc = "update" /\ update.to = "reviewing" => update.next = "idle" /\ InFlight = {}
  /\ pc = "initialise" => Samples \ todo \subseteq Decided
  /\ pc \in {"poll", "claim"} /\ status = "running" => Settled
  /\ pc \in Applying => Settled
  /\ pc = "recover" => InFlight \subseteq todo

\* A prepared sample has its count aside, or already in the annotation.
Prepared(s) ==
  \/ prepared[s] = decision[s].final
  \/ prepared[s] = NoCount /\ text[s] = decision[s].final

\* How far the first sample of the batch is.
ApplyInv ==
  /\ pc = "write" => \A s \in todo : st[s] = "leased"
  /\ pc \in {"stage", "commit", "complete"} =>
       todo # {} /\ \A s \in todo \ {First(todo)} : st[s] = "leased"
  /\ pc = "stage" =>
       st[First(todo)] = "leased" /\ prepared[First(todo)] = decision[First(todo)].final
  /\ pc = "commit" =>
       st[First(todo)] = "prepared" /\ prepared[First(todo)] = decision[First(todo)].final
  /\ pc = "complete" =>
       st[First(todo)] = "prepared" /\ text[First(todo)] = decision[First(todo)].final
  /\ \A s \in Samples : st[s] = "prepared" => Prepared(s)

IInv == DecisionInv /\ SeenInv /\ ReviewInv /\ ApplyInv /\ AppliedAsDecided

-----------------------------------------------------------------------------
(* Samples and decisions                                                   *)

Below == {p \in Nat \X Nat : p[1] < p[2]}

\* A nonempty set of naturals has a least element.
LEMMA Least == ASSUME NEW S \in SUBSET Nat, S # {} PROVE \E x \in S : \A y \in S : x <= y
<1>1. IsWellFoundedOn(Below, Nat)
  <2>1. Below = OpToRel(<, Nat)
    BY DEF OpToRel, Below
  <2> QED BY <2>1, NatLessThanWellFounded
<1>2. PICK x \in S : \A y \in S : ~(<<y, x>> \in Below)
  BY <1>1, WFMin
<1>3. ASSUME NEW y \in S PROVE x <= y
  <2>1. x \in Nat /\ y \in Nat
    OBVIOUS
  <2>2. ~(<<y, x>> \in Below)
    BY <1>2
  <2>3. ~(y < x)
    BY <2>1, <2>2 DEF Below
  <2> QED BY <2>1, <2>3
<1> QED BY <1>3

\* The next sample of a set is one of the set.
LEMMA FirstIn == ASSUME NEW S \in SUBSET Samples, S # {} PROVE First(S) \in S
<1>1. S \in SUBSET Nat
  BY CountReviewAssumption DEF Samples
<1>2. PICK x \in S : \A y \in S : x <= y
  BY <1>1, Least
<1> QED BY <1>2 DEF First

\* The decision that is made without the user.
LEMMA InitialIs ==
  ASSUME NEW i \in Inputs
  PROVE  /\ InitialDecision(i) \in Decisions
         /\ InitialDecision(i).version = 1 /\ ~InitialDecision(i).applied
         /\ \/ InitialDecision(i).status = "pending"
            \/ /\ InitialDecision(i).status = "auto_resolved" /\ Reasons(i) = {}
               /\ InitialDecision(i).final \in Counts
<1>1. /\ i.classify.value \in Counts \cup {NoCount}
      /\ i.vlm \in Counts \cup {"unknown", "invalid", "not_requested"}
  BY CountReviewAssumption DEF NoCount
<1>2. Reasons(i) = {} => i.vlm # "invalid" /\ i.vlm # "unknown"
                         /\ ~(i.vlm = "not_requested" /\ i.classify.value = NoCount)
  BY DEF Reasons
<1>3. Reasons(i) = {} =>
        (IF i.classify.value \in Counts THEN i.classify.value ELSE i.vlm) \in Counts
  BY <1>1, <1>2
<1> QED BY <1>3 DEF InitialDecision, Decisions

\* Everything is settled when every decision has a count.
LEMMA SettledIs ==
  TypeOK /\ DecisionInv =>
    (Settled <=> \A s \in Samples : decision[s].status \in {"auto_resolved", "manual_resolved"})
<1> SUFFICES ASSUME TypeOK, DecisionInv
    PROVE  Settled <=> \A s \in Samples :
                         decision[s].status \in {"auto_resolved", "manual_resolved"}
  OBVIOUS
<1>1. \A s \in Samples : decision[s].status = "undecided" => decision[s] = Undecided
  BY DEF DecisionInv
<1>2. \A s \in Samples : decision[s].status \in {"undecided", "pending", "auto_resolved", "manual_resolved"}
  BY DEF TypeOK, Decisions
<1>3. Undecided.status = "undecided"
  BY DEF Undecided
<1> QED BY <1>1, <1>2, <1>3 DEF Settled, Decided, Pending

data == <<input, decision, queue, seen>>

\* The steps that touch the decisions, the queue or a client's page.
LEMMA Touching ==
  ASSUME Next
  PROVE  \/ UNCHANGED data
         \/ InitialisePage \/ Claim \/ WritePrepared \/ StagePrepared \/ CommitPrepared
         \/ Complete \/ RecoverSample
         \/ \E c \in Clients : ReadPage(c) \/ \E batch \in SUBSET Samples : EditBatch(c, batch)
  BY DEF Next, Thread, data, CompleteUpdate, StartModule, Enter, Initialised, Poll, BatchApplied,
         Finish, NextModule, Returned, WriteFails, FailRun, Confirm, Pause, Resume, Cancel, Crash,
         BeginRecovery, JobRecovered

\* What an edit finds and leaves.
LEMMA Edited ==
  ASSUME TypeOK, NEW c \in Clients, NEW batch \in SUBSET Samples, EditBatch(c, batch)
  PROVE  /\ status = "reviewing" /\ UNCHANGED <<row, input, queue, thread, seen>>
         /\ \A s \in Samples \ batch : decision'[s] = decision[s]
         /\ \A s \in batch :
              /\ decision[s].version = seen[c][s].version
              /\ decision[s].status \in {"pending", "manual_resolved"} /\ ~decision[s].applied
              /\ decision'[s] \in Decisions
              /\ decision'[s].status = "manual_resolved" /\ decision'[s].final \in Counts
              /\ decision'[s].version = decision[s].version + 1 /\ ~decision'[s].applied
         /\ decision' = [s \in Samples |-> decision'[s]]
<1>1. PICK final \in [batch -> Counts] :
        decision' = [s \in Samples |->
            IF s \in batch
            THEN [decision[s] EXCEPT !.status = "manual_resolved", !.final = final[s],
                                     !.version = @ + 1]
            ELSE decision[s]]
  BY DEF EditBatch
<1>2. \A s \in batch : Editable(c, s)
  BY DEF EditBatch
<1>3. ASSUME NEW s \in batch
      PROVE  /\ decision'[s] \in Decisions
             /\ decision'[s].status = "manual_resolved" /\ decision'[s].final \in Counts
             /\ decision'[s].version = decision[s].version + 1
             /\ decision'[s].applied = decision[s].applied
  <2>1. decision[s] \in Decisions /\ final[s] \in Counts /\ s \in Samples
    BY DEF TypeOK
  <2>2. decision'[s] = [decision[s] EXCEPT !.status = "manual_resolved", !.final = final[s],
                                            !.version = @ + 1]
    BY <1>1, <2>1
  <2>3. decision'[s] = [status |-> "manual_resolved", final |-> final[s],
                        version |-> decision[s].version + 1, applied |-> decision[s].applied]
    BY <2>1, <2>2 DEF Decisions
  <2>4. decision[s].version + 1 \in Nat /\ decision[s].applied \in BOOLEAN
    BY <2>1 DEF Decisions
  <2>5. /\ decision'[s].status = "manual_resolved" /\ decision'[s].final \in Counts
        /\ decision'[s].version = decision[s].version + 1
        /\ decision'[s].applied = decision[s].applied
    BY <2>1, <2>3
  <2>6. decision'[s] \in Decisions
    BY <2>1, <2>3, <2>4 DEF Decisions
  <2> QED BY <2>5, <2>6
<1> QED BY <1>1, <1>2, <1>3 DEF EditBatch, Editable, Reviewing

\* What a completion or a recovery leaves of a decision.
LEMMA AppliedIs ==
  ASSUME TypeOK, NEW s \in Samples, Settle(s)
  PROVE  /\ decision' \in [Samples -> Decisions]
         /\ decision'[s] = [decision[s] EXCEPT !.applied = TRUE]
         /\ \A t \in Samples : /\ decision'[t].status = decision[t].status
                               /\ decision'[t].final = decision[t].final
                               /\ decision'[t].version = decision[t].version
         /\ \A t \in Samples \ {s} : decision'[t] = decision[t]
         /\ st' \in [Samples -> {"pending", "leased", "prepared", "completed"}]
         /\ st'[s] = "completed" /\ \A t \in Samples \ {s} : st'[t] = st[t]
<1>1. decision[s] \in Decisions
  BY DEF TypeOK
<1>2. decision' = [decision EXCEPT ![s] = [decision[s] EXCEPT !.applied = TRUE]]
  BY DEF Settle, TypeOK
<1>3. [decision[s] EXCEPT !.applied = TRUE] \in Decisions
  BY <1>1 DEF Decisions
<1>4. /\ [decision[s] EXCEPT !.applied = TRUE].status = decision[s].status
      /\ [decision[s] EXCEPT !.applied = TRUE].final = decision[s].final
      /\ [decision[s] EXCEPT !.applied = TRUE].version = decision[s].version
  BY <1>1 DEF Decisions
<1> QED BY <1>2, <1>3, <1>4 DEF Settle, TypeOK

\* The page of decisions that initialise_count_review_decisions inserts.
LEMMA PageIs ==
  ASSUME TypeOK, InitialisePage
  PROVE  /\ decision' \in [Samples -> Decisions]
         /\ \A s \in Samples :
              \/ decision'[s] = decision[s]
              \/ decision[s] = Undecided /\ decision'[s] = InitialDecision(input[s])
         /\ pc = "initialise" /\ todo' \subseteq todo
         /\ \A s \in todo \ todo' : decision'[s] # Undecided
         /\ UNCHANGED <<row, input, queue, pc, update, seen>>
<1>1. PICK page \in SUBSET todo :
        /\ todo' = todo \ page
        /\ decision' = [s \in Samples |->
                          IF s \in page \ Decided THEN InitialDecision(input[s]) ELSE decision[s]]
  BY DEF InitialisePage, Lowest
<1>2. \A s \in Samples : InitialDecision(input[s]) \in Decisions
                         /\ InitialDecision(input[s]) # Undecided
  BY InitialIs DEF TypeOK, Undecided
<1> QED BY <1>1, <1>2 DEF InitialisePage, TypeOK, Decided

\* What the recovery of a sample does.
LEMMA RecoveredIs ==
  ASSUME TypeOK, RecoverSample
  PROVE  \E s \in todo :
           /\ s \in Samples /\ pc = "recover" /\ pc' = pc /\ todo' = todo \ {s}
           /\ UNCHANGED <<row, input, update, seen>>
           /\ \/ /\ st[s] = "leased" /\ st' = [st EXCEPT ![s] = "pending"]
                 /\ UNCHANGED <<decision, text, prepared>>
              \/ st[s] = "prepared" /\ prepared[s] # NoCount /\ Commit(s) /\ Settle(s)
              \/ /\ st[s] = "prepared" /\ prepared[s] = NoCount /\ Settle(s)
                 /\ UNCHANGED <<text, prepared>>
              \/ st[s] \notin {"leased", "prepared"} /\ UNCHANGED <<decision, queue>>
<1>1. First(todo) \in todo /\ First(todo) \in Samples
  BY FirstIn DEF RecoverSample, TypeOK
<1> QED BY <1>1 DEF RecoverSample

-----------------------------------------------------------------------------
(* Types                                                                   *)

\* Every step keeps the types.
LEMMA TypeStep == ASSUME TypeOK, ApplyInv, Next PROVE TypeOK'
<1>1. todo' \subseteq Samples
  BY DEF Next, Thread, TypeOK, queue, thread, CompleteUpdate, StartModule, Enter, InitialisePage,
         Initialised, Poll, Claim, Lowest, InState, WritePrepared, StagePrepared, CommitPrepared,
         Complete, BatchApplied, Finish, NextModule, Returned, WriteFails, FailRun, ReadPage,
         EditBatch, Confirm, Pause, Resume, Cancel, Crash, BeginRecovery, RecoverSample, JobRecovered
<1>2. CASE UNCHANGED data
  BY <1>1, <1>2 DEF TypeOK, data, queue
<1>3. CASE InitialisePage
  BY <1>1, <1>3, PageIs DEF TypeOK, queue
<1>4. CASE Claim
  BY <1>1, <1>4 DEF Claim, TypeOK
<1>5. CASE WritePrepared \/ StagePrepared \/ CommitPrepared
  BY <1>1, <1>5 DEF WritePrepared, StagePrepared, CommitPrepared, Commit, TypeOK
<1>6. CASE Complete
  <2>1. First(todo) \in Samples
    BY <1>6, FirstIn DEF Complete, ApplyInv, TypeOK
  <2> QED BY <1>1, <1>6, <2>1, AppliedIs DEF Complete, TypeOK
<1>7. CASE RecoverSample
  BY <1>1, <1>7, RecoveredIs, AppliedIs DEF TypeOK, Commit, queue
<1>8. CASE \E c \in Clients : ReadPage(c)
  BY <1>1, <1>8 DEF ReadPage, TypeOK, queue
<1>9. CASE \E c \in Clients : \E batch \in SUBSET Samples : EditBatch(c, batch)
  BY <1>1, <1>9, Edited DEF TypeOK, queue
<1> QED BY <1>2, <1>3, <1>4, <1>5, <1>6, <1>7, <1>8, <1>9, Touching

-----------------------------------------------------------------------------
(* Decisions                                                               *)

\* The next sample of the thread while it works on one, and what is settled by then.
LEMMA Working ==
  ASSUME TypeOK, ReviewInv, ApplyInv, pc \in {"stage", "commit", "complete"}
  PROVE  First(todo) \in todo /\ First(todo) \in Samples /\ Settled
BY FirstIn DEF TypeOK, ReviewInv, ApplyInv, Applying

\* Every step keeps the decisions what their sources and the user gave.
LEMMA DecisionStep ==
  ASSUME TypeOK, DecisionInv, ReviewInv, ApplyInv, Next, TypeOK' PROVE DecisionInv'
<1>1. CASE UNCHANGED data
  BY <1>1 DEF DecisionInv, data, queue
<1>2. CASE InitialisePage
  <2>1. \A s \in Samples :
          \/ decision'[s] = decision[s]
          \/ decision'[s] = InitialDecision(input[s]) /\ input[s] \in Inputs
    BY <1>2, PageIs DEF TypeOK
  <2> QED BY <1>2, <2>1, PageIs, InitialIs DEF DecisionInv, queue
<1>3. CASE Claim
  BY <1>3 DEF Claim, DecisionInv, Lowest, InState, TypeOK
<1>4. CASE WritePrepared \/ CommitPrepared
  BY <1>4 DEF WritePrepared, CommitPrepared, Commit, DecisionInv
<1>5. CASE StagePrepared
  BY <1>5, Working DEF StagePrepared, ApplyInv, DecisionInv, TypeOK
<1>6. ASSUME NEW s \in Samples, Settle(s), Settled, input' = input
      PROVE  DecisionInv'
  <2>1. decision[s].status \in {"auto_resolved", "manual_resolved"}
    BY <1>6, SettledIs
  <2>2. \A t \in Samples \ {s} : decision'[t] = decision[t] /\ st'[t] = st[t]
    BY <1>6, AppliedIs
  <2>3. /\ decision'[s].status = decision[s].status /\ decision'[s].final = decision[s].final
        /\ decision'[s].version = decision[s].version /\ st'[s] = "completed"
    BY <1>6, AppliedIs
  <2>4. decision[s] # Undecided
    BY <2>1 DEF Undecided
  <2> QED BY <1>6, <2>1, <2>2, <2>3, <2>4 DEF DecisionInv
<1>7. CASE Complete
  BY <1>6, <1>7, Working DEF Complete
<1>8. CASE RecoverSample
  <2>1. PICK s \in todo : 
           /\ s \in Samples /\ UNCHANGED input
           /\ \/ st[s] = "leased" /\ st' = [st EXCEPT ![s] = "pending"] /\ UNCHANGED decision
              \/ st[s] = "prepared" /\ Settle(s)
              \/ UNCHANGED <<decision, st>>
    BY <1>8, RecoveredIs DEF queue
  <2>2. st[s] = "prepared" => Settled
    BY <2>1 DEF ReviewInv, InState
  <2> QED BY <1>6, <2>1, <2>2 DEF DecisionInv, TypeOK
<1>9. CASE \E c \in Clients : ReadPage(c)
  BY <1>9 DEF ReadPage, DecisionInv, queue
<1>10. CASE \E c \in Clients : \E batch \in SUBSET Samples : EditBatch(c, batch)
  <2>1. PICK c \in Clients, batch \in SUBSET Samples : EditBatch(c, batch)
    BY <1>10
  <2>2. \A s \in Samples : decision[s].version \in Nat
    BY DEF TypeOK, Decisions
  <2>3. \A s \in batch : decision'[s].version = decision[s].version + 1
    BY <2>1, Edited
  <2>4. \A s \in batch : decision'[s].version \in Nat \ {0}
    BY <2>2, <2>3
  <2> QED BY <2>1, <2>4, Edited DEF DecisionInv, queue
<1> QED BY <1>1, <1>2, <1>3, <1>4, <1>5, <1>7, <1>8, <1>9, <1>10, Touching

\* Once everything is settled it stays settled.
LEMMA SettledStays ==
  ASSUME TypeOK, DecisionInv, ReviewInv, ApplyInv, Next, TypeOK', DecisionInv', Settled
  PROVE  Settled'
<1>1. \A s \in Samples : decision[s].status \in {"auto_resolved", "manual_resolved"}
  BY SettledIs
<1>2. (TypeOK /\ DecisionInv =>
        (Settled <=> \A s \in Samples :
                       decision[s].status \in {"auto_resolved", "manual_resolved"}))'
  BY SettledIs, PTL
<1>3. ASSUME \A s \in Samples : decision'[s].status \in {"auto_resolved", "manual_resolved"}
      PROVE  Settled'
  BY <1>2, <1>3
<1>4. CASE UNCHANGED decision
  BY <1>1, <1>3, <1>4
<1>5. CASE InitialisePage
  <2>1. \A s \in Samples : decision[s] # Undecided
    BY <1>1 DEF Undecided
  <2> QED BY <1>1, <1>3, <1>5, <2>1, PageIs
<1>6. CASE Complete
  BY <1>1, <1>3, <1>6, Working, AppliedIs DEF Complete
<1>7. CASE RecoverSample
  BY <1>1, <1>3, <1>7, RecoveredIs, AppliedIs, <1>4 DEF queue
<1>8. CASE \E c \in Clients : \E batch \in SUBSET Samples : EditBatch(c, batch)
  BY <1>1, <1>3, <1>8, Edited
<1> QED BY <1>4, <1>5, <1>6, <1>7, <1>8, Touching
     DEF data, Claim, WritePrepared, StagePrepared, CommitPrepared, ReadPage

-----------------------------------------------------------------------------
(* What the clients see                                                    *)

\* Every step keeps the versions telling a client whether its page is the decision's.
LEMMA SeenStep ==
  ASSUME TypeOK, DecisionInv, SeenInv, ReviewInv, ApplyInv, Next, TypeOK' PROVE SeenInv'
<1>1. CASE UNCHANGED <<decision, seen>>
  BY <1>1 DEF SeenInv
<1>2. \A c \in Clients, s \in Samples :
        seen[c][s].version \in Nat /\ decision[s].version \in Nat /\ decision'[s].version \in Nat
  BY DEF TypeOK, Decisions
<1>3. CASE InitialisePage
  <2>1. \A s \in Samples :
          \/ decision'[s] = decision[s]
          \/ decision[s].version = 0 /\ decision'[s].version = 1
    BY <1>3, PageIs, InitialIs DEF TypeOK, Undecided
  <2> QED BY <1>2, <1>3, <2>1, PageIs DEF SeenInv
<1>4. ASSUME NEW s \in Samples, Settle(s), seen' = seen
      PROVE  SeenInv'
  <2>1. \A t \in Samples \ {s} : decision'[t] = decision[t]
    BY <1>4, AppliedIs
  <2>2. decision'[s].version = decision[s].version
    BY <1>4, AppliedIs
  <2>3. decision'[s] = [decision[s] EXCEPT !.applied = TRUE]
    BY <1>4, AppliedIs
  <2>4. decision'[s].applied
    BY <2>3 DEF TypeOK, Decisions
  <2> QED BY <1>4, <2>1, <2>2, <2>4 DEF SeenInv
<1>5. CASE Complete
  BY <1>4, <1>5, Working DEF Complete
<1>6. CASE RecoverSample
  BY <1>1, <1>4, <1>6, RecoveredIs DEF queue
<1>7. CASE \E c \in Clients : ReadPage(c)
  <2>1. PICK c \in Clients : seen' = [seen EXCEPT ![c] = decision] /\ decision' = decision
    BY <1>7 DEF ReadPage
  <2> QED BY <1>2, <2>1 DEF SeenInv, TypeOK
<1>8. CASE \E c \in Clients : \E batch \in SUBSET Samples : EditBatch(c, batch)
  <2>1. PICK c \in Clients, batch \in SUBSET Samples : EditBatch(c, batch)
    BY <1>8
  <2>2. \A s \in Samples : \/ decision'[s] = decision[s]
                           \/ decision'[s].version = decision[s].version + 1
    BY <2>1, Edited
  <2>3. seen' = seen
    BY <2>1, Edited
  <2> QED BY <1>2, <2>2, <2>3 DEF SeenInv
<1> QED BY <1>1, <1>3, <1>5, <1>6, <1>7, <1>8, Touching
     DEF data, Claim, WritePrepared, StagePrepared, CommitPrepared

-----------------------------------------------------------------------------
(* The review and the thread                                               *)

\* How a step moves the samples: only a claim takes one from the queue's start.
LEMMA Moved ==
  ASSUME TypeOK, ReviewInv, ApplyInv, Next
  PROVE  /\ \/ \A s \in Samples : st'[s] # "pending" => st[s] # "pending"
            \/ Claim /\ status = "running"
         /\ \/ UNCHANGED st \/ Claim \/ StagePrepared \/ Complete \/ RecoverSample
<1>1. \/ UNCHANGED st \/ Claim \/ StagePrepared \/ Complete \/ RecoverSample
  BY Touching, Edited, PageIs DEF data, queue, WritePrepared, CommitPrepared, ReadPage
<1>2. CASE Claim
  BY <1>1, <1>2 DEF Claim
<1>3. CASE StagePrepared \/ Complete
  BY <1>1, <1>3, Working, AppliedIs DEF StagePrepared, Complete, ApplyInv, TypeOK
<1>4. CASE RecoverSample
  BY <1>1, <1>4, RecoveredIs, AppliedIs DEF TypeOK, queue
<1> QED BY <1>1, <1>2, <1>3, <1>4

\* Every step keeps the review before the writing.
LEMMA ReviewStep ==
  ASSUME TypeOK, DecisionInv, ReviewInv, ApplyInv, Next, TypeOK', DecisionInv'
  PROVE  ReviewInv'
<1> USE DEF row, queue, thread, CompleteUpdate, StartModule, Enter, Initialised, Poll, Claim,
            WritePrepared, StagePrepared, CommitPrepared, Complete, BatchApplied, Finish, NextModule,
            Returned, WriteFails, FailRun, ReadPage, Confirm, Pause, Resume, Cancel, Crash,
            BeginRecovery, JobRecovered
<1>1. InState({"leased", "prepared", "completed"})' # {} => Settled'
  <2>1. CASE Claim /\ status = "running"
    BY <2>1, SettledStays DEF Claim, ReviewInv
  <2>2. CASE \A s \in Samples : st'[s] # "pending" => st[s] # "pending"
    BY <2>2, SettledStays DEF ReviewInv, InState, TypeOK
  <2> QED BY <2>1, <2>2, Moved
<1>2. (status = "reviewing" => pc = "idle" /\ InFlight = {})'
  <2>1. CASE status = "reviewing"
    <3>1. pc = "idle" /\ InFlight = {}
      BY <2>1 DEF ReviewInv
    <3>2. status' # "reviewing" \/ (pc' = "idle" /\ UNCHANGED st)
      BY <2>1, <3>1, Edited DEF Next, Thread, InitialisePage, RecoverSample
    <3> QED BY <3>1, <3>2 DEF InFlight, InState
  <2>2. CASE status # "reviewing" /\ status' = "reviewing"
    <3>1. CompleteUpdate \/ JobRecovered
      BY <2>2, Edited, PageIs, RecoveredIs DEF Next, Thread
    <3>2. InFlight' = InFlight
      BY <3>1 DEF CompleteUpdate, JobRecovered, queue, InFlight, InState
    <3> QED BY <2>2, <3>1, <3>2 DEF CompleteUpdate, JobRecovered, ReviewInv
  <2> QED BY <2>1, <2>2
<1>3. (pc = "update" => update.next \in {"idle", "beyond"})'
  BY Edited DEF Next, Thread, InitialisePage, RecoverSample, BeginUpdate, ReviewInv
<1>4. (pc = "update" /\ update.to = "reviewing" => update.next = "idle" /\ InFlight = {})'
  <2>1. CASE pc = "update"
    <3>1. UNCHANGED <<update, st>> \/ pc' # "update"
      BY <2>1, Edited DEF Next, Thread, InitialisePage, RecoverSample, ReviewInv
    <3> QED BY <2>1, <3>1 DEF ReviewInv, InFlight, InState
  <2>2. CASE pc # "update" /\ pc' = "update" /\ update'.to = "reviewing"
    <3>1. Initialised /\ Pending # {} /\ update'.next = "idle"
      BY <2>2, Edited DEF Next, Thread, InitialisePage, RecoverSample, BeginUpdate
    <3>2. InFlight = {} /\ InFlight' = InFlight
      BY <3>1 DEF ReviewInv, Settled, InFlight, InState, Initialised, queue
    <3> QED BY <3>1, <3>2
  <2> QED BY <2>1, <2>2
<1>5. (pc = "initialise" => Samples \ todo \subseteq Decided)'
  <2>1. CASE pc = "initialise" /\ pc' = "initialise"
    <3>1. InitialisePage \/ UNCHANGED <<todo, decision>>
      BY <2>1, Edited, RecoveredIs DEF Next, Thread, ReviewInv
    <3>2. CASE InitialisePage
      <4>1. \A s \in Samples : InitialDecision(input[s]) # Undecided
        BY InitialIs DEF TypeOK, Undecided
      <4> QED BY <2>1, <3>2, <4>1, PageIs DEF ReviewInv, Decided
    <3> QED BY <2>1, <3>1, <3>2 DEF ReviewInv, Decided
  <2>2. CASE pc # "initialise" /\ pc' = "initialise"
    <3>1. todo' = Samples
      BY <2>2, Edited DEF Next, Thread, InitialisePage, RecoverSample, BeginUpdate, ReviewInv
    <3> QED BY <3>1
  <2> QED BY <2>1, <2>2
<1>6. (pc \in {"poll", "claim"} /\ status = "running" => Settled)'
  <2>1. ASSUME pc' \in {"poll", "claim"}, status' = "running" PROVE Settled
    <3>1. \/ pc \in {"poll", "claim"} /\ status = "running"
          \/ pc \in Applying
          \/ Initialised /\ todo = {} /\ Pending = {}
      BY <2>1, Edited DEF Next, Thread, InitialisePage, RecoverSample, BeginUpdate, ReviewInv, Applying
    <3>2. CASE Initialised /\ todo = {} /\ Pending = {}
      BY <3>2 DEF Initialised, ReviewInv, Settled, Decided
    <3> QED BY <3>1, <3>2 DEF ReviewInv
  <2> QED BY <2>1, SettledStays
<1>7. (pc \in Applying => Settled)'
  <2>1. ASSUME pc' \in Applying PROVE Settled
    <3>1. \/ pc = "claim" /\ status = "running"
          \/ pc \in Applying
      BY <2>1, Edited DEF Next, Thread, InitialisePage, RecoverSample, BeginUpdate, ReviewInv, Applying
    <3> QED BY <3>1 DEF ReviewInv
  <2> QED BY <2>1, SettledStays
<1>8. (pc = "recover" => InFlight \subseteq todo)'
  <2>1. CASE pc = "recover" /\ pc' = "recover"
    <3>1. RecoverSample \/ UNCHANGED <<todo, st>>
      BY <2>1, Edited, PageIs DEF Next, Thread, ReviewInv
    <3>2. CASE RecoverSample
      <4>1. PICK s \in todo :
              /\ s \in Samples /\ todo' = todo \ {s}
              /\ \A t \in Samples \ {s} : st'[t] = st[t]
              /\ st'[s] \notin {"leased", "prepared"}
        BY <3>2, RecoveredIs, AppliedIs DEF TypeOK, queue
      <4> QED BY <2>1, <4>1 DEF ReviewInv, InFlight, InState
    <3> QED BY <2>1, <3>1, <3>2 DEF ReviewInv, InFlight, InState
  <2>2. CASE pc # "recover" /\ pc' = "recover"
    <3>1. todo' = Samples
      BY <2>2, Edited DEF Next, Thread, InitialisePage, RecoverSample, BeginUpdate, ReviewInv
    <3> QED BY <3>1 DEF InFlight, InState
  <2> QED BY <2>1, <2>2
<1> QED BY <1>1, <1>2, <1>3, <1>4, <1>5, <1>6, <1>7, <1>8 DEF ReviewInv

-----------------------------------------------------------------------------
(* The writing of the counts                                               *)

\* The steps the writing is made of; no other moves it, or the thread within it.
LEMMA Writing ==
  ASSUME TypeOK, ReviewInv, Next
  PROVE  \/ Claim \/ WritePrepared \/ StagePrepared \/ CommitPrepared \/ Complete
         \/ (RecoverSample \/ InitialisePage) /\ pc' \notin Applying
         \/ /\ \E c \in Clients : \E batch \in SUBSET Samples : EditBatch(c, batch)
            /\ InFlight = {} /\ pc' \notin Applying
         \/ /\ UNCHANGED <<decision, queue>>
            /\ UNCHANGED <<pc, todo>> \/ pc' \notin Applying
BY Edited, PageIs, RecoveredIs
   DEF Next, Thread, thread, row, CompleteUpdate, StartModule, Enter, Initialised, Poll, BatchApplied,
       Finish, NextModule, Returned, WriteFails, FailRun, ReadPage, Confirm, Pause, Resume, Cancel,
       Crash, BeginRecovery, JobRecovered, BeginUpdate, Applying, ReviewInv

\* Every step keeps the counts aside what was decided.
LEMMA ApplyStep ==
  ASSUME TypeOK, DecisionInv, ReviewInv, ApplyInv, Next PROVE ApplyInv'
<1>1. CASE Claim
  <2>1. /\ pc' \notin {"stage", "commit", "complete"} /\ UNCHANGED <<decision, text, prepared>>
        /\ \A s \in Samples : st'[s] = IF s \in todo' THEN "leased" ELSE st[s]
        /\ todo' \subseteq Samples
    BY <1>1 DEF Claim, Lowest, InState
  <2> QED BY <2>1 DEF ApplyInv, Prepared, TypeOK
<1>2. CASE WritePrepared
  <2>1. First(todo) \in todo /\ First(todo) \in Samples
    BY <1>2, FirstIn DEF WritePrepared, TypeOK
  <2>2. PICK f : f = First(todo)
    OBVIOUS
  <2>3. /\ UNCHANGED <<decision, text, st, todo>> /\ pc' \in {"stage", "raise"}
        /\ \A s \in Samples \ {f} : prepared'[s] = prepared[s]
        /\ pc' = "stage" => prepared'[f] = decision[f].final
        /\ st[f] = "leased" /\ \A s \in todo : st[s] = "leased"
    BY <1>2, <2>1, <2>2 DEF WritePrepared, TypeOK, ApplyInv
  <2>4. First(todo') = f
    BY <2>2, <2>3
  <2> QED BY <2>1, <2>2, <2>3, <2>4 DEF ApplyInv, Prepared
<1>3. CASE StagePrepared
  <2>1. First(todo) \in todo /\ First(todo) \in Samples
    BY <1>3, Working DEF StagePrepared
  <2>2. PICK f : f = First(todo)
    OBVIOUS
  <2>3. /\ UNCHANGED <<decision, text, prepared, todo>> /\ pc' = "commit"
        /\ \A s \in Samples \ {f} : st'[s] = st[s]
        /\ st'[f] = "prepared" /\ prepared[f] = decision[f].final
        /\ \A s \in todo \ {f} : st[s] = "leased"
    BY <1>3, <2>1, <2>2 DEF StagePrepared, TypeOK, ApplyInv
  <2>4. First(todo') = f /\ todo \subseteq Samples
    BY <2>2, <2>3 DEF TypeOK
  <2> QED BY <2>1, <2>2, <2>3, <2>4 DEF ApplyInv, Prepared
<1>4. CASE CommitPrepared
  <2>1. First(todo) \in todo /\ First(todo) \in Samples
    BY <1>4, Working DEF CommitPrepared
  <2>2. PICK f : f = First(todo)
    OBVIOUS
  <2>3. /\ UNCHANGED <<decision, st, todo>> /\ pc' = "complete"
        /\ \A s \in Samples \ {f} : text'[s] = text[s] /\ prepared'[s] = prepared[s]
        /\ text'[f] = decision[f].final /\ prepared'[f] = NoCount /\ st[f] = "prepared"
        /\ \A s \in todo \ {f} : st[s] = "leased"
    BY <1>4, <2>1, <2>2 DEF CommitPrepared, Commit, TypeOK, ApplyInv
  <2>4. First(todo') = f
    BY <2>2, <2>3
  <2> QED BY <2>1, <2>2, <2>3, <2>4 DEF ApplyInv, Prepared
<1>5. CASE Complete
  <2>1. First(todo) \in todo /\ First(todo) \in Samples
    BY <1>5, Working DEF Complete
  <2>2. PICK f : f = First(todo)
    OBVIOUS
  <2>3. /\ UNCHANGED <<text, prepared>> /\ pc' = "write" /\ todo' = todo \ {f}
        /\ \A s \in Samples \ {f} : st'[s] = st[s]
        /\ st'[f] = "completed" /\ \A s \in Samples : decision'[s].final = decision[s].final
        /\ \A s \in todo \ {f} : st[s] = "leased"
    BY <1>5, <2>1, <2>2, AppliedIs DEF Complete, ApplyInv
  <2>4. todo \subseteq Samples
    BY DEF TypeOK
  <2> QED BY <2>1, <2>2, <2>3, <2>4 DEF ApplyInv, Prepared
<1>6. CASE RecoverSample /\ pc' \notin Applying
  <2>1. PICK s \in Samples :
          \/ st' = [st EXCEPT ![s] = "pending"] /\ UNCHANGED <<decision, text, prepared>>
          \/ /\ Settle(s)
             /\ \A t \in Samples \ {s} : text'[t] = text[t] /\ prepared'[t] = prepared[t]
          \/ UNCHANGED <<decision, queue>>
    BY <1>6, RecoveredIs DEF Commit, TypeOK
  <2>2. \A t \in Samples : st'[t] = "prepared" =>
          /\ st[t] = "prepared" /\ decision'[t].final = decision[t].final
          /\ text'[t] = text[t] /\ prepared'[t] = prepared[t]
    BY <2>1, AppliedIs DEF TypeOK, queue
  <2> QED BY <1>6, <2>2 DEF ApplyInv, Applying, Prepared
<1>7. CASE InitialisePage /\ pc' \notin Applying
  <2>1. \A t \in Samples : st[t] = "prepared" => decision[t] # Undecided
    BY DEF ReviewInv, Settled, Decided, InState
  <2>2. \A t \in Samples : st[t] = "prepared" => decision'[t] = decision[t]
    BY <1>7, <2>1, PageIs
  <2> QED BY <1>7, <2>2, PageIs DEF ApplyInv, Applying, Prepared, queue
<1>8. CASE /\ \E c \in Clients : \E batch \in SUBSET Samples : EditBatch(c, batch)
           /\ InFlight = {} /\ pc' \notin Applying
  BY <1>8, Edited DEF ApplyInv, Applying, InFlight, InState, queue
<1>9. CASE UNCHANGED <<decision, queue>> /\ (UNCHANGED <<pc, todo>> \/ pc' \notin Applying)
  BY <1>9 DEF ApplyInv, Applying, Prepared, queue
<1> QED BY <1>1, <1>2, <1>3, <1>4, <1>5, <1>6, <1>7, <1>8, <1>9, Writing

\* Every step keeps the applied decisions in the annotations.
LEMMA AppliedStep ==
  ASSUME TypeOK, DecisionInv, ReviewInv, ApplyInv, AppliedAsDecided, Next PROVE AppliedAsDecided'
<1>1. CASE UNCHANGED <<decision, text>>
  BY <1>1 DEF AppliedAsDecided
<1>2. CASE CommitPrepared
  BY <1>2, Working DEF CommitPrepared, Commit, ApplyInv, AppliedAsDecided, TypeOK, DecisionInv
<1>3. ASSUME NEW s \in Samples, Settle(s), text'[s] = decision[s].final,
             \A t \in Samples \ {s} : text'[t] = text[t]
      PROVE  AppliedAsDecided'
  <2>1. /\ decision'[s].final = decision[s].final
        /\ \A t \in Samples \ {s} : decision'[t] = decision[t]
    BY <1>3, AppliedIs
  <2> QED BY <1>3, <2>1 DEF AppliedAsDecided
<1>4. CASE Complete
  BY <1>3, <1>4, Working DEF Complete, ApplyInv
<1>5. CASE RecoverSample
  <2>1. PICK s \in Samples :
          \/ UNCHANGED <<decision, text>>
          \/ /\ st[s] = "prepared" /\ prepared[s] # NoCount /\ Commit(s) /\ Settle(s)
          \/ /\ st[s] = "prepared" /\ prepared[s] = NoCount /\ text' = text /\ Settle(s)
    BY <1>5, RecoveredIs DEF queue
  <2>2. ASSUME st[s] = "prepared" PROVE decision[s].final # NoCount /\ Prepared(s)
    <3>1. Settled
      BY <2>2 DEF ReviewInv, InState
    <3>2. decision[s].status \in {"auto_resolved", "manual_resolved"}
      BY <3>1, SettledIs
    <3>3. decision[s].final \in Counts
      BY <3>2 DEF DecisionInv, Undecided
    <3> QED BY <2>2, <3>3, CountReviewAssumption DEF ApplyInv, NoCount
  <2>3. CASE UNCHANGED <<decision, text>>
    BY <1>1, <2>3
  <2>4. CASE st[s] = "prepared" /\ prepared[s] # NoCount /\ Commit(s) /\ Settle(s)
    <3>1. text'[s] = decision[s].final /\ \A t \in Samples \ {s} : text'[t] = text[t]
      BY <2>2, <2>4 DEF Commit, Prepared, TypeOK
    <3> QED BY <1>3, <2>4, <3>1
  <2>5. CASE st[s] = "prepared" /\ prepared[s] = NoCount /\ text' = text /\ Settle(s)
    BY <1>3, <2>2, <2>5 DEF Prepared
  <2> QED BY <2>1, <2>3, <2>4, <2>5
<1>6. CASE InitialisePage
  <2>1. \A s \in Samples : decision'[s] = decision[s] \/ ~decision'[s].applied
    BY <1>6, PageIs, InitialIs DEF TypeOK
  <2> QED BY <1>6, <2>1, PageIs DEF AppliedAsDecided, queue
<1>7. CASE \E c \in Clients : \E batch \in SUBSET Samples : EditBatch(c, batch)
  BY <1>7, Edited DEF AppliedAsDecided, queue
<1> QED BY <1>1, <1>2, <1>4, <1>5, <1>6, <1>7, Touching
     DEF data, queue, Claim, WritePrepared, StagePrepared, ReadPage

-----------------------------------------------------------------------------
(* The theorems                                                            *)

\* The invariant holds when the module starts.
LEMMA InitInv == Init => TypeOK /\ IInv
<1> SUFFICES ASSUME Init PROVE TypeOK /\ IInv
  OBVIOUS
<1>1. Undecided \in Decisions
  BY DEF Undecided, Decisions
<1>2. TypeOK
  BY <1>1 DEF Init, TypeOK
<1>3. DecisionInv /\ AppliedAsDecided
  BY DEF Init, DecisionInv, AppliedAsDecided, Undecided
<1>4. SeenInv
  BY DEF Init, SeenInv, Undecided
<1>5. ReviewInv /\ ApplyInv
  BY DEF Init, ReviewInv, ApplyInv, InState, Applying
<1> QED BY <1>2, <1>3, <1>4, <1>5 DEF IInv

\* A step that changes nothing keeps it.
LEMMA StutterInv == ASSUME TypeOK, IInv, UNCHANGED vars PROVE (TypeOK /\ IInv)'
BY DEF vars, row, queue, thread, TypeOK, IInv, DecisionInv, SeenInv, ReviewInv, ApplyInv,
       AppliedAsDecided, Settled, Decided, Pending, InFlight, InState, Prepared

\* A step of the program keeps it.
LEMMA NextInv == ASSUME TypeOK, IInv, Next PROVE (TypeOK /\ IInv)'
<1>1. TypeOK'
  BY TypeStep DEF IInv
<1>2. DecisionInv'
  BY <1>1, DecisionStep DEF IInv
<1>3. SeenInv'
  BY <1>1, SeenStep DEF IInv
<1>4. ReviewInv'
  BY <1>1, <1>2, ReviewStep DEF IInv
<1>5. ApplyInv' /\ AppliedAsDecided'
  BY ApplyStep, AppliedStep DEF IInv
<1> QED BY <1>1, <1>2, <1>3, <1>4, <1>5 DEF IInv

\* The invariant holds throughout.
LEMMA Invariants == Spec => [](TypeOK /\ IInv)
<1>1. TypeOK /\ IInv /\ [Next]_vars => (TypeOK /\ IInv)'
  BY StutterInv, NextInv
<1> QED BY <1>1, InitInv, PTL DEF Spec

\* The decisions, the queue and the clients' pages are what their columns may hold.
THEOREM TypeCorrect == Spec => []TypeOK
BY Invariants, PTL

\* An applied decision is the count of the annotation, through every crash, recovery and
\* edit in between (complete_leased_sample_and_count, recover_prepared).
THEOREM AppliedIsDecided == Spec => []AppliedAsDecided
<1>1. IInv => AppliedAsDecided
  BY DEF IInv
<1> QED BY <1>1, Invariants, PTL

\* A count is written only when nothing of the job waits for the user any more, and one
\* that was in doubt only by the user's decision (confirm_count_review, CountReviewRunner).
THEOREM UserAsked == Spec => []ReviewedBeforeApplied
<1>1. TypeOK /\ IInv => ReviewedBeforeApplied
  <2> SUFFICES ASSUME TypeOK, IInv, NEW s \in Samples, st[s] # "pending"
      PROVE  Pending = {} /\ (Reasons(input[s]) # {} => decision[s].status = "manual_resolved")
    BY DEF ReviewedBeforeApplied
  <2>1. Settled
    BY DEF IInv, ReviewInv, InState, TypeOK
  <2>2. decision[s].status \in {"auto_resolved", "manual_resolved"}
    BY <2>1, SettledIs DEF IInv
  <2>3. decision[s].status = "auto_resolved" => Reasons(input[s]) = {}
    BY DEF IInv, DecisionInv
  <2> QED BY <2>1, <2>2, <2>3 DEF Settled
<1> QED BY <1>1, Invariants, PTL

\* A saved decision is replaced only by a client that saw it: not by a restart, a
\* recovery, or a client with an older page (insert_initial_count_review_decisions,
\* _resolve_count_review_decision_in_transaction).
THEOREM DecisionsStand == Spec => NoDecisionLost
<1>1. ASSUME TypeOK, IInv, [Next]_vars, NEW s \in Samples,
             decision[s] # Undecided, decision'[s].final # decision[s].final
      PROVE  \E c \in Clients : seen[c][s] = decision[s]
  <2>1. ~UNCHANGED decision
    BY <1>1
  <2>2. Next
    BY <1>1, <2>1 DEF vars
  <2>3. \E c \in Clients : \E batch \in SUBSET Samples : EditBatch(c, batch)
    <3>1. ~InitialisePage
      BY <1>1, PageIs
    <3>2. ~Complete
      BY <1>1, Working, AppliedIs DEF Complete, IInv
    <3>3. ~RecoverSample
      BY <1>1, RecoveredIs, AppliedIs DEF queue
    <3> QED BY <2>1, <2>2, <3>1, <3>2, <3>3, Touching
         DEF data, Claim, WritePrepared, StagePrepared, CommitPrepared, ReadPage
  <2>4. PICK c \in Clients, batch \in SUBSET Samples : EditBatch(c, batch)
    BY <2>3
  <2>5. s \in batch
    BY <1>1, <2>4, Edited
  <2>6. decision[s].version = seen[c][s].version /\ ~decision[s].applied
    BY <1>1, <2>4, <2>5, Edited
  <2> QED BY <1>1, <2>6 DEF IInv, SeenInv
<1>2. TypeOK /\ IInv /\ [Next]_vars =>
        \A s \in Samples :
          decision[s] # Undecided /\ decision'[s].final # decision[s].final
            => \E c \in Clients : seen[c][s] = decision[s]
  BY <1>1
<1> QED BY <1>2, Invariants, PTL DEF Spec, NoDecisionLost

=============================================================================

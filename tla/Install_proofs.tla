---------------------------- MODULE Install_proofs ----------------------------
(***************************************************************************)
(* Proofs about Install, for every plan of components and every number of  *)
(* runs, failing operations and crashes: a run that reports success left   *)
(* every recorded component whole, and a run that failed on a rename of    *)
(* its publication, or before, took back what it had published.            *)
(*                                                                         *)
(* And about Publication, for any number of scripts, failing operations    *)
(* and deaths: a script that reports an error left its targets as it found *)
(* them, unless its undo failed too, and what it replaces stands at its    *)
(* target or beside it until everything new is in place.                   *)
(***************************************************************************)
EXTENDS MCInstall, WellFoundedInduction, FiniteSetTheorems, TLAPS

-----------------------------------------------------------------------------
(* The inductive invariant                                                 *)

Journals ==
  [open : BOOLEAN, of : SUBSET Components, moved : SUBSET Components,
   promoted : SUBSET Components]

\* What is kept per component is a function, and the journals are records.
TypeInv ==
  /\ target = [c \in Components |-> target[c]]
  /\ manifests = [c \in Components |-> manifests[c]]
  /\ backup = [c \in Components |-> backup[c]]
  /\ final = [c \in Components |-> final[c]]
  /\ pending \subseteq Components /\ left \subseteq Components
  /\ journal \in Journals /\ entries \in Journals
  /\ before = <<>> \/ before = [c \in Components |-> before[c]]

\* The stages before the publication, those of its renames, and those after.
Unpublished == {"prepare", "probe", "begin"}
Renaming == {"move", "noteMove", "promote", "notePromote"}
Published == {"dropBackups", "dropJournal", "manifests", "tidy"}

\* What is skipped is current, and what has been published is of the plan.
WholeInv ==
  /\ pc \in Unpublished \cup Renaming \cup Published =>
       /\ pending \subseteq Planned
       /\ \A c \in Planned \ pending :
            target[c] = final[c] /\ (c \in Runtimes => manifests[c] = final[c])
  /\ pc \in Renaming =>
       left \subseteq pending /\ left # {} /\ \A c \in pending \ left : target[c] = final[c]
  /\ pc = "notePromote" => target[FirstOf(left)] = final[FirstOf(left)]
  /\ pc \in Published => \A c \in pending : target[c] = final[c]
  /\ pc = "manifests" =>
       left \subseteq pending /\ \A c \in (pending \cap Runtimes) \ left : manifests[c] = final[c]
  /\ pc = "tidy" =>
       /\ \A c \in pending \cap Runtimes : manifests[c] = final[c]
       /\ state = [accelerator |-> accelerator, components |-> [c \in Planned |-> final[c]]]

\* Where the trees of a component are, by the records of the publication.
Placed(c, records) ==
  /\ backup[c] = IF c \in records.moved THEN before[c] ELSE None
  /\ c \in records.moved => before[c] # None
  /\ target[c] = IF c \in records.promoted THEN final[c]
                 ELSE IF c \in records.moved THEN None ELSE before[c]
  /\ c \in records.promoted \ records.moved => before[c] = None

\* The failures that FailedRunRestores speaks of.
Renames == {"begin", "move", "promote"}

\* What the rollback finds, and has already put back.
RollbackInv ==
  /\ pc = "recover" => before = <<>>
  /\ pc \in {"check"} \cup Unpublished \cup Renaming =>
       before = [c \in Components |-> before[c]]
  /\ pc \in {"check"} \cup Unpublished =>
       target = before /\ \A c \in Components : backup[c] = None
  /\ pc \in Renaming =>
       /\ \A c \in Components : Placed(c, entries)
       /\ entries.moved \cup entries.promoted \subseteq entries.of
       /\ (left \ {FirstOf(left)}) \cap (entries.moved \cup entries.promoted) = {}
       /\ entries.of = pending
  /\ pc = "move" => FirstOf(left) \notin entries.moved
  /\ pc \in {"move", "noteMove", "promote"} => FirstOf(left) \notin entries.promoted
  /\ pc \in {"noteMove", "promote"} => FirstOf(left) \in entries.moved \/ before[FirstOf(left)] = None
  /\ pc \in {"move", "promote"} => journal = entries
  /\ pc = "rollback" /\ faultsAt \subseteq Renames =>
       /\ before = [c \in Components |-> before[c]]
       /\ \A c \in left : Placed(c, journal)
       /\ \A c \in Components \ left : target[c] = before[c]
  /\ pc \in {"cleanup", "failed"} /\ DOMAIN before # {} /\ faultsAt \subseteq Renames =>
       target = before

IInv == TypeInv /\ WholeInv /\ RollbackInv /\ InstalledIsWhole

-----------------------------------------------------------------------------
(* The order of the plan                                                   *)

Below == {p \in Nat \X Nat : p[1] < p[2]}

\* A nonempty set of naturals has a least element.
LEMMA Least == ASSUME NEW C \in SUBSET Nat, C # {} PROVE \E x \in C : \A y \in C : x <= y
<1>1. IsWellFoundedOn(Below, Nat)
  <2>1. Below = OpToRel(<, Nat)
    BY DEF OpToRel, Below
  <2> QED BY <2>1, NatLessThanWellFounded
<1>2. PICK x \in C : \A y \in C : ~(<<y, x>> \in Below)
  BY <1>1, WFMin
<1>3. ASSUME NEW y \in C PROVE x <= y
  <2>1. x \in Nat /\ y \in Nat
    OBVIOUS
  <2>2. ~(<<y, x>> \in Below)
    BY <1>2
  <2>3. ~(y < x)
    BY <2>1, <2>2 DEF Below
  <2> QED BY <2>1, <2>3
<1> QED BY <1>3

\* A component has a place in the plan.
LEMMA IndexIn ==
  ASSUME NEW c \in Components
  PROVE  Index(c) \in 1 .. Len(Plan) /\ Len(Plan) \in Nat
<1>1. \E i \in 1 .. Len(Plan) : Plan[i] = c
  BY DEF Components
<1>2. Index(c) \in 1 .. Len(Plan)
  BY <1>1 DEF Index
<1> QED BY <1>2, InstallAssumption

\* The first component of a set is one of the set.
LEMMA FirstOfIn == ASSUME NEW C \in SUBSET Components, C # {} PROVE FirstOf(C) \in C
<1> DEFINE places == {Index(c) : c \in C}
<1>1. places \in SUBSET Nat /\ places # {}
  BY IndexIn
<1>2. PICK x \in places : \A y \in places : x <= y
  BY <1>1, Least
<1>3. PICK c \in C : Index(c) = x
  BY <1>2
<1>4. \A d \in C : Index(c) <= Index(d)
  BY <1>2, <1>3
<1> QED BY <1>3, <1>4 DEF FirstOf

\* And so is the last.
LEMMA LastOfIn == ASSUME NEW C \in SUBSET Components, C # {} PROVE LastOf(C) \in C
<1> DEFINE places == {Len(Plan) - Index(c) : c \in C}
<1>1. places \in SUBSET Nat /\ places # {}
  BY IndexIn
<1>2. PICK x \in places : \A y \in places : x <= y
  BY <1>1, Least
<1>3. PICK c \in C : Len(Plan) - Index(c) = x
  BY <1>2
<1>4. ASSUME NEW d \in C PROVE Index(c) >= Index(d)
  <2>1. Len(Plan) - Index(c) <= Len(Plan) - Index(d)
    BY <1>2, <1>3
  <2>2. c \in Components /\ d \in Components
    BY <1>3
  <2> QED BY <2>1, <2>2, IndexIn
<1> QED BY <1>3, <1>4 DEF LastOf

-----------------------------------------------------------------------------
(* Types, and what a failure does                                          *)

\* A failing step goes to the rollback, the cleanup or the end of the process.
LEMMA Failing ==
  ASSUME Raise \/ Die, pc \notin {"rollback", "cleanup", "killed"}
  PROVE  /\ pc' \in {"rollback", "cleanup", "killed"}
         /\ faultsAt' = faultsAt \cup {pc}
         /\ pc' = "rollback" => pc \in InTry /\ left' = journal.of
         /\ pc' # "rollback" => left' = {}
  BY DEF Raise, Die, Spend, Handler

\* A step that fails with the files as the publication needs them, or elsewhere.
LEMMA LeftAfterFailure ==
  ASSUME Raise \/ Die, journal \in Journals PROVE left' \subseteq Components
  BY DEF Raise, Die, Journals

\* Every step keeps the types.
LEMMA TypeStep == ASSUME TypeInv, WholeInv, Next PROVE TypeInv'
<1> USE LeftAfterFailure DEF At, Goto, Calm, SamePlan, disk
<1>0. NoJournal \in Journals
  BY DEF NoJournal, Journals
<1>1. CASE \E acc \in Accelerators : Start(acc)
  <2>1. left' \subseteq Components /\ entries' \in Journals
    BY <1>0, <1>1 DEF Start, TypeInv, Journals
  <2> QED BY <1>1, <2>1 DEF Start, TypeInv
<1>2. CASE RecoverEntry
  <2>1. UNCHANGED <<manifests, final, pending, journal, entries, before>>
    BY <1>2 DEF RecoverEntry
  <2>2. target' = [c \in Components |-> target'[c]] /\ backup' = [c \in Components |-> backup'[c]]
    BY <1>2 DEF RecoverEntry, TypeInv
  <2>3. left' \subseteq Components
    BY <1>2 DEF RecoverEntry, TypeInv
  <2> QED BY <2>1, <2>2, <2>3 DEF TypeInv
<1>3. CASE RecoverDone
  <2>1. UNCHANGED <<target, manifests, final, pending, entries>>
    BY <1>3 DEF RecoverDone
  <2>2. backup' = [c \in Components |-> backup'[c]] /\ journal' \in Journals
    BY <1>0, <1>3 DEF RecoverDone, TypeInv
  <2>3. left' \subseteq Components /\ before' \in {before, target}
    BY <1>3 DEF RecoverDone, TypeInv
  <2> QED BY <2>1, <2>2, <2>3 DEF TypeInv
<1>4. CASE Check \/ Prepare
  BY <1>4 DEF Check, Prepare, TypeInv, Planned
<1>5. CASE \E verdict \in Verdicts : Probe(verdict)
  <2>1. PICK verdict \in Verdicts : Probe(verdict)
    BY <1>5
  <2> QED BY <2>1 DEF Probe, TypeInv
<1>6. CASE PublishBegin
  <2>1. entries' \in Journals /\ journal' \in {journal, entries'}
    <3>1. entries' = entries \/ entries' = [NoJournal EXCEPT !.open = pending # {}, !.of = pending]
      BY <1>6 DEF PublishBegin
    <3>2. entries' \in Journals
      BY <1>0, <3>1 DEF TypeInv, Journals
    <3> QED BY <1>6, <3>2 DEF PublishBegin
  <2> QED BY <1>6, <2>1 DEF PublishBegin, TypeInv
<1>7. CASE MoveOut
  <2>1. FirstOf(left) \in Components
    BY <1>7, FirstOfIn DEF MoveOut, TypeInv, WholeInv, Renaming
  <2>2. left' \subseteq Components
    BY <1>7 DEF MoveOut, TypeInv
  <2>3. entries' = entries \/ entries' = [entries EXCEPT !.moved = @ \cup {FirstOf(left)}]
    BY <1>7 DEF MoveOut
  <2>4. entries' \in Journals
    BY <2>1, <2>3 DEF TypeInv, Journals
  <2> QED BY <1>7, <2>2, <2>4 DEF MoveOut, TypeInv
<1>8. CASE NoteMove \/ NotePromote
  BY <1>8 DEF NoteMove, NotePromote, Note, TypeInv
<1>9. CASE Promote
  <2>1. FirstOf(left) \in Components
    BY <1>9, FirstOfIn DEF Promote, TypeInv, WholeInv, Renaming
  <2>2. left' \subseteq Components
    BY <1>9 DEF Promote, TypeInv
  <2>3. entries' = entries \/ entries' = [entries EXCEPT !.promoted = @ \cup {FirstOf(left)}]
    BY <1>9 DEF Promote
  <2>4. entries' \in Journals
    BY <2>1, <2>3 DEF TypeInv, Journals
  <2> QED BY <1>9, <2>2, <2>4 DEF Promote, TypeInv
<1>10. CASE DropBackups
  BY <1>10 DEF DropBackups, TypeInv
<1>11. CASE DropJournal
  BY <1>0, <1>11 DEF DropJournal, TypeInv
<1>12. CASE WriteManifest
  BY <1>12 DEF WriteManifest, TypeInv
<1>13. CASE WriteState
  BY <1>13 DEF WriteState, TypeInv
<1>14. CASE CleanupSuccess \/ CleanupFailure
  <2>1. UNCHANGED <<target, manifests, final, pending, entries, before>>
    BY <1>14 DEF CleanupSuccess, CleanupFailure
  <2>2. EmptyTransactions \/ SomeTransactions
    BY <1>14 DEF CleanupSuccess, CleanupFailure
  <2>3. journal' \in Journals /\ backup' = [c \in Components |-> backup'[c]]
    BY <1>0, <2>2 DEF EmptyTransactions, SomeTransactions, TypeInv
  <2>4. left' \subseteq Components
    BY <1>14 DEF CleanupSuccess, CleanupFailure, TypeInv
  <2> QED BY <2>1, <2>3, <2>4 DEF TypeInv
<1> QED
  BY <1>1, <1>2, <1>3, <1>4, <1>5, <1>6, <1>7, <1>8, <1>9, <1>10, <1>11, <1>12, <1>13, <1>14
  DEF Next

-----------------------------------------------------------------------------
(* Success                                                                 *)

\* Steps that touch neither the plan nor what is installed.
LEMMA WholeKept ==
  ASSUME WholeInv, UNCHANGED <<target, manifests, state, accelerator, final, pending, left, pc>>
  PROVE  WholeInv'
  BY DEF WholeInv, Planned

\* Steps that end in a stage the invariant says nothing of.
LEMMA WholeElsewhere ==
  ASSUME pc' \notin Unpublished \cup Renaming \cup Published PROVE WholeInv'
  BY DEF WholeInv, Unpublished, Renaming, Published

\* The plan is published component by component, and what it skips stays current.
LEMMA WholeStep == ASSUME TypeInv, WholeInv, Next PROVE WholeInv'
<1> USE DEF At, Goto, Calm, SamePlan, disk, Unpublished, Renaming, Published
<1>1. CASE pc' \in {"recover", "rollback", "check", "cleanup", "killed", "installed", "failed"}
  BY <1>1, WholeElsewhere
<1>2. CASE (Raise \/ Die) /\ pc \in Unpublished \cup Renaming \cup Published
  BY <1>1, <1>2, Failing
<1>3. CASE (\E acc \in Accelerators : Start(acc)) \/ RecoverDone \/ CleanupFailure
  BY <1>1, <1>3 DEF Start, RecoverDone, CleanupFailure, Raise, Die, Handler, InTry
<1>4. CASE RecoverEntry
  BY <1>1, <1>4 DEF RecoverEntry, Recovering, Raise, Die, Handler, InTry
<1>5. CASE Check
  <2>1. /\ pc' = "prepare" /\ UNCHANGED <<target, manifests, final, accelerator, state>>
        /\ pending' = {c \in Planned : ~IsCurrent(c, final[c], accelerator)}
    BY <1>5 DEF Check
  <2>2. Planned' = Planned
    BY <2>1 DEF Planned
  <2> QED BY <2>1, <2>2 DEF WholeInv, IsCurrent
<1>6. CASE Prepare
  <2>1. /\ pc = "prepare" /\ pc' \in {"probe", "cleanup"}
        /\ UNCHANGED <<target, manifests, final, pending>>
    BY <1>6 DEF Prepare
  <2> QED BY <2>1 DEF WholeInv, Planned
<1>7. CASE \E verdict \in Verdicts : Probe(verdict)
  <2>1. PICK verdict \in Verdicts : Probe(verdict)
    BY <1>7
  <2>2. CASE pc' # "begin"
    BY <1>1, <2>1, <2>2 DEF Probe
  <2>3. CASE pc' = "begin"
    <3>1. /\ pc = "probe" /\ UNCHANGED <<target, manifests>>
          /\ final' = [c \in Components |-> IF c \in Rebuilt(verdict) THEN "cpu"
                                            ELSE IF c \in Dropped(verdict) THEN None ELSE final[c]]
          /\ pending' = pending \ Dropped(verdict)
      BY <2>1, <2>3 DEF Probe
    <3>2. Rebuilt(verdict) \subseteq pending /\ Dropped(verdict) \subseteq pending
      BY DEF Rebuilt, FallsBack, Dropped
    <3>3. pending \subseteq Planned
      BY <3>1 DEF WholeInv
    <3>4. Planned' \subseteq Planned
      BY <3>1, <3>2, <3>3 DEF Planned
    <3>5. pending' \subseteq Planned'
      <4>1. ASSUME NEW c \in pending' PROVE c \in Components /\ final'[c] # None
        <5>1. c \in pending /\ c \notin Dropped(verdict) /\ c \in Components /\ final[c] # None
          BY <3>1, <3>3, <4>1 DEF Planned
        <5> QED BY <3>1, <5>1 DEF None
      <4> QED BY <4>1 DEF Planned
    <3>6. ASSUME NEW c \in Planned' \ pending'
          PROVE  c \in Planned \ pending /\ final'[c] = final[c]
      <4>1. c \in Components /\ final'[c] # None
        BY <3>6 DEF Planned
      <4>2. c \notin Dropped(verdict) \/ c \in Rebuilt(verdict)
        BY <3>1, <4>1
      <4>3. Rebuilt(verdict) \cap Dropped(verdict) = {}
        BY InstallAssumption DEF Rebuilt, FallsBack, Dropped
      <4> QED BY <3>1, <3>2, <3>4, <3>6, <4>1, <4>2, <4>3
    <3> QED BY <2>3, <3>1, <3>5, <3>6 DEF WholeInv
  <2> QED BY <2>2, <2>3
<1>8. CASE PublishBegin
  <2>1. CASE Raise \/ Die
    BY <1>2, <1>8, <2>1 DEF PublishBegin
  <2>2. CASE ~(Raise \/ Die)
    <3>1. /\ left' = pending /\ pc' = (IF pending # {} THEN "move" ELSE "manifests")
          /\ pc = "begin" /\ UNCHANGED <<target, manifests, final, pending>>
      BY <1>8, <2>2 DEF PublishBegin
    <3> QED BY <3>1 DEF WholeInv, Planned
  <2> QED BY <2>1, <2>2
<1>9. CASE MoveOut
  <2>1. pc = "move" /\ FirstOf(left) \in left /\ left \subseteq pending
    BY <1>9, FirstOfIn DEF MoveOut, WholeInv, TypeInv
  <2>2. CASE Raise \/ Die
    BY <1>2, <2>1, <2>2
  <2>3. CASE ~(Raise \/ Die)
    <3>1. /\ pc' \in {"promote", "noteMove"} /\ UNCHANGED <<manifests, final, pending, left>>
          /\ target' = target \/ target' = [target EXCEPT ![FirstOf(left)] = None]
      BY <1>9, <2>3 DEF MoveOut
    <3>2. \A c \in Components \ left : target'[c] = target[c]
      BY <2>1, <3>1 DEF TypeInv
    <3> QED BY <2>1, <3>1, <3>2 DEF WholeInv, Planned, TypeInv
  <2> QED BY <2>2, <2>3
<1>10. CASE NoteMove
  <2>1. CASE Raise \/ Die
    BY <1>2, <1>10, <2>1 DEF NoteMove
  <2>2. CASE ~(Raise \/ Die)
    <3>1. pc = "noteMove" /\ pc' = "promote" /\ UNCHANGED <<target, manifests, final, pending, left>>
      BY <1>10, <2>2 DEF NoteMove
    <3> QED BY <3>1 DEF WholeInv, Planned
  <2> QED BY <2>1, <2>2
<1>11. CASE Promote
  <2>1. pc = "promote" /\ FirstOf(left) \in left /\ left \subseteq pending
    BY <1>11, FirstOfIn DEF Promote, WholeInv, TypeInv
  <2>2. CASE Raise \/ Die
    BY <1>2, <2>1, <2>2
  <2>3. CASE ~(Raise \/ Die)
    <3>1. /\ pc' = "notePromote" /\ UNCHANGED <<manifests, final, pending, left>>
          /\ target' = [target EXCEPT ![FirstOf(left)] = final[FirstOf(left)]]
      BY <1>11, <2>3 DEF Promote
    <3>2. /\ \A c \in Components \ left : target'[c] = target[c]
          /\ target'[FirstOf(left)] = final[FirstOf(left)]
      BY <2>1, <3>1 DEF TypeInv
    <3> QED BY <2>1, <3>1, <3>2 DEF WholeInv, Planned, TypeInv
  <2> QED BY <2>2, <2>3
<1>12. CASE NotePromote
  <2>1. CASE Raise \/ Die
    BY <1>2, <1>12, <2>1 DEF NotePromote
  <2>2. CASE ~(Raise \/ Die)
    <3>1. /\ pc = "notePromote" /\ pc' = (IF left' = {} THEN "dropBackups" ELSE "move")
          /\ left' = left \ {FirstOf(left)} /\ UNCHANGED <<target, manifests, final, pending>>
      BY <1>12, <2>2 DEF NotePromote
    <3>2. left \subseteq pending /\ \A c \in pending \ left' : target[c] = final[c]
      BY <3>1 DEF WholeInv
    <3> QED BY <3>1, <3>2 DEF WholeInv, Planned
  <2> QED BY <2>1, <2>2
<1>13. CASE DropBackups
  <2>1. CASE Raise \/ Die
    BY <1>2, <1>13, <2>1 DEF DropBackups
  <2>2. CASE ~(Raise \/ Die)
    <3>1. /\ pc = "dropBackups" /\ pc' = "dropJournal"
          /\ UNCHANGED <<target, manifests, final, pending, left>>
      BY <1>13, <2>2 DEF DropBackups
    <3> QED BY <3>1 DEF WholeInv, Planned
  <2> QED BY <2>1, <2>2
<1>14. CASE DropJournal
  <2>1. CASE Raise \/ Die
    BY <1>2, <1>14, <2>1 DEF DropJournal
  <2>2. CASE ~(Raise \/ Die)
    <3>1. /\ pc = "dropJournal" /\ pc' = "manifests" /\ left' = pending \cap Runtimes
          /\ UNCHANGED <<target, manifests, final, pending>>
      BY <1>14, <2>2 DEF DropJournal
    <3> QED BY <3>1 DEF WholeInv, Planned
  <2> QED BY <2>1, <2>2
<1>15. CASE WriteManifest
  <2>1. pc = "manifests" /\ FirstOf(left) \in left /\ left \subseteq pending /\ pending \subseteq Components
    BY <1>15, FirstOfIn DEF WriteManifest, WholeInv, TypeInv
  <2>2. CASE Raise \/ Die
    BY <1>2, <2>1, <2>2
  <2>3. CASE ~(Raise \/ Die)
    <3>1. /\ pc' = "manifests" /\ UNCHANGED <<target, final, pending>>
          /\ manifests' = [manifests EXCEPT ![FirstOf(left)] = final[FirstOf(left)]]
          /\ left' = left \ {FirstOf(left)}
      BY <1>15, <2>1, <2>3 DEF WriteManifest
    <3>2. /\ \A c \in Components \ {FirstOf(left)} : manifests'[c] = manifests[c]
          /\ manifests'[FirstOf(left)] = final[FirstOf(left)]
      BY <2>1, <3>1 DEF TypeInv
    <3>3. \A c \in (pending \cap Runtimes) \ left' : manifests'[c] = final[c]
      BY <2>1, <3>1, <3>2 DEF WholeInv
    <3>4. \A c \in Planned \ pending : c \in Components \ {FirstOf(left)}
      BY <2>1 DEF Planned
    <3> QED BY <2>1, <3>1, <3>2, <3>3, <3>4 DEF WholeInv, Planned
  <2> QED BY <2>2, <2>3
<1>16. CASE WriteState
  <2>1. CASE Raise \/ Die
    BY <1>2, <1>16, <2>1 DEF WriteState
  <2>2. CASE ~(Raise \/ Die)
    <3>1. /\ pc = "manifests" /\ pc' = "tidy" /\ left = {}
          /\ state' = [accelerator |-> accelerator, components |-> [c \in Planned |-> final[c]]]
          /\ UNCHANGED <<target, manifests, final, pending, accelerator>>
      BY <1>16, <2>2 DEF WriteState
    <3>2. Planned' = Planned
      BY <3>1 DEF Planned
    <3> QED BY <3>1, <3>2 DEF WholeInv
  <2> QED BY <2>1, <2>2
<1>17. CASE CleanupSuccess
  <2>1. CASE Raise \/ Die
    BY <1>2, <1>17, <2>1 DEF CleanupSuccess
  <2>2. CASE ~(Raise \/ Die)
    BY <1>1, <1>17, <2>2 DEF CleanupSuccess
  <2> QED BY <2>1, <2>2
<1> QED
  BY <1>3, <1>4, <1>5, <1>6, <1>7, <1>8, <1>9, <1>10, <1>11, <1>12, <1>13, <1>14, <1>15, <1>16, <1>17
  DEF Next

-----------------------------------------------------------------------------
(* Failure                                                                 *)

\* Stages at which a failure is none that the property speaks of, or nothing is promised.
LEMMA NoPromise ==
  ASSUME \/ pc' \in Published \cup {"killed", "installed"}
         \/ pc' \in {"rollback", "cleanup", "failed"} /\ ~(faultsAt' \subseteq Renames)
  PROVE  RollbackInv'
  BY DEF RollbackInv, Unpublished, Renaming, Published

\* A failure elsewhere than at the beginning or on a rename.
LEMMA FailureElsewhere ==
  ASSUME Raise \/ Die, pc \notin Renames PROVE RollbackInv'
<1>1. /\ pc' \in {"rollback", "cleanup", "killed"} /\ pc \in faultsAt'
  BY DEF Raise, Die, Spend, Handler
<1>2. ~(faultsAt' \subseteq Renames)
  BY <1>1
<1> QED BY <1>1, <1>2, NoPromise

\* One on a rename finds every record in the journal.
LEMMA FailureOnRename ==
  ASSUME TypeInv, WholeInv, RollbackInv, Raise \/ Die, pc \in {"move", "promote"},
         UNCHANGED <<target, backup, journal, before, final>>
  PROVE  RollbackInv'
<1>1. CASE Die
  BY <1>1, NoPromise DEF Die
<1>2. CASE Raise
  <2>1. pc' = "rollback" /\ left' = journal.of /\ journal = entries
    BY <1>2 DEF Raise, Handler, InTry, RollbackInv
  <2>2. /\ \A c \in Components : Placed(c, entries)
        /\ entries.moved \cup entries.promoted \subseteq entries.of
        /\ before = [c \in Components |-> before[c]] /\ entries.of \subseteq Components
    BY DEF RollbackInv, Renaming, TypeInv, Journals
  <2>3. \A c \in Components : Placed(c, journal)'
    BY <2>1, <2>2 DEF Placed
  <2>4. \A c \in Components \ left' : target'[c] = before'[c]
    BY <2>1, <2>2 DEF Placed
  <2> QED BY <2>1, <2>2, <2>3, <2>4 DEF RollbackInv, Unpublished, Renaming, Published
<1> QED BY <1>1, <1>2

\* Until the publication begins nothing is touched; then every tree is where its records say;
\* and the rollback puts it back.
LEMMA RollbackStep == ASSUME TypeInv, WholeInv, RollbackInv, Next PROVE RollbackInv'
<1> USE DEF At, Goto, Calm, SamePlan, disk, Unpublished, Renaming, Published
<1>0. DOMAIN << >> = {}
  OBVIOUS
<1>1. CASE \E acc \in Accelerators : Start(acc)
  BY <1>1 DEF Start, RollbackInv
<1>2. CASE RecoverEntry
  <2>1. CASE Raise \/ Die
    BY <1>2, <2>1, FailureElsewhere DEF RecoverEntry, Recovering, Renames
  <2>2. CASE ~(Raise \/ Die) /\ pc = "recover"
    <3>1. pc' \in {"recover", "cleanup"} /\ before' = << >>
      BY <1>2, <2>2 DEF RecoverEntry, RollbackInv
    <3> QED BY <1>0, <3>1 DEF RollbackInv
  <2>3. CASE ~(Raise \/ Die) /\ pc = "rollback" /\ ~(faultsAt \subseteq Renames)
    BY <1>2, <2>3, NoPromise DEF RecoverEntry
  <2>4. CASE ~(Raise \/ Die) /\ pc = "rollback" /\ faultsAt \subseteq Renames
    <3> DEFINE c == LastOf(left)
    <3>1. c \in left /\ c \in Components /\ left \subseteq Components
      BY <1>2, LastOfIn DEF RecoverEntry, TypeInv
    <3>2. Placed(c, journal) /\ before = [d \in Components |-> before[d]]
      BY <2>4, <3>1 DEF RollbackInv
    <3>3. /\ ~(c \in journal.moved /\ backup[c] # None /\ RecoverTarget(c) # None)
          /\ before[c] = IF c \in journal.moved /\ backup[c] # None
                         THEN backup[c] ELSE RecoverTarget(c)
      BY <3>2 DEF Placed, RecoverTarget
    <3>4. /\ target' = [target EXCEPT ![c] = before[c]] /\ left' = left \ {c}
          /\ backup' = [backup EXCEPT ![c] = backup'[c]]
          /\ pc' = "rollback" /\ UNCHANGED <<journal, before, final, faultsAt>>
      <4>1. /\ target' = [target EXCEPT ![c] = IF c \in journal.moved /\ backup[c] # None
                                               THEN backup[c] ELSE RecoverTarget(c)]
            /\ backup' = [backup EXCEPT ![c] = IF c \in journal.moved /\ backup[c] # None
                                               THEN None ELSE @]
            /\ left' = left \ {c} /\ pc' = "rollback"
            /\ UNCHANGED <<journal, before, final, faultsAt>>
        BY <1>2, <2>4, <3>3 DEF RecoverEntry
      <4> QED BY <3>1, <3>3, <4>1 DEF TypeInv
    <3>5. /\ target'[c] = before[c]
          /\ \A d \in Components \ {c} : target'[d] = target[d] /\ backup'[d] = backup[d]
      BY <3>1, <3>4 DEF TypeInv
    <3>6. \A d \in left' : Placed(d, journal)'
      BY <2>4, <3>1, <3>4, <3>5 DEF RollbackInv, Placed
    <3>7. \A d \in Components \ left' : target'[d] = before'[d]
      BY <2>4, <3>1, <3>4, <3>5 DEF RollbackInv
    <3> QED BY <3>2, <3>4, <3>6, <3>7 DEF RollbackInv
  <2> QED BY <1>2, <2>1, <2>2, <2>3, <2>4 DEF RecoverEntry, Recovering
<1>3. CASE RecoverDone
  <2>1. CASE Raise \/ Die
    BY <1>3, <2>1, FailureElsewhere DEF RecoverDone, Recovering, Renames
  <2>2. CASE ~(Raise \/ Die) /\ pc = "recover"
    <3>1. /\ pc' = "check" /\ before' = target /\ target' = target
          /\ backup' = [c \in Components |-> None]
      BY <1>3, <2>2 DEF RecoverDone
    <3> QED BY <3>1 DEF RollbackInv, TypeInv
  <2>3. CASE ~(Raise \/ Die) /\ pc = "rollback"
    <3>1. pc' = "cleanup" /\ left = {} /\ UNCHANGED <<target, before, faultsAt>>
      BY <1>3, <2>3 DEF RecoverDone
    <3>2. faultsAt \subseteq Renames => target = before
      BY <2>3, <3>1 DEF RollbackInv, TypeInv
    <3> QED BY <3>1, <3>2 DEF RollbackInv
  <2> QED BY <1>3, <2>1, <2>2, <2>3 DEF RecoverDone, Recovering
<1>4. CASE Check \/ Prepare
  <2>1. /\ pc \in {"check", "prepare"} /\ pc' \in {"prepare", "probe", "cleanup"}
        /\ UNCHANGED <<target, backup, before>>
    BY <1>4 DEF Check, Prepare
  <2> QED BY <2>1 DEF RollbackInv
<1>5. CASE \E verdict \in Verdicts : Probe(verdict)
  <2>1. /\ pc = "probe" /\ pc' \in {"begin", "cleanup"} /\ UNCHANGED <<target, backup, before>>
    BY <1>5 DEF Probe
  <2> QED BY <2>1 DEF RollbackInv
<1>6. CASE PublishBegin
  <2>1. /\ pc = "begin" /\ UNCHANGED <<target, backup, before, final, pending>>
        /\ target = before /\ before = [c \in Components |-> before[c]]
        /\ \A c \in Components : backup[c] = None
    BY <1>6 DEF PublishBegin, RollbackInv
  <2>2. CASE Raise \/ Die
    <3>1. pc' \in {"cleanup", "killed"}
      BY <2>1, <2>2 DEF Raise, Die, Handler, InTry
    <3> QED BY <2>1, <3>1 DEF RollbackInv
  <2>3. CASE ~(Raise \/ Die) /\ pending = {}
    BY <1>6, <2>3, NoPromise DEF PublishBegin
  <2>4. CASE ~(Raise \/ Die) /\ pending # {}
    <3>1. /\ entries' = [NoJournal EXCEPT !.open = pending # {}, !.of = pending]
          /\ journal' = entries' /\ left' = pending /\ pc' = "move"
      BY <1>6, <2>4 DEF PublishBegin
    <3>2. entries'.of = pending /\ entries'.moved = {} /\ entries'.promoted = {}
      BY <3>1 DEF NoJournal
    <3>3. \A c \in Components : Placed(c, entries)'
      BY <2>1, <3>2 DEF Placed
    <3> QED BY <2>1, <3>1, <3>2, <3>3 DEF RollbackInv
  <2> QED BY <2>2, <2>3, <2>4
<1>7. CASE MoveOut
  <2>0. FirstOf(left) \in left /\ FirstOf(left) \in Components
    BY <1>7, FirstOfIn DEF MoveOut, WholeInv, TypeInv
  <2>1. PICK c \in Components :
          /\ pc = "move" /\ c = FirstOf(left) /\ c \in left /\ left \subseteq pending
          /\ UNCHANGED <<journal, before, final, pending>>
    BY <1>7, <2>0 DEF MoveOut, WholeInv
  <2>2. /\ before = [d \in Components |-> before[d]] /\ Placed(c, entries)
        /\ c \notin entries.moved /\ c \notin entries.promoted /\ entries.of = pending
    BY <2>1 DEF RollbackInv
  <2>3. CASE Raise \/ Die
    <3>1. pc' \notin {"promote", "noteMove"}
      BY <2>1, <2>3, Failing
    <3> QED BY <1>7, <2>1, <2>3, <3>1, FailureOnRename DEF MoveOut
  <2>4. CASE ~(Raise \/ Die) /\ target[c] = None
    <3>1. pc' = "promote" /\ UNCHANGED <<target, backup, entries, left>>
      BY <1>7, <2>1, <2>4 DEF MoveOut
    <3>2. \A d \in Components : Placed(d, entries)'
      BY <2>1, <3>1 DEF RollbackInv, Placed
    <3>3. before[c] = None
      BY <2>2, <2>4 DEF Placed
    <3> QED BY <2>1, <2>2, <3>1, <3>2, <3>3 DEF RollbackInv
  <2>5. CASE ~(Raise \/ Die) /\ target[c] # None
    <3>1. /\ pc' = "noteMove" /\ left' = left
          /\ backup' = [backup EXCEPT ![c] = target[c]] /\ target' = [target EXCEPT ![c] = None]
          /\ entries' = [entries EXCEPT !.moved = @ \cup {c}]
      BY <1>7, <2>1, <2>5 DEF MoveOut
    <3>2. /\ entries'.of = entries.of /\ entries'.promoted = entries.promoted
          /\ entries'.moved = entries.moved \cup {c}
      BY <3>1 DEF TypeInv, Journals
    <3>3. /\ target'[c] = None /\ backup'[c] = target[c]
          /\ \A d \in Components \ {c} : target'[d] = target[d] /\ backup'[d] = backup[d]
      BY <2>1, <3>1 DEF TypeInv
    <3>4. Placed(c, entries)'
      BY <2>1, <2>2, <2>5, <3>2, <3>3 DEF Placed
    <3>5. \A d \in Components \ {c} : Placed(d, entries)'
      BY <2>1, <3>2, <3>3 DEF RollbackInv, Placed
    <3> QED BY <2>1, <2>2, <3>1, <3>2, <3>4, <3>5 DEF RollbackInv
  <2> QED BY <2>3, <2>4, <2>5
<1>8. CASE NoteMove
  <2>1. CASE Raise \/ Die
    BY <1>8, <2>1, FailureElsewhere DEF NoteMove, Renames
  <2>2. CASE ~(Raise \/ Die)
    <3>1. /\ pc = "noteMove" /\ pc' = "promote" /\ journal' = entries
          /\ UNCHANGED <<target, backup, entries, left, before, final, pending>>
      BY <1>8, <2>2 DEF NoteMove, Note
    <3>2. \A d \in Components : Placed(d, entries)'
      BY <3>1 DEF RollbackInv, Placed
    <3> QED BY <3>1, <3>2 DEF RollbackInv
  <2> QED BY <2>1, <2>2
<1>9. CASE Promote
  <2>0. FirstOf(left) \in left /\ FirstOf(left) \in Components
    BY <1>9, FirstOfIn DEF Promote, WholeInv, TypeInv
  <2>1. PICK c \in Components :
          /\ pc = "promote" /\ c = FirstOf(left) /\ c \in left /\ left \subseteq pending
          /\ UNCHANGED <<journal, backup, before, final, pending>>
    BY <1>9, <2>0 DEF Promote, WholeInv
  <2>2. /\ before = [d \in Components |-> before[d]] /\ Placed(c, entries)
        /\ c \notin entries.promoted /\ entries.of = pending
        /\ c \in entries.moved \/ before[c] = None
    BY <2>1 DEF RollbackInv
  <2>3. CASE Raise \/ Die
    <3>1. pc' # "notePromote"
      BY <2>1, <2>3, Failing
    <3> QED BY <1>9, <2>1, <2>3, <3>1, FailureOnRename DEF Promote
  <2>4. CASE ~(Raise \/ Die)
    <3>1. /\ pc' = "notePromote" /\ left' = left
          /\ target' = [target EXCEPT ![c] = final[c]]
          /\ entries' = [entries EXCEPT !.promoted = @ \cup {c}]
      BY <1>9, <2>1, <2>4 DEF Promote
    <3>2. /\ entries'.of = entries.of /\ entries'.moved = entries.moved
          /\ entries'.promoted = entries.promoted \cup {c}
      BY <3>1 DEF TypeInv, Journals
    <3>3. /\ target'[c] = final[c]
          /\ \A d \in Components \ {c} : target'[d] = target[d]
      BY <2>1, <3>1 DEF TypeInv
    <3>4. Placed(c, entries)'
      BY <2>1, <2>2, <3>2, <3>3 DEF Placed
    <3>5. \A d \in Components \ {c} : Placed(d, entries)'
      BY <2>1, <3>2, <3>3 DEF RollbackInv, Placed
    <3> QED BY <2>1, <2>2, <3>1, <3>2, <3>4, <3>5 DEF RollbackInv
  <2> QED BY <2>3, <2>4
<1>10. CASE NotePromote
  <2>1. CASE Raise \/ Die
    BY <1>10, <2>1, FailureElsewhere DEF NotePromote, Renames
  <2>2. CASE ~(Raise \/ Die) /\ left' = {}
    BY <1>10, <2>2, NoPromise DEF NotePromote
  <2>3. CASE ~(Raise \/ Die) /\ left' # {}
    <3>1. /\ pc = "notePromote" /\ pc' = "move" /\ left' = left \ {FirstOf(left)}
          /\ journal' = entries /\ left' \subseteq Components
          /\ UNCHANGED <<target, backup, entries, before, final, pending>>
      BY <1>10, <2>3 DEF NotePromote, Note, TypeInv
    <3>2. \A d \in Components : Placed(d, entries)'
      BY <3>1 DEF RollbackInv, Placed
    <3>3. FirstOf(left') \in left'
      BY <2>3, <3>1, FirstOfIn
    <3> QED BY <3>1, <3>2, <3>3 DEF RollbackInv
  <2> QED BY <2>1, <2>2, <2>3
<1>11. CASE DropBackups \/ DropJournal \/ WriteManifest \/ WriteState \/ CleanupSuccess
  <2>1. pc \in Published
    BY <1>11 DEF DropBackups, DropJournal, WriteManifest, WriteState, CleanupSuccess
  <2>2. CASE Raise \/ Die
    BY <2>1, <2>2, FailureElsewhere DEF Renames
  <2>3. CASE ~(Raise \/ Die)
    <3>1. pc' \in Published \cup {"installed"}
      BY <1>11, <2>1, <2>3 DEF DropBackups, DropJournal, WriteManifest, WriteState, CleanupSuccess
    <3> QED BY <3>1, NoPromise
  <2> QED BY <2>2, <2>3
<1>12. CASE CleanupFailure
  <2>1. CASE Die
    BY <2>1, NoPromise DEF Die
  <2>2. CASE ~Die
    <3>1. pc = "cleanup" /\ pc' = "failed" /\ UNCHANGED <<target, before, faultsAt>>
      BY <1>12, <2>2 DEF CleanupFailure
    <3> QED BY <3>1 DEF RollbackInv
  <2> QED BY <2>1, <2>2
<1> QED
  BY <1>1, <1>2, <1>3, <1>4, <1>5, <1>6, <1>7, <1>8, <1>9, <1>10, <1>11, <1>12 DEF Next

-----------------------------------------------------------------------------
(* The theorems                                                            *)

\* Success is reported when the state has been written, and then nothing changes.
LEMMA InstalledStep == ASSUME WholeInv, InstalledIsWhole, Next PROVE InstalledIsWhole'
<1> USE DEF At, Goto, Calm, SamePlan, disk
<1>1. CASE CleanupSuccess /\ pc' = "installed"
  <2>1. /\ pc = "tidy" /\ UNCHANGED <<target, manifests, state, accelerator, final>>
    BY <1>1 DEF CleanupSuccess
  <2>2. /\ state = [accelerator |-> accelerator, components |-> [c \in Planned |-> final[c]]]
        /\ \A c \in Planned : target[c] = final[c] /\ (c \in Runtimes => manifests[c] = final[c])
    BY <2>1 DEF WholeInv, Published, Renaming, Unpublished
  <2>3. Planned' = Planned
    BY <2>1 DEF Planned
  <2>4. /\ state'.accelerator = accelerator' /\ DOMAIN state'.components = Planned'
        /\ \A c \in Planned' : state'.components[c] = final[c]
    BY <2>1, <2>2, <2>3
  <2> QED BY <2>1, <2>2, <2>3, <2>4 DEF InstalledIsWhole
<1>2. CASE pc' # "installed"
  BY <1>2 DEF InstalledIsWhole
<1>3. pc' = "installed" => CleanupSuccess
  <2>1. (Raise \/ Die) => pc' # "installed"
    BY DEF Raise, Die, Handler
  <2>2. RecoverEntry => pc' # "installed"
    BY <2>1 DEF RecoverEntry, Recovering
  <2>3. WriteManifest => pc' # "installed"
    BY <2>1 DEF WriteManifest
  <2> QED BY <2>1, <2>2, <2>3 DEF Next, Start, RecoverDone, Recovering, Check, Prepare, Probe,
             PublishBegin, MoveOut, NoteMove, Promote, NotePromote, DropBackups, DropJournal,
             WriteState, CleanupFailure
<1> QED BY <1>1, <1>2, <1>3

\* It holds of every installation an earlier release or run has left.
LEMMA InitInv == ASSUME Init PROVE IInv
<1>1. target = [c \in Components |-> target[c]]
  <2>1. PICK start \in {Fresh, Previous} \cup {Complete(acc) : acc \in Accelerators} :
          target = start.tree
    BY DEF Init
  <2>2. CASE start \in {Fresh, Previous}
    BY <2>1, <2>2 DEF Fresh, Previous
  <2>3. CASE \E acc \in Accelerators : start = Complete(acc)
    <3>1. PICK acc \in Accelerators : start = Complete(acc)
      BY <2>3
    <3>2. start.tree = [c \in Components |-> Variant(c, acc)]
      BY <3>1 DEF Complete
    <3> QED BY <2>1, <3>2
  <2> QED BY <2>1, <2>2, <2>3
<1>2. TypeInv
  BY <1>1 DEF Init, TypeInv, NoJournal, Journals
<1>3. WholeInv /\ RollbackInv /\ InstalledIsWhole
  BY DEF Init, WholeInv, RollbackInv, InstalledIsWhole, Unpublished, Renaming, Published
<1> QED BY <1>2, <1>3 DEF IInv

\* A step that changes nothing keeps it.
LEMMA StutterInv == ASSUME IInv, UNCHANGED vars PROVE IInv'
<1> USE DEF vars, disk, process, history
<1>1. TypeInv'
  BY DEF IInv, TypeInv
<1>2. WholeInv'
  BY WholeKept DEF IInv
<1>3. \A c \in Components : (Placed(c, entries)' <=> Placed(c, entries))
                         /\ (Placed(c, journal)' <=> Placed(c, journal))
  BY DEF Placed
<1>4. RollbackInv'
  BY <1>1, <1>3 DEF IInv, RollbackInv, TypeInv
<1>5. InstalledIsWhole'
  BY DEF IInv, InstalledIsWhole, Planned
<1> QED BY <1>1, <1>2, <1>4, <1>5 DEF IInv

\* And so does every step of the system.
LEMMA NextInv == ASSUME IInv, [Next]_vars PROVE IInv'
<1>1. CASE UNCHANGED vars
  BY <1>1, StutterInv
<1>2. CASE Next
  BY <1>2, TypeStep, WholeStep, RollbackStep, InstalledStep DEF IInv
<1> QED BY <1>1, <1>2

\* The invariant holds always.
LEMMA Invariants == Spec => []IInv
<1>1. Init => IInv
  BY InitInv
<1>2. IInv /\ [Next]_vars => IInv'
  BY NextInv
<1> QED BY <1>1, <1>2, PTL DEF Spec

\* A run that reports success leaves every recorded component whole, of the recorded variant,
\* with its manifest, whatever earlier runs broke or were killed at: install_project.
THEOREM InstalledWhole == Spec => []InstalledIsWhole
<1>1. IInv => InstalledIsWhole
  BY DEF IInv
<1> QED BY <1>1, Invariants, PTL

\* A run that fails before its publication or on a rename in it leaves every target as the
\* recovery had found it: publish_directories and recover_transactions.
THEOREM FailureTakesBack == Spec => []FailedRunRestores
<1>1. IInv => FailedRunRestores
  BY DEF IInv, RollbackInv, FailedRunRestores, Renames
<1> QED BY <1>1, Invariants, PTL

-----------------------------------------------------------------------------
(* Sequences of targets                                                    *)

\* The first of a sequence, and the others.
LEMMA HeadAndTail ==
  ASSUME NEW T, NEW s \in Seq(T), s # <<>>
  PROVE  /\ Head(s) \in T /\ Tail(s) \in Seq(T)
         /\ S!Range(s) = {Head(s)} \cup S!Range(Tail(s))
         /\ S!IsInjective(s) => S!IsInjective(Tail(s)) /\ Head(s) \notin S!Range(Tail(s))
<1>1. /\ Len(s) \in Nat \ {0} /\ Head(s) = s[1] /\ DOMAIN s = 1..Len(s)
      /\ Len(Tail(s)) = Len(s) - 1 /\ DOMAIN Tail(s) = 1..(Len(s) - 1)
      /\ \A i \in 1..(Len(s) - 1) : Tail(s)[i] = s[i + 1]
      /\ Head(s) \in T /\ Tail(s) \in Seq(T)
  OBVIOUS
<1>2. ASSUME NEW x PROVE x \in S!Range(s) <=> x = Head(s) \/ x \in S!Range(Tail(s))
  <2>1. ASSUME NEW i \in DOMAIN s, i # 1 PROVE i - 1 \in DOMAIN Tail(s) /\ s[i] = Tail(s)[i - 1]
    BY <1>1, <2>1
  <2>2. ASSUME NEW i \in DOMAIN Tail(s) PROVE i + 1 \in DOMAIN s /\ Tail(s)[i] = s[i + 1]
    BY <1>1, <2>2
  <2>3. 1 \in DOMAIN s
    BY <1>1
  <2> QED BY <1>1, <2>1, <2>2, <2>3 DEF S!Range
<1>3. S!IsInjective(s) => S!IsInjective(Tail(s)) /\ Head(s) \notin S!Range(Tail(s))
  <2>1. ASSUME NEW i \in DOMAIN Tail(s) PROVE i + 1 \in DOMAIN s /\ Tail(s)[i] = s[i + 1] /\ i + 1 # 1
    BY <1>1, <2>1
  <2>2. 1 \in DOMAIN s /\ \A i, j \in DOMAIN Tail(s) : i + 1 = j + 1 => i = j
    BY <1>1
  <2> QED BY <1>1, <2>1, <2>2 DEF S!Range, S!IsInjective
<1> QED BY <1>1, <1>2, <1>3

\* The last of a sequence, and the others.
LEMMA FrontAndLast ==
  ASSUME NEW T, NEW s \in Seq(T), s # <<>>
  PROVE  /\ S!Last(s) \in T /\ S!Front(s) \in Seq(T)
         /\ S!Range(s) = {S!Last(s)} \cup S!Range(S!Front(s))
         /\ S!IsInjective(s) => S!IsInjective(S!Front(s)) /\ S!Last(s) \notin S!Range(S!Front(s))
<1>1. Len(s) \in Nat \ {0} /\ DOMAIN s = 1..Len(s)
  OBVIOUS
<1>2. S!Last(s) = s[Len(s)] /\ S!Last(s) \in T
  BY <1>1 DEF S!Last
<1>3. /\ DOMAIN S!Front(s) = 1..(Len(s) - 1) /\ S!Front(s) \in Seq(T)
      /\ \A i \in 1..(Len(s) - 1) : S!Front(s)[i] = s[i]
  BY <1>1 DEF S!Front
<1>4. ASSUME NEW n \in Nat \ {0}
      PROVE  /\ n \in 1..n /\ \A i \in 1..n : i \in 1..(n - 1) \/ i = n
             /\ \A i \in 1..(n - 1) : i \in 1..n /\ i # n
  OBVIOUS
<1>5. /\ Len(s) \in DOMAIN s /\ \A i \in DOMAIN s : i \in DOMAIN S!Front(s) \/ i = Len(s)
      /\ \A i \in DOMAIN S!Front(s) : i \in DOMAIN s /\ i # Len(s)
  BY <1>1, <1>3, <1>4
<1>6. S!Range(s) = {S!Last(s)} \cup S!Range(S!Front(s))
  BY <1>2, <1>3, <1>5, <1>1 DEF S!Range
<1>7. S!IsInjective(s) => S!IsInjective(S!Front(s)) /\ S!Last(s) \notin S!Range(S!Front(s))
  BY <1>1, <1>2, <1>3, <1>5 DEF S!Range, S!IsInjective
<1> QED BY <1>2, <1>3, <1>6, <1>7

\* One more at the end.
LEMMA OneAppended ==
  ASSUME NEW T, NEW s \in Seq(T), NEW x \in T
  PROVE  /\ Append(s, x) \in Seq(T) /\ S!Range(Append(s, x)) = S!Range(s) \cup {x}
         /\ S!IsInjective(s) /\ x \notin S!Range(s) => S!IsInjective(Append(s, x))
<1>1. /\ Len(s) \in Nat /\ DOMAIN s = 1..Len(s) /\ DOMAIN Append(s, x) = 1..(Len(s) + 1)
      /\ Append(s, x)[Len(s) + 1] = x /\ \A i \in 1..Len(s) : Append(s, x)[i] = s[i]
      /\ Append(s, x) \in Seq(T)
  OBVIOUS
<1>2. \A i \in 1..(Len(s) + 1) : i \in 1..Len(s) \/ i = Len(s) + 1
  BY <1>1
<1> QED BY <1>1, <1>2 DEF S!Range, S!IsInjective


\* Two sequences without a common element, one after the other.
LEMMA Joined ==
  ASSUME NEW T, NEW s \in Seq(T), NEW u \in Seq(T)
  PROVE  /\ s \o u \in Seq(T) /\ S!Range(s \o u) = S!Range(s) \cup S!Range(u)
         /\ (s # <<>> \/ u # <<>>) => s \o u # <<>>
         /\ S!IsInjective(s) /\ S!IsInjective(u) /\ S!Range(s) \cap S!Range(u) = {} => S!IsInjective(s \o u)
<1> DEFINE n == Len(s)  m == Len(u)
<1>1. /\ n \in Nat /\ m \in Nat /\ DOMAIN s = 1..n /\ DOMAIN u = 1..m /\ DOMAIN (s \o u) = 1..(n + m)
      /\ s \o u \in Seq(T) /\ Len(s \o u) = n + m
  OBVIOUS
<1>2. /\ \A i \in 1..n : (s \o u)[i] = s[i]
      /\ \A i \in 1..m : (s \o u)[n + i] = u[i]
  <2>1. ASSUME NEW i \in 1..n PROVE (s \o u)[i] = s[i]
    OBVIOUS
  <2>2. ASSUME NEW i \in 1..m PROVE (s \o u)[n + i] = u[i]
    BY <1>1
  <2> QED BY <2>1, <2>2
<1> HIDE DEF n, m
<1> DEFINE w == s \o u
<1>3. \A i \in 1..(n + m) : i \in 1..n \/ \E j \in 1..m : i = n + j
  <2> SUFFICES ASSUME NEW i \in 1..(n + m), i \notin 1..n PROVE i - n \in 1..m /\ i = n + (i - n)
    OBVIOUS
  <2> QED BY <1>1
<1>4. /\ \A i \in 1..n : i \in 1..(n + m) /\ w[i] = s[i]
      /\ \A i \in 1..m : n + i \in 1..(n + m) /\ w[n + i] = u[i]
      /\ DOMAIN w = 1..(n + m)
  BY <1>1, <1>2
<1> HIDE DEF w
<1>5. S!Range(w) = S!Range(s) \cup S!Range(u)
  <2>1. ASSUME NEW i \in 1..(n + m) PROVE w[i] \in S!Range(s) \cup S!Range(u)
    <3>1. CASE i \in 1..n
      BY <1>1, <1>4, <3>1 DEF S!Range
    <3>2. ASSUME NEW j \in 1..m, i = n + j PROVE w[i] \in S!Range(u)
      BY <1>1, <1>4, <3>2 DEF S!Range
    <3> QED BY <1>3, <3>1, <3>2
  <2>2. \A i \in 1..n : s[i] \in S!Range(w)
    BY <1>4 DEF S!Range
  <2>3. \A i \in 1..m : u[i] \in S!Range(w)
    BY <1>4 DEF S!Range
  <2>4. /\ \A x \in S!Range(w) : \E i \in 1..(n + m) : x = w[i]
        /\ \A x \in S!Range(s) : \E i \in 1..n : x = s[i]
        /\ \A x \in S!Range(u) : \E i \in 1..m : x = u[i]
    BY <1>1, <1>4 DEF S!Range
  <2> QED BY <2>1, <2>2, <2>3, <2>4
<1>6. ASSUME S!IsInjective(s), S!IsInjective(u), S!Range(s) \cap S!Range(u) = {}
      PROVE  S!IsInjective(w)
  <2>1. \A i \in 1..n, j \in 1..m : s[i] # u[j]
    BY <1>1, <1>6 DEF S!Range
  <2>2. SUFFICES ASSUME NEW i \in 1..(n + m), NEW j \in 1..(n + m), w[i] = w[j] PROVE i = j
    BY <1>4 DEF S!IsInjective
  <2>3. CASE i \in 1..n /\ j \in 1..n
    BY <1>1, <1>4, <1>6, <2>2, <2>3 DEF S!IsInjective
  <2>4. CASE i \in 1..n /\ \E k \in 1..m : j = n + k
    BY <1>4, <2>1, <2>2, <2>4
  <2>5. CASE j \in 1..n /\ \E k \in 1..m : i = n + k
    BY <1>4, <2>1, <2>2, <2>5
  <2>6. ASSUME NEW k \in 1..m, NEW l \in 1..m, i = n + k, j = n + l PROVE i = j
    <3>1. u[k] = u[l]
      BY <1>4, <2>2, <2>6
    <3>2. k \in DOMAIN u /\ l \in DOMAIN u
      BY <1>1
    <3> QED BY <1>6, <2>6, <3>1, <3>2 DEF S!IsInjective
  <2> QED BY <1>3, <2>3, <2>4, <2>5, <2>6
<1>7. (s # <<>> \/ u # <<>>) => s \o u # <<>>
  BY <1>1 DEF n, m
<1> QED BY <1>1, <1>5, <1>6, <1>7 DEF w

-----------------------------------------------------------------------------
(* What the scripts publish                                                *)

\* Every target but the cache of the GPU wheels, which its script removes.
Permanent == S!Targets \ S!Transient

\* A part or package in any sequence of pairs is one of the permanent targets.
LEMMA PermanentTargets ==
  /\ \A f \in {"cpu", "gpu", "tokenizer"}, p \in {"lock", "wheels", "runtime", "mirror", "manifest"} :
       f # "gpu" \/ p # "wheels" => <<f, p>> \in Permanent
  /\ S!Ocr \in Permanent /\ S!Anima \in Permanent /\ S!Krea \in Permanent
BY DEF Permanent, S!Targets, S!Transient, S!Parts, S!Packages, S!Ocr, S!Anima, S!Krea

\* Targets that are published once each.
Publishable(pairs) == pairs \in Seq(Permanent) /\ pairs # <<>> /\ S!IsInjective(pairs)

LEMMA ImportPublishable == Publishable(S!ImportPairs)
<1> DEFINE p == [i \in 1..5 |-> <<"cpu", <<"lock", "wheels", "runtime", "mirror", "manifest">>[i]>>]
           q == IF place[S!Ocr] = S!None THEN <<S!Ocr>> ELSE <<>>
<1>1. /\ p[1] = <<"cpu", "lock">> /\ p[2] = <<"cpu", "wheels">> /\ p[3] = <<"cpu", "runtime">>
      /\ p[4] = <<"cpu", "mirror">> /\ p[5] = <<"cpu", "manifest">>
  OBVIOUS
<1>2. \A i \in 1..5 : i \in {1, 2, 3, 4, 5}
  OBVIOUS
<1>3. DOMAIN p = 1..5 /\ p = [i \in 1..5 |-> p[i]]
  OBVIOUS
<1> HIDE DEF p
<1>4. \A i \in 1..5 : p[i] \in Permanent
  BY <1>1, <1>2, PermanentTargets
<1>5. p \in Seq(Permanent) /\ p # <<>>
  BY <1>3, <1>4
<1>6. S!IsInjective(p)
  BY <1>1, <1>2, <1>3 DEF S!IsInjective
<1>7. q \in Seq(Permanent) /\ S!IsInjective(q)
  BY PermanentTargets DEF S!IsInjective
<1>8. S!Range(p) \cap S!Range(q) = {}
  BY <1>1, <1>2, <1>3 DEF S!Range, S!Ocr
<1> HIDE DEF q
<1>9. Publishable(p \o q)
  BY <1>5, <1>6, <1>7, <1>8, Joined DEF Publishable
<1> QED BY <1>9 DEF S!ImportPairs, p, q

LEMMA ModelPublishable == Publishable(<<S!Ocr>>)
BY PermanentTargets DEF Publishable, S!IsInjective

LEMMA GpuPublishable ==
  /\ Publishable(S!GpuPairs)
  /\ \A t \in S!Range(S!GpuPairs) : \E p \in {"runtime", "manifest", "mirror", "lock"} : t = <<"gpu", p>>
<1> DEFINE p == S!GpuPairs
<1>1. /\ p[1] = <<"gpu", "runtime">> /\ p[2] = <<"gpu", "manifest">> /\ p[3] = <<"gpu", "mirror">>
      /\ p[4] = <<"gpu", "lock">> /\ DOMAIN p = 1..4 /\ p = [i \in 1..4 |-> p[i]]
  BY DEF S!GpuPairs
<1>2. \A i \in 1..4 : i \in {1, 2, 3, 4}
  OBVIOUS
<1> HIDE DEF p
<1>3. \A i \in 1..4 : p[i] \in Permanent
  BY <1>1, <1>2, PermanentTargets
<1>4. p \in Seq(Permanent) /\ p # <<>>
  BY <1>1, <1>3
<1>5. S!IsInjective(p)
  BY <1>1, <1>2 DEF S!IsInjective
<1>6. \A t \in S!Range(p) : \E q \in {"runtime", "manifest", "mirror", "lock"} : t = <<"gpu", q>>
  BY <1>1, <1>2 DEF S!Range
<1> QED BY <1>4, <1>5, <1>6 DEF Publishable, p

LEMMA TokenizerPublishable ==
  Publishable(S!TokenizerPairs) /\ \A t \in S!Range(S!TokenizerPairs) : t # S!Ocr
<1> DEFINE p == [i \in 1..5 |-> <<"tokenizer", <<"lock", "wheels", "runtime", "mirror", "manifest">>[i]>>]
           q == IF place[S!Anima] = S!None THEN <<S!Anima>> ELSE <<>>
           r == IF place[S!Krea] = S!None THEN <<S!Krea>> ELSE <<>>
<1>1. /\ p[1] = <<"tokenizer", "lock">> /\ p[2] = <<"tokenizer", "wheels">> /\ p[3] = <<"tokenizer", "runtime">>
      /\ p[4] = <<"tokenizer", "mirror">> /\ p[5] = <<"tokenizer", "manifest">>
  OBVIOUS
<1>2. \A i \in 1..5 : i \in {1, 2, 3, 4, 5}
  OBVIOUS
<1>3. DOMAIN p = 1..5 /\ p = [i \in 1..5 |-> p[i]]
  OBVIOUS
<1> HIDE DEF p
<1>4. \A i \in 1..5 : p[i] \in Permanent
  BY <1>1, <1>2, PermanentTargets
<1>5. p \in Seq(Permanent) /\ p # <<>>
  BY <1>3, <1>4
<1>6. S!IsInjective(p)
  BY <1>1, <1>2, <1>3 DEF S!IsInjective
<1>7. q \in Seq(Permanent) /\ S!IsInjective(q) /\ r \in Seq(Permanent) /\ S!IsInjective(r)
  BY PermanentTargets DEF S!IsInjective
<1>8. S!Range(p) \cap S!Range(q) = {} /\ S!Range(p) \cap S!Range(r) = {} /\ S!Range(q) \cap S!Range(r) = {}
  BY <1>1, <1>2, <1>3 DEF S!Range, S!Anima, S!Krea
<1> HIDE DEF q, r
<1>9. p \o q \in Seq(Permanent) /\ p \o q # <<>> /\ S!IsInjective(p \o q)
      /\ S!Range(p \o q) = S!Range(p) \cup S!Range(q)
  BY <1>5, <1>6, <1>7, <1>8, Joined
<1>10. Publishable((p \o q) \o r) /\ S!Range((p \o q) \o r) = S!Range(p) \cup S!Range(q) \cup S!Range(r)
  <2> DEFINE d == p \o q
  <2>1. d \in Seq(Permanent) /\ d # <<>> /\ S!IsInjective(d) /\ S!Range(d) = S!Range(p) \cup S!Range(q)
    BY <1>9
  <2> HIDE DEF d
  <2>2. S!Range(d) \cap S!Range(r) = {}
    BY <1>8, <2>1
  <2>3. d \o r \in Seq(Permanent) /\ d \o r # <<>> /\ S!IsInjective(d \o r) /\ S!Range(d \o r) = S!Range(d) \cup S!Range(r)
    BY <1>7, <2>1, <2>2, Joined
  <2> QED BY <2>1, <2>3 DEF d, Publishable
<1>11. S!Ocr \notin S!Range(p) \cup S!Range(q) \cup S!Range(r)
  BY <1>1, <1>2, <1>3 DEF S!Range, S!Ocr, S!Anima, S!Krea, q, r
<1> QED BY <1>10, <1>11 DEF S!TokenizerPairs, p, q, r

LEMMA ComponentPublishable == Publishable(S!ComponentPairs)
<1> DEFINE need == IF S!Inspected = "cpu" THEN <<"gpu">>
                   ELSE IF script = "component-gpu" THEN <<"cpu", "gpu">> ELSE <<"cpu">>
           Of(part) == [i \in DOMAIN need |-> <<need[i], part>>]
           q == IF S!Inspected = "none" THEN <<S!Ocr>> ELSE <<>>
<1>1. /\ need \in Seq({"cpu", "gpu"}) /\ need # <<>>
      /\ \A i, j \in DOMAIN need : need[i] = need[j] => i = j
  <2>1. need \in {<<"gpu">>, <<"cpu", "gpu">>, <<"cpu">>}
    OBVIOUS
  <2> HIDE DEF need
  <2>2. ASSUME NEW x \in {"cpu", "gpu"}, need = <<x>>
        PROVE  /\ need \in Seq({"cpu", "gpu"}) /\ need # <<>>
               /\ \A i, j \in DOMAIN need : i = j
    <3>1. <<x>> \in Seq({"cpu", "gpu"}) /\ Len(<<x>>) = 1 /\ DOMAIN <<x>> = 1..1
      OBVIOUS
    <3> QED BY <2>2, <3>1
  <2>3. CASE need = <<"cpu", "gpu">>
    <3>1. DOMAIN need = {1, 2} /\ need[1] # need[2]
      BY <2>3
    <3> QED BY <2>3, <3>1
  <2> QED BY <2>1, <2>2, <2>3
<1>2. q \in Seq(Permanent) /\ S!IsInjective(q) /\ \A t \in S!Range(q) : t = S!Ocr
  BY PermanentTargets DEF S!IsInjective, S!Range
<1> HIDE DEF need, q
<1>3. ASSUME NEW part \in {"runtime", "manifest", "mirror"}
      PROVE  /\ Of(part) \in Seq(Permanent) /\ Of(part) # <<>> /\ S!IsInjective(Of(part))
             /\ \A t \in S!Range(Of(part)) : t[1] \in {"cpu", "gpu"} /\ t[2] = part
  <2>1. /\ DOMAIN Of(part) = 1..Len(need) /\ Len(need) \in Nat \ {0}
        /\ \A i \in 1..Len(need) : Of(part)[i] = <<need[i], part>> /\ need[i] \in {"cpu", "gpu"}
    BY <1>1
  <2>2. \A i \in 1..Len(need) : Of(part)[i] \in Permanent
    BY <2>1, PermanentTargets
  <2>3. Of(part) = [i \in 1..Len(need) |-> Of(part)[i]]
    BY <2>1
  <2>4. S!IsInjective(Of(part))
    BY <1>1, <2>1 DEF S!IsInjective
  <2>5. \A t \in S!Range(Of(part)) : t[1] \in {"cpu", "gpu"} /\ t[2] = part
    BY <2>1 DEF S!Range
  <2>6. Of(part) \in Seq(Permanent) /\ Of(part) # <<>>
    <3> DEFINE o == Of(part)  n == Len(need)
    <3>1. n \in Nat \ {0} /\ DOMAIN o = 1..n /\ (\A i \in 1..n : o[i] \in Permanent) /\ o = [i \in 1..n |-> o[i]]
      BY <2>1, <2>2, <2>3
    <3> HIDE DEF o, n, Of
    <3>2. o \in Seq(Permanent) /\ o # <<>>
      BY <3>1
    <3> QED BY <3>2 DEF o
  <2> QED BY <2>4, <2>5, <2>6
<1> DEFINE a == Of("runtime")  b == Of("manifest")  c == Of("mirror")
<1>4. /\ a \in Seq(Permanent) /\ a # <<>> /\ S!IsInjective(a) /\ b \in Seq(Permanent) /\ S!IsInjective(b)
      /\ c \in Seq(Permanent) /\ S!IsInjective(c)
  BY <1>3
<1>5. /\ \A t \in S!Range(a) : t[2] = "runtime"
      /\ \A t \in S!Range(b) : t[2] = "manifest"
      /\ \A t \in S!Range(c) : t[2] = "mirror"
  BY <1>3
<1>6. \A t \in S!Range(q) : t[2] = "package"
  BY <1>2 DEF S!Ocr
<1> HIDE DEF a, b, c
<1>7. /\ a \o b \in Seq(Permanent) /\ a \o b # <<>> /\ S!IsInjective(a \o b)
      /\ \A t \in S!Range(a \o b) : t[2] \in {"runtime", "manifest"}
  BY <1>4, <1>5, Joined
<1>8. /\ (a \o b) \o c \in Seq(Permanent) /\ (a \o b) \o c # <<>> /\ S!IsInjective((a \o b) \o c)
      /\ \A t \in S!Range((a \o b) \o c) : t[2] \in {"runtime", "manifest", "mirror"}
  <2> DEFINE d == a \o b
  <2>1. d \in Seq(Permanent) /\ d # <<>> /\ S!IsInjective(d) /\ \A t \in S!Range(d) : t[2] \in {"runtime", "manifest"}
    BY <1>7
  <2> HIDE DEF d
  <2>2. S!Range(d) \cap S!Range(c) = {}
    BY <1>5, <2>1
  <2>3. /\ d \o c \in Seq(Permanent) /\ d \o c # <<>> /\ S!IsInjective(d \o c)
        /\ S!Range(d \o c) = S!Range(d) \cup S!Range(c)
    BY <1>4, <2>1, <2>2, Joined
  <2> QED BY <1>5, <2>1, <2>3 DEF d
<1>9. Publishable(((a \o b) \o c) \o q)
  BY <1>2, <1>6, <1>8, Joined DEF Publishable
<1> QED BY <1>9 DEF S!ComponentPairs, a, b, c, q, need


-----------------------------------------------------------------------------
(* The maintenance scripts: the inductive invariant                        *)

Sibling(t) == [target |-> t, content |-> found[t], by |-> tries]
Early == {"check", "stage"}
Forward == {"setAside", "putIn", "inspect"}
Over == {"tidy", "done", "failed", "dead"}

\* What is kept per target is a function, and what failed is counted by its number.
ScriptTypes ==
  /\ place = [t \in S!Targets |-> place[t]] /\ staged = [t \in S!Targets |-> staged[t]]
  /\ todo \in Seq(Permanent) /\ moved \in Seq(Permanent) /\ kept \in Seq(Permanent)
  /\ tries \in Nat /\ breaks \in Nat
  /\ at \in {"idle", "reset", "undo", "dropKept"} \cup Early \cup Forward \cup Over
  /\ outcome \in {"none", "done", "failed"}
  /\ IsFiniteSet(failing) /\ \A x \in failing : x[2] \in Nat /\ x[2] < breaks
  /\ \A h \in hidden : h = [target |-> h.target, content |-> h.content, by |-> h.by] /\ h.by \in 0..tries

\* The siblings of this run hold what stood at their targets.
HiddenInv ==
  \A h \in hidden :
    /\ at \in Early \cup {"reset"} => h.by # tries
    /\ at \in Forward \cup {"undo", "dropKept"} /\ h.by = tries => h.content = found[h.target]

\* Before and during the publication.
ForwardInv ==
  /\ at \in Early => moved = <<>> /\ kept = <<>> /\ \A t \in Permanent : place[t] = found[t]
  /\ at \in {"setAside", "putIn"} =>
       /\ todo # <<>> /\ S!IsInjective(todo)
       /\ \A t \in S!Range(todo) : staged[t] # 0 /\ t \notin S!Range(moved)
       /\ \A t \in S!Range(todo) : t \notin S!Range(kept) \/ (at = "putIn" /\ t = Head(todo))
  /\ at = "putIn" => place[Head(todo)] = 0
  /\ at \in {"inspect", "dropKept"} => todo = <<>>
  /\ at \in Forward \cup {"dropKept"} => \A t \in S!Range(moved) : place[t] # 0
  /\ at \in Forward => \A t \in Permanent \ S!Range(moved) :
       place[t] = IF t \in S!Range(kept) THEN 0 ELSE found[t]

\* What was set aside and what was not.
KeptInv ==
  /\ at \in Forward \cup {"undo", "dropKept"} => S!IsInjective(kept) /\ \A t \in S!Range(kept) : Sibling(t) \in hidden
  /\ at \in Forward \cup {"undo"} => \A t \in S!Range(moved) \ S!Range(kept) : found[t] = 0
  /\ script = "gpu" /\ at = "stage" => \A p \in {"runtime", "manifest", "mirror", "lock"} : found[<<"gpu", p>>] = 0
  /\ script = "gpu" /\ at \in {"setAside", "putIn"} => \A t \in S!Range(todo) : found[t] = 0

\* What stood at a target is there or beside it.
OldStands == \A t \in Permanent : found[t] > 0 => place[t] = found[t] \/ Sibling(t) \in hidden
OldInv ==
  /\ script # "reset" /\ at \in Early \cup Forward \cup {"undo"} => OldStands
  /\ script # "reset" /\ at \in Over => OldStands \/ (todo = <<>> /\ \A t \in S!Range(moved) : place[t] # 0)
  /\ at = "reset" => script = "reset"

\* The way back.
Single == Cardinality(failing) <= 1 /\ \A x \in failing : x[1] \notin {"dropKept", "tidy", "reset"}
BackInv ==
  /\ at \in Early \cup Forward \cup {"reset", "dropKept"} => failing = {}
  /\ at = "undo" => failing # {}
  /\ at = "undo" /\ Single => \A t \in Permanent \ S!Range(moved) :
       place[t] = IF t \in S!Range(kept) THEN 0 ELSE found[t]
  /\ (at = "failed" \/ (at = "tidy" /\ outcome = "failed")) /\ Single => \A t \in Permanent : place[t] = found[t]
  /\ at = "tidy" => outcome \in {"done", "failed"}

PInv == ScriptTypes /\ HiddenInv /\ ForwardInv /\ KeptInv /\ OldInv /\ BackInv


-----------------------------------------------------------------------------
(* The maintenance scripts: every step keeps the invariant                 *)

\* An operation that fails is one more.
LEMMA OneMore ==
  ASSUME ScriptTypes, S!Break
  PROVE  /\ breaks' = breaks + 1 /\ breaks' \in Nat /\ IsFiniteSet(failing')
         /\ failing' = failing \cup {<<at, breaks>>}
         /\ \A x \in failing' : x[2] \in Nat /\ x[2] < breaks'
         /\ Cardinality(failing) \in Nat /\ Cardinality(failing') = Cardinality(failing) + 1
<1>1. <<at, breaks>> \notin failing
  BY DEF ScriptTypes
<1>2. IsFiniteSet(failing) /\ breaks \in Nat
  BY DEF ScriptTypes
<1>3. Cardinality(failing') = Cardinality(failing) + 1 /\ IsFiniteSet(failing') /\ Cardinality(failing) \in Nat
  BY <1>1, <1>2, FS_AddElement, FS_CardinalityType DEF S!Break
<1> QED BY <1>2, <1>3 DEF S!Break, ScriptTypes

\* A script starts.
LEMMA StartKeeps == ASSUME PInv, NEW s \in S!Scripts, S!Start(s) PROVE PInv'
<1> USE DEF PInv, Early, Forward, Over, S!Start, S!disk, S!Resting, S!Range, S!Targets
<1>1. ScriptTypes'
  BY FS_EmptySet DEF ScriptTypes, S!None
<1>2. HiddenInv'
  BY DEF ScriptTypes, HiddenInv
<1>3. ForwardInv'
  BY DEF ScriptTypes, ForwardInv
<1>4. KeptInv'
  BY DEF ScriptTypes, KeptInv, ForwardInv, Sibling
<1>5. OldInv'
  BY DEF ScriptTypes, OldInv, OldStands, Sibling
<1>6. BackInv'
  BY DEF ScriptTypes, BackInv, Single, ForwardInv
<1> QED BY <1>1, <1>2, <1>3, <1>4, <1>5, <1>6

\* It asks for what it needs.
LEMMA CheckKeeps == ASSUME PInv, S!Check PROVE PInv'
<1> USE DEF PInv, Early, Forward, Over, S!Check, S!Calm, S!disk, S!process
<1>1. ScriptTypes'
  BY DEF ScriptTypes
<1>2. HiddenInv'
  BY DEF ScriptTypes, HiddenInv
<1>3. ForwardInv'
  BY DEF ScriptTypes, ForwardInv
<1>4. KeptInv'
  <2>1. ASSUME script = "gpu", at' = "stage", NEW p \in {"runtime", "manifest", "mirror", "lock"}
        PROVE  found[<<"gpu", p>>] = 0
    <3>1. ~S!GpuPresent /\ place[<<"gpu", p>>] = found[<<"gpu", p>>]
      BY <2>1, PermanentTargets DEF S!Refused, ForwardInv
    <3>2. place[<<"gpu", p>>] = 0
      BY <3>1 DEF S!GpuPresent, S!Installed, S!None
    <3> QED BY <3>1, <3>2
  <2> QED BY <2>1 DEF ScriptTypes, KeptInv, ForwardInv, Sibling
<1>5. OldInv'
  BY DEF ScriptTypes, OldInv, OldStands, Sibling
<1>6. BackInv'
  BY DEF ScriptTypes, BackInv, Single, ForwardInv
<1> QED BY <1>1, <1>2, <1>3, <1>4, <1>5, <1>6

\* Its staging fails.
LEMMA StagingKeeps == ASSUME PInv, S!StagingFails PROVE PInv'
<1> USE DEF PInv, Early, Forward, Over, S!StagingFails, S!Conclude, S!Calm, S!disk
<1>1. ScriptTypes'
  BY DEF ScriptTypes
<1>2. HiddenInv'
  BY DEF ScriptTypes, HiddenInv
<1>3. ForwardInv'
  BY DEF ScriptTypes, ForwardInv
<1>4. KeptInv'
  BY DEF ScriptTypes, KeptInv, ForwardInv, Sibling
<1>5. OldInv'
  BY DEF ScriptTypes, OldInv, OldStands, Sibling
<1>6. BackInv'
  BY DEF ScriptTypes, BackInv, Single, ForwardInv
<1> QED BY <1>1, <1>2, <1>3, <1>4, <1>5, <1>6


\* A script stages what it publishes.
LEMMA PairsStaged ==
  ASSUME PInv, NEW pairs, Publishable(pairs), at = "stage", at' = "setAside", todo' = pairs,
         staged' = [t \in S!Targets |-> staged'[t]], \A t \in S!Range(pairs) : staged'[t] # 0,
         place' = [t \in S!Targets |-> place'[t]], \A t \in Permanent : place'[t] = place[t],
         script = "gpu" => \A t \in S!Range(pairs) : found[t] = 0,
         UNCHANGED <<hidden, script, moved, kept, outcome, found, tries, breaks, failing>>
  PROVE  PInv'
<1> USE DEF PInv, Early, Forward, Over
<1>1. ScriptTypes'
  BY DEF ScriptTypes, Publishable
<1>2. HiddenInv'
  BY DEF ScriptTypes, HiddenInv
<1>3. ForwardInv'
  <2>1. moved = <<>> /\ kept = <<>> /\ \A t \in Permanent : place[t] = found[t]
    BY DEF ForwardInv
  <2> QED BY <2>1 DEF ForwardInv, Publishable, S!Range
<1>4. KeptInv'
  <2>1. moved = <<>> /\ kept = <<>>
    BY DEF ForwardInv
  <2> QED BY <2>1 DEF KeptInv, S!Range, S!IsInjective
<1>5. OldInv'
  BY DEF OldInv, OldStands, Sibling
<1>6. BackInv'
  BY DEF BackInv, Single
<1> QED BY <1>1, <1>2, <1>3, <1>4, <1>5, <1>6

\* One of the stagings.
LEMMA StagesKeep ==
  ASSUME PInv, S!ImportStage \/ S!ModelStage \/ S!ComponentStage \/ S!GpuStage \/ S!TokenizerStage
  PROVE  PInv'
<1> USE DEF PInv
<1>0. tries \in Nat /\ place = [t \in S!Targets |-> place[t]]
  BY DEF ScriptTypes
<1>1. CASE S!ImportStage
  <2>1. /\ at = "stage" /\ at' = "setAside" /\ todo' = S!ImportPairs
        /\ UNCHANGED <<hidden, script, moved, kept, outcome, found, tries, breaks, failing>>
    BY <1>1 DEF S!ImportStage, S!StageFor, S!Calm
  <2>2. staged' = [t \in S!Targets |-> IF t \in S!Range(S!ImportPairs) THEN IF t = S!Ocr THEN 1 ELSE tries + 1 ELSE 0]
    BY <1>1 DEF S!ImportStage, S!StageFor, S!None, S!CpuContent, S!BuildOf, S!ModelPackage, S!Frozen
  <2>3. /\ staged' = [t \in S!Targets |-> staged'[t]]
        /\ \A t \in S!Range(S!ImportPairs) : t \in S!Targets => staged'[t] # 0
    BY <1>0, <2>2 DEF S!Ocr
  <2>4. place' = [t \in S!Targets |-> place'[t]] /\ \A t \in Permanent : place'[t] = place[t]
    BY <1>0, <1>1 DEF S!ImportStage, Permanent
  <2>5. \A t \in S!Range(S!ImportPairs) : t \in S!Targets
    BY ImportPublishable DEF Publishable, S!Range, Permanent
  <2> QED BY <1>1, <2>1, <2>3, <2>4, <2>5, ImportPublishable, PairsStaged DEF S!ImportStage
<1>2. CASE S!ModelStage
  <2>1. /\ at = "stage" /\ at' = "setAside" /\ todo' = <<S!Ocr>>
        /\ UNCHANGED <<hidden, script, moved, kept, outcome, found, tries, breaks, failing>>
    BY <1>2 DEF S!ModelStage, S!StageFor, S!Calm
  <2>2. staged' = [t \in S!Targets |-> IF t \in S!Range(<<S!Ocr>>) THEN IF t = S!Ocr THEN 1 ELSE tries + 1 ELSE 0]
    BY <1>2 DEF S!ModelStage, S!StageFor, S!None, S!CpuContent, S!BuildOf, S!ModelPackage, S!Frozen
  <2>3. /\ staged' = [t \in S!Targets |-> staged'[t]]
        /\ \A t \in S!Range(<<S!Ocr>>) : t \in S!Targets => staged'[t] # 0
    BY <1>0, <2>2 DEF S!Ocr
  <2>4. place' = [t \in S!Targets |-> place'[t]] /\ \A t \in Permanent : place'[t] = place[t]
    BY <1>0, <1>2 DEF S!ModelStage, Permanent
  <2>5. \A t \in S!Range(<<S!Ocr>>) : t \in S!Targets
    BY ModelPublishable DEF Publishable, S!Range, Permanent
  <2> QED BY <1>2, <2>1, <2>3, <2>4, <2>5, ModelPublishable, PairsStaged DEF S!ModelStage
<1>3. CASE S!ComponentStage
  <2>1. /\ at = "stage" /\ at' = "setAside" /\ todo' = S!ComponentPairs
        /\ UNCHANGED <<hidden, script, moved, kept, outcome, found, tries, breaks, failing>>
    BY <1>3 DEF S!ComponentStage, S!StageFor, S!Calm
  <2>2. staged' = [t \in S!Targets |-> IF t \in S!Range(S!ComponentPairs) THEN IF t = S!Ocr THEN 1 ELSE tries + 1 ELSE 0]
    BY <1>3 DEF S!ComponentStage, S!StageFor, S!None, S!CpuContent, S!BuildOf, S!ModelPackage, S!Frozen
  <2>3. /\ staged' = [t \in S!Targets |-> staged'[t]]
        /\ \A t \in S!Range(S!ComponentPairs) : t \in S!Targets => staged'[t] # 0
    BY <1>0, <2>2 DEF S!Ocr
  <2>4. place' = [t \in S!Targets |-> place'[t]] /\ \A t \in Permanent : place'[t] = place[t]
    BY <1>0, <1>3 DEF S!ComponentStage, Permanent
  <2>5. \A t \in S!Range(S!ComponentPairs) : t \in S!Targets
    BY ComponentPublishable DEF Publishable, S!Range, Permanent
  <2>6. script # "gpu"
    BY <1>3 DEF S!ComponentStage, S!Component
  <2> QED BY <2>1, <2>3, <2>4, <2>5, <2>6, ComponentPublishable, PairsStaged
<1>4. CASE S!GpuStage
  <2>1. /\ at = "stage" /\ at' = "setAside" /\ todo' = S!GpuPairs
        /\ UNCHANGED <<hidden, script, moved, kept, outcome, found, tries, breaks, failing>>
    BY <1>4 DEF S!GpuStage, S!StageFor, S!Calm
  <2>2. staged' = [t \in S!Targets |-> IF t \in S!Range(S!GpuPairs) THEN tries + 1 ELSE 0]
    BY <1>4 DEF S!GpuStage, S!StageFor, S!None, S!GpuContent, S!BuildOf
  <2>3. /\ staged' = [t \in S!Targets |-> staged'[t]]
        /\ \A t \in S!Range(S!GpuPairs) : t \in S!Targets => staged'[t] # 0
    BY <1>0, <2>2 DEF S!Ocr
  <2>4. place' = [t \in S!Targets |-> place'[t]] /\ \A t \in Permanent : place'[t] = place[t]
    BY <1>0, <1>4 DEF S!GpuStage, Permanent, S!Transient
  <2>5. \A t \in S!Range(S!GpuPairs) : t \in S!Targets
    BY GpuPublishable DEF Publishable, S!Range, Permanent
  <2>6. \A t \in S!Range(S!GpuPairs) : found[t] = 0
    BY <1>4, <2>1, GpuPublishable DEF S!GpuStage, KeptInv
  <2> QED BY <2>1, <2>3, <2>4, <2>5, <2>6, GpuPublishable, PairsStaged
<1>5. CASE S!TokenizerStage
  <2>0. PICK revision \in [{S!Anima, S!Krea} -> S!OfficialRevisions] :
          S!StageFor(S!TokenizerPairs, LAMBDA t : S!TokenizerContent(t, revision))
    BY <1>5 DEF S!TokenizerStage
  <2>1. /\ at = "stage" /\ at' = "setAside" /\ todo' = S!TokenizerPairs
        /\ UNCHANGED <<hidden, script, moved, kept, outcome, found, tries, breaks, failing>>
    BY <1>5, <2>0 DEF S!TokenizerStage, S!StageFor, S!Calm
  <2>2. staged' = [t \in S!Targets |-> IF t \in S!Range(S!TokenizerPairs) THEN IF t \in S!Packages THEN revision[t] ELSE tries + 1 ELSE 0]
    BY <1>5, <2>0 DEF S!TokenizerStage, S!StageFor, S!None, S!TokenizerContent, S!BuildOf
  <2>3. /\ staged' = [t \in S!Targets |-> staged'[t]]
        /\ \A t \in S!Range(S!TokenizerPairs) : t \in S!Targets => staged'[t] # 0
    <3>1. 0 \notin S!OfficialRevisions
      BY DEF S!OfficialRevisions, S!TokenizerStages, S!Moving
    <3>2. \A t \in {S!Anima, S!Krea} : revision[t] # 0
      BY <3>1
    <3> QED BY <1>0, <2>2, <3>2, TokenizerPublishable DEF S!Packages
  <2>4. place' = [t \in S!Targets |-> place'[t]] /\ \A t \in Permanent : place'[t] = place[t]
    BY <1>0, <1>5 DEF S!TokenizerStage, Permanent
  <2>5. \A t \in S!Range(S!TokenizerPairs) : t \in S!Targets
    BY TokenizerPublishable DEF Publishable, S!Range, Permanent
  <2>6. script # "gpu"
    BY <1>5 DEF S!TokenizerStage
  <2> QED BY <2>1, <2>3, <2>4, <2>5, <2>6, TokenizerPublishable, PairsStaged
<1> QED BY <1>1, <1>2, <1>3, <1>4, <1>5


\* An operation of the publication fails: the way back begins.
LEMMA BreakKeeps ==
  ASSUME PInv, S!Break, at \in Forward, at' = "undo",
         UNCHANGED <<place, hidden, script, staged, todo, moved, kept, outcome, found, tries>>
  PROVE  PInv'
<1> USE DEF PInv, Early, Forward, Over
<1>1. ScriptTypes'
  BY OneMore DEF ScriptTypes
<1>2. HiddenInv'
  BY DEF HiddenInv
<1>3. ForwardInv'
  BY DEF ForwardInv
<1>4. KeptInv'
  BY DEF KeptInv, Sibling
<1>5. OldInv'
  BY DEF OldInv, OldStands, Sibling
<1>6. BackInv'
  BY OneMore DEF BackInv, ForwardInv
<1> QED BY <1>1, <1>2, <1>3, <1>4, <1>5, <1>6

\* The next target is set aside.
LEMMA SetAsideKeeps == ASSUME PInv, S!SetAside PROVE PInv'
<1> DEFINE t == Head(todo)
<1> USE DEF PInv, Early, Forward, Over
<1>1. /\ at = "setAside" /\ todo # <<>> /\ t \in Permanent /\ t \in S!Targets /\ t \in S!Range(todo)
      /\ todo \in Seq(Permanent) /\ kept \in Seq(Permanent) /\ UNCHANGED <<script, staged, todo, moved, outcome, found, tries>>
      /\ t \notin S!Range(moved) /\ t \notin S!Range(kept)
  <2>1. /\ at = "setAside" /\ todo # <<>> /\ todo \in Seq(Permanent) /\ kept \in Seq(Permanent)
        /\ UNCHANGED <<script, staged, todo, moved, outcome, found, tries>>
    BY DEF S!SetAside, ScriptTypes, ForwardInv
  <2>2. t \in Permanent /\ t \in S!Range(todo)
    BY <2>1, HeadAndTail
  <2> QED BY <2>1, <2>2 DEF ForwardInv, Permanent
<1>2. place[t] = found[t]
  BY <1>1 DEF ForwardInv
<1> HIDE DEF t
<1>3. CASE /\ place[t] = 0 \/ script = "gpu"
           /\ at' = "putIn" /\ UNCHANGED <<place, hidden, kept, breaks, failing>>
  <2>0. found[t] = 0
    BY <1>1, <1>2, <1>3 DEF KeptInv
  <2>1. ScriptTypes'
    BY <1>1, <1>3 DEF ScriptTypes
  <2>2. HiddenInv'
    BY <1>1, <1>3 DEF HiddenInv
  <2>3. ForwardInv'
    BY <1>1, <1>2, <1>3, <2>0 DEF ForwardInv, t
  <2>4. KeptInv'
    BY <1>1, <1>3 DEF KeptInv, Sibling
  <2>5. OldInv'
    BY <1>1, <1>3 DEF OldInv, OldStands, Sibling
  <2>6. BackInv'
    BY <1>1, <1>3 DEF BackInv, Single
  <2> QED BY <2>1, <2>2, <2>3, <2>4, <2>5, <2>6
<1>4. CASE /\ place[t] # 0 /\ script # "gpu" /\ hidden' = S!Siblings(t)
           /\ place' = [place EXCEPT ![t] = 0] /\ kept' = Append(kept, t) /\ at' = "putIn"
           /\ UNCHANGED <<breaks, failing>>
  <2>1. hidden' = hidden \cup {Sibling(t)}
    BY <1>2, <1>4 DEF S!Siblings, Sibling
  <2>2. /\ kept' \in Seq(Permanent) /\ S!Range(kept') = S!Range(kept) \cup {t}
        /\ S!IsInjective(kept) => S!IsInjective(kept')
    BY <1>1, <1>4, OneAppended
  <2>3. /\ place' = [u \in S!Targets |-> place'[u]] /\ place'[t] = 0
        /\ \A u \in S!Targets \ {t} : place'[u] = place[u]
    BY <1>1, <1>4 DEF ScriptTypes
  <2>4. ScriptTypes'
    BY <1>1, <1>4, <2>1, <2>2, <2>3 DEF ScriptTypes, Sibling
  <2>5. HiddenInv'
    BY <1>1, <1>4, <2>1 DEF HiddenInv, Sibling
  <2>6. ForwardInv'
    <3>1. S!Range(moved) \subseteq S!Targets
      BY DEF ScriptTypes, S!Range, Permanent
    <3>2. Permanent \subseteq S!Targets
      BY DEF Permanent
    <3> QED BY <1>1, <1>2, <1>4, <2>2, <2>3, <3>1, <3>2 DEF ForwardInv, t
  <2>7. KeptInv'
    BY <1>1, <1>4, <2>1, <2>2 DEF KeptInv, Sibling
  <2>8. OldInv'
    <3>1. script # "reset" => OldStands
      BY <1>1 DEF OldInv
    <3>2. script # "reset" => OldStands'
      BY <1>1, <1>2, <2>1, <2>3, <3>1 DEF OldStands, Sibling, Permanent
    <3> QED BY <1>1, <1>4, <3>2 DEF OldInv
  <2>9. BackInv'
    BY <1>1, <1>4 DEF BackInv, Single
  <2> QED BY <2>4, <2>5, <2>6, <2>7, <2>8, <2>9
<1>5. CASE S!Break /\ at' = "undo" /\ UNCHANGED <<place, hidden, kept>>
  BY <1>1, <1>5, BreakKeeps
<1> QED BY <1>3, <1>4, <1>5 DEF S!SetAside, S!Calm, S!None, t


\* The staged artifact takes its place.
LEMMA PutInKeeps == ASSUME PInv, S!PutIn PROVE PInv'
<1> DEFINE t == Head(todo)
<1> USE DEF PInv, Early, Forward, Over
<1>1. /\ at = "putIn" /\ todo # <<>> /\ todo \in Seq(Permanent) /\ moved \in Seq(Permanent)
      /\ UNCHANGED <<hidden, script, kept, outcome, found, tries>>
  BY DEF S!PutIn, ScriptTypes, ForwardInv
<1>2. /\ t \in Permanent /\ t \in S!Targets /\ t \in S!Range(todo) /\ Tail(todo) \in Seq(Permanent)
      /\ S!Range(todo) = {t} \cup S!Range(Tail(todo))
      /\ S!IsInjective(Tail(todo)) /\ t \notin S!Range(Tail(todo))
      /\ t \notin S!Range(moved) /\ place[t] = 0 /\ staged[t] # 0
  BY <1>1, HeadAndTail DEF ForwardInv, Permanent
<1>3. /\ S!Range(moved) \subseteq Permanent /\ S!Range(todo) \subseteq Permanent
      /\ Permanent \subseteq S!Targets
  BY <1>1 DEF S!Range, Permanent
<1>4. t \in S!Range(kept) \/ found[t] = 0
  BY <1>1, <1>2 DEF ForwardInv
<1> HIDE DEF t
<1>5. CASE /\ place' = [place EXCEPT ![t] = staged[t]] /\ staged' = [staged EXCEPT ![t] = 0]
           /\ moved' = Append(moved, t) /\ todo' = Tail(todo) /\ UNCHANGED <<breaks, failing>>
           /\ at' = IF todo' # <<>> THEN "setAside" ELSE IF S!Component THEN "inspect" ELSE "dropKept"
  <2>1. moved' \in Seq(Permanent) /\ S!Range(moved') = S!Range(moved) \cup {t}
    BY <1>1, <1>2, <1>5, OneAppended
  <2>2. /\ place' = [u \in S!Targets |-> place'[u]] /\ staged' = [u \in S!Targets |-> staged'[u]]
        /\ place'[t] = staged[t]
        /\ \A u \in S!Targets \ {t} : place'[u] = place[u] /\ staged'[u] = staged[u]
    BY <1>2, <1>5 DEF ScriptTypes
  <2>3. at' \in {"setAside", "inspect", "dropKept"} /\ (at' = "setAside" <=> todo' # <<>>)
    BY <1>5
  <2>4. ScriptTypes'
    BY <1>1, <1>2, <1>5, <2>1, <2>2, <2>3 DEF ScriptTypes
  <2>5. HiddenInv'
    BY <1>1, <2>3 DEF HiddenInv
  <2>6. ForwardInv'
    <3>1. at' = "setAside" =>
            /\ todo' # <<>> /\ S!IsInjective(todo')
            /\ \A u \in S!Range(todo') : staged'[u] # 0 /\ u \notin S!Range(moved') /\ u \notin S!Range(kept')
      BY <1>1, <1>2, <1>3, <1>5, <2>1, <2>2 DEF ForwardInv, t
    <3>2. \A u \in S!Range(moved') : place'[u] # 0
      BY <1>1, <1>2, <1>3, <2>1, <2>2 DEF ForwardInv
    <3>3. \A u \in Permanent \ S!Range(moved') : place'[u] = IF u \in S!Range(kept') THEN 0 ELSE found'[u]
      BY <1>1, <1>3, <2>1, <2>2 DEF ForwardInv
    <3> QED BY <2>3, <3>1, <3>2, <3>3 DEF ForwardInv
  <2>7. KeptInv'
    BY <1>1, <1>2, <1>4, <1>5, <2>1, <2>3 DEF KeptInv, Sibling
  <2>8. OldInv'
    <3>1. script # "reset" => OldStands
      BY <1>1 DEF OldInv
    <3>2. script # "reset" => OldStands'
      BY <1>1, <1>3, <1>4, <2>2, <3>1 DEF OldStands, Sibling, KeptInv
    <3> QED BY <1>1, <2>3, <3>2 DEF OldInv
  <2>9. BackInv'
    BY <1>1, <1>5, <2>3 DEF BackInv, Single
  <2> QED BY <2>4, <2>5, <2>6, <2>7, <2>8, <2>9
<1>6. CASE S!Break /\ at' = "undo" /\ UNCHANGED <<place, staged, moved, todo>>
  BY <1>1, <1>6, BreakKeeps
<1> QED BY <1>5, <1>6 DEF S!PutIn, S!Calm, S!None, t

\* A second operation that fails is one too many for a single one.
LEMMA Twice == ASSUME ScriptTypes, BackInv, at = "undo", S!Break PROVE ~Single'
<1>1. Cardinality(failing) # 0
  BY FS_EmptySet DEF ScriptTypes, BackInv
<1> QED BY <1>1, OneMore DEF Single

\* What was published goes back to the staging tree.
LEMMA UndoMovedKeeps == ASSUME PInv, S!UndoMoved PROVE PInv'
<1> DEFINE t == S!Last(moved)
<1> USE DEF PInv, Early, Forward, Over
<1>1. /\ at = "undo" /\ moved # <<>> /\ moved \in Seq(Permanent)
      /\ UNCHANGED <<hidden, script, todo, kept, found, tries>>
  BY DEF S!UndoMoved, ScriptTypes
<1>2. /\ t \in Permanent /\ t \in S!Targets /\ S!Front(moved) \in Seq(Permanent)
      /\ S!Range(moved) = {t} \cup S!Range(S!Front(moved)) /\ Permanent \subseteq S!Targets
  BY <1>1, FrontAndLast DEF Permanent
<1>3. t \in S!Range(kept) \/ found[t] = 0
  BY <1>1, <1>2 DEF KeptInv
<1> HIDE DEF t
<1>4. CASE /\ staged' = [staged EXCEPT ![t] = place[t]] /\ place' = [place EXCEPT ![t] = 0]
           /\ moved' = S!Front(moved) /\ UNCHANGED <<breaks, failing, at, outcome>>
  <2>1. /\ place' = [u \in S!Targets |-> place'[u]] /\ staged' = [u \in S!Targets |-> staged'[u]]
        /\ place'[t] = 0 /\ \A u \in S!Targets \ {t} : place'[u] = place[u]
    BY <1>2, <1>4 DEF ScriptTypes
  <2>2. ScriptTypes'
    BY <1>1, <1>2, <1>4, <2>1 DEF ScriptTypes
  <2>3. HiddenInv'
    BY <1>1, <1>4 DEF HiddenInv
  <2>4. ForwardInv'
    BY <1>1, <1>4 DEF ForwardInv
  <2>5. KeptInv'
    BY <1>1, <1>2, <1>4 DEF KeptInv, Sibling
  <2>6. OldInv'
    <3>1. script # "reset" => OldStands'
      BY <1>1, <1>2, <1>3, <2>1 DEF OldInv, OldStands, Sibling, KeptInv
    <3> QED BY <1>1, <1>4, <3>1 DEF OldInv
  <2>7. BackInv'
    BY <1>1, <1>2, <1>3, <1>4, <2>1 DEF BackInv, Single
  <2> QED BY <2>2, <2>3, <2>4, <2>5, <2>6, <2>7
<1>5. CASE /\ S!Break /\ UNCHANGED <<place, staged, at, outcome>> /\ moved' = S!Front(moved)
  <2>1. ScriptTypes'
    BY <1>1, <1>2, <1>5, OneMore DEF ScriptTypes
  <2>2. HiddenInv'
    BY <1>1, <1>5 DEF HiddenInv
  <2>3. ForwardInv'
    BY <1>1, <1>5 DEF ForwardInv
  <2>4. KeptInv'
    BY <1>1, <1>2, <1>5 DEF KeptInv, Sibling
  <2>5. OldInv'
    BY <1>1, <1>5 DEF OldInv, OldStands, Sibling
  <2>6. BackInv'
    BY <1>1, <1>5, Twice, OneMore DEF BackInv
  <2> QED BY <2>1, <2>2, <2>3, <2>4, <2>5, <2>6
<1>6. CASE S!Break /\ UNCHANGED <<place, staged>> /\ moved' = <<>> /\ S!Conclude("failed")
  <2>1. at' \in {"tidy", "failed"} /\ outcome' = "failed"
    BY <1>6 DEF S!Conclude
  <2>2. ScriptTypes'
    BY <1>1, <1>6, <2>1, OneMore DEF ScriptTypes
  <2>3. HiddenInv'
    BY <1>1, <2>1 DEF HiddenInv
  <2>4. ForwardInv' /\ KeptInv'
    BY <2>1 DEF ForwardInv, KeptInv
  <2>5. OldInv'
    BY <1>1, <1>6, <2>1 DEF OldInv, OldStands, Sibling
  <2>6. BackInv'
    BY <1>1, <1>6, <2>1, Twice DEF BackInv
  <2> QED BY <2>2, <2>3, <2>4, <2>5, <2>6
<1> QED BY <1>1, <1>4, <1>5, <1>6 DEF S!UndoMoved, S!Calm, S!None, t

\* The sibling a script finds by target and number is the one it made.
LEMMA FoundSibling ==
  ASSUME ScriptTypes, HiddenInv, at \in {"undo", "dropKept"}, NEW t, Sibling(t) \in hidden
  PROVE  (CHOOSE x \in hidden : x.target = t /\ x.by = tries) = Sibling(t)
<1>1. \A x \in hidden : x.target = t /\ x.by = tries => x = Sibling(t)
  BY DEF ScriptTypes, HiddenInv, Sibling
<1>2. Sibling(t).target = t /\ Sibling(t).by = tries
  BY DEF Sibling
<1> QED BY <1>1, <1>2

\* What was set aside goes back to its target.
LEMMA UndoKeptKeeps == ASSUME PInv, S!UndoKept PROVE PInv'
<1> DEFINE t == S!Last(kept)
<1> USE DEF PInv, Early, Forward, Over
<1>1. /\ at = "undo" /\ moved = <<>> /\ kept # <<>> /\ kept \in Seq(Permanent) /\ S!Range(moved) = {}
      /\ kept' = S!Front(kept) /\ UNCHANGED <<script, at, staged, todo, moved, outcome, found, tries>>
  BY DEF S!UndoKept, ScriptTypes, S!Range
<1>2. /\ t \in Permanent /\ t \in S!Targets /\ S!Front(kept) \in Seq(Permanent)
      /\ S!Range(kept) = {t} \cup S!Range(S!Front(kept)) /\ Permanent \subseteq S!Targets
      /\ S!IsInjective(S!Front(kept)) /\ t \notin S!Range(S!Front(kept))
      /\ Sibling(t) \in hidden
  <2>1. S!IsInjective(kept) /\ \A u \in S!Range(kept) : Sibling(u) \in hidden
    BY <1>1 DEF KeptInv
  <2> QED BY <1>1, <2>1, FrontAndLast DEF Permanent
<1> HIDE DEF t
<1>3. CASE S!Restored(t) /\ UNCHANGED <<breaks, failing>>
  <2>1. place' = [place EXCEPT ![t] = found[t]] /\ hidden' = hidden \ {Sibling(t)}
    <3>1. (CHOOSE x \in hidden : x.target = t /\ x.by = tries) = Sibling(t)
      BY <1>1, <1>2, FoundSibling
    <3>2. Sibling(t).content = found[t]
      BY DEF Sibling
    <3> QED BY <1>3, <3>1, <3>2 DEF S!Restored
  <2>2. /\ place' = [u \in S!Targets |-> place'[u]] /\ place'[t] = found[t]
        /\ \A u \in S!Targets \ {t} : place'[u] = place[u] /\ (Sibling(u) \in hidden => Sibling(u) \in hidden')
    BY <1>2, <2>1 DEF ScriptTypes, Sibling
  <2>3. ScriptTypes'
    BY <1>1, <1>2, <1>3, <2>1, <2>2 DEF ScriptTypes
  <2>4. HiddenInv'
    BY <1>1, <2>1 DEF HiddenInv
  <2>5. ForwardInv'
    BY <1>1 DEF ForwardInv
  <2>6. KeptInv'
    <3>1. S!Range(kept') \subseteq S!Targets \ {t} /\ S!Range(kept') \subseteq S!Range(kept)
      <4>1. \A u \in S!Range(S!Front(kept)) : u \in Permanent
        BY <1>2 DEF S!Range
      <4> QED BY <1>1, <1>2, <4>1
    <3> QED BY <1>1, <1>2, <2>2, <3>1 DEF KeptInv, Sibling
  <2>7. OldInv'
    <3>1. script # "reset" => OldStands
      BY <1>1 DEF OldInv
    <3>2. script # "reset" => OldStands'
      BY <1>1, <1>2, <2>2, <3>1 DEF OldStands, Sibling
    <3> QED BY <1>1, <3>2 DEF OldInv
  <2>8. BackInv'
    BY <1>1, <1>2, <1>3, <2>2 DEF BackInv, Single
  <2> QED BY <2>3, <2>4, <2>5, <2>6, <2>7, <2>8
<1>4. CASE /\ UNCHANGED <<place, hidden>>
           /\ (place[t] # 0 /\ UNCHANGED <<breaks, failing>>) \/ S!Break
  <2>1. breaks' \in Nat /\ IsFiniteSet(failing') /\ \A x \in failing' : x[2] \in Nat /\ x[2] < breaks'
    BY <1>4, OneMore DEF ScriptTypes
  <2>2. ScriptTypes'
    BY <1>1, <1>2, <1>4, <2>1 DEF ScriptTypes
  <2>3. HiddenInv'
    BY <1>1, <1>4 DEF HiddenInv
  <2>4. ForwardInv'
    BY <1>1 DEF ForwardInv
  <2>5. KeptInv'
    BY <1>1, <1>2, <1>4 DEF KeptInv, Sibling
  <2>6. OldInv'
    BY <1>1, <1>4 DEF OldInv, OldStands, Sibling
  <2>7. ~Single' /\ failing' # {}
    <3>1. CASE S!Break
      BY <1>1, <3>1, Twice DEF S!Break
    <3>2. CASE place[t] # 0 /\ UNCHANGED <<breaks, failing>>
      BY <1>1, <1>2, <3>2 DEF BackInv, Single
    <3> QED BY <1>4, <3>1, <3>2
  <2>8. BackInv'
    BY <1>1, <2>7 DEF BackInv
  <2> QED BY <2>2, <2>3, <2>4, <2>5, <2>6, <2>8
<1> QED BY <1>3, <1>4 DEF S!UndoKept, S!Calm, S!None, t


\* Everything is back.
LEMMA UndoneKeeps == ASSUME PInv, S!Undone PROVE PInv'
<1> USE DEF PInv, Early, Forward, Over, S!Undone, S!Conclude, S!Calm, S!disk
<1>0. S!Range(moved) = {} /\ S!Range(kept) = {}
  BY DEF S!Range
<1>1. ScriptTypes'
  BY <1>0 DEF ScriptTypes
<1>2. HiddenInv'
  BY <1>0 DEF ScriptTypes, HiddenInv
<1>3. ForwardInv'
  BY <1>0 DEF ScriptTypes, ForwardInv
<1>4. KeptInv'
  BY <1>0 DEF ScriptTypes, KeptInv, ForwardInv, Sibling
<1>5. OldInv'
  BY <1>0 DEF ScriptTypes, OldInv, OldStands, Sibling
<1>6. BackInv'
  BY <1>0 DEF ScriptTypes, BackInv, Single, ForwardInv
<1> QED BY <1>1, <1>2, <1>3, <1>4, <1>5, <1>6

\* A removal that fails is no operation of the publication.
LEMMA Excluded == ASSUME S!Break, at \in {"dropKept", "tidy", "reset"} PROVE ~Single'
<1>1. <<at, breaks>> \in failing' /\ <<at, breaks>>[1] = at
  BY DEF S!Break
<1> QED BY <1>1 DEF Single

\* It reads back what it published, or fails to.
LEMMA InspectKeeps == ASSUME PInv, S!Inspect PROVE PInv'
<1>1. CASE S!Break /\ at' = "undo"
  BY <1>1, BreakKeeps DEF S!Inspect, S!disk, S!process, Forward
<1>2. CASE at' = "dropKept" /\ UNCHANGED <<breaks, failing>>
  <2> USE <1>2 DEF PInv, Early, Forward, Over, S!Inspect, S!disk, S!process
  <2>1. ScriptTypes'
    BY DEF ScriptTypes
  <2>2. HiddenInv'
    BY DEF HiddenInv
  <2>3. ForwardInv'
    BY DEF ForwardInv
  <2>4. KeptInv'
    BY DEF KeptInv, Sibling
  <2>5. OldInv'
    BY DEF OldInv
  <2>6. BackInv'
    BY DEF BackInv
  <2> QED BY <2>1, <2>2, <2>3, <2>4, <2>5, <2>6
<1> QED BY <1>1, <1>2 DEF S!Inspect, S!Calm

\* The siblings are removed.
LEMMA DropKeptKeeps == ASSUME PInv, S!DropKept PROVE PInv'
<1> DEFINE t == Head(kept)
<1> USE DEF PInv, Early, Forward, Over
<1>1. /\ at = "dropKept" /\ kept # <<>> /\ kept \in Seq(Permanent)
      /\ UNCHANGED <<place, script, staged, todo, moved, found, tries>>
  BY DEF S!DropKept, ScriptTypes
<1>2. /\ t \in Permanent /\ Tail(kept) \in Seq(Permanent)
      /\ S!Range(kept) = {t} \cup S!Range(Tail(kept))
      /\ S!IsInjective(Tail(kept)) /\ t \notin S!Range(Tail(kept))
      /\ \A u \in S!Range(kept) : Sibling(u) \in hidden
  <2>1. S!IsInjective(kept) /\ \A u \in S!Range(kept) : Sibling(u) \in hidden
    BY <1>1 DEF KeptInv
  <2> QED BY <1>1, <2>1, HeadAndTail
<1>3. (CHOOSE x \in hidden : x.target = t /\ x.by = tries) = Sibling(t)
  BY <1>1, <1>2, FoundSibling
<1> HIDE DEF t
<1>4. CASE hidden' = hidden \ {Sibling(t)} /\ kept' = Tail(kept) /\ UNCHANGED <<breaks, failing, at, outcome>>
  <2>1. ScriptTypes'
    BY <1>1, <1>2, <1>4 DEF ScriptTypes
  <2>2. HiddenInv'
    BY <1>1, <1>4 DEF HiddenInv
  <2>3. ForwardInv'
    BY <1>1, <1>4 DEF ForwardInv
  <2>4. KeptInv'
    BY <1>1, <1>2, <1>4 DEF KeptInv, Sibling
  <2>5. OldInv'
    BY <1>1, <1>4 DEF OldInv
  <2>6. BackInv'
    BY <1>1, <1>4 DEF BackInv
  <2> QED BY <2>1, <2>2, <2>3, <2>4, <2>5, <2>6
<1>5. CASE /\ S!Break /\ S!Conclude("failed") /\ UNCHANGED kept
           /\ hidden' \in {hidden, (hidden \ {Sibling(t)}) \cup {[Sibling(t) EXCEPT !.content = S!Damaged]}}
  <2>1. at' \in {"tidy", "failed"} /\ outcome' = "failed"
    BY <1>5 DEF S!Conclude
  <2>2. [Sibling(t) EXCEPT !.content = S!Damaged] = [target |-> t, content |-> S!Damaged, by |-> tries]
    BY DEF Sibling
  <2>3. ScriptTypes'
    <3>1. \A h \in hidden' : h = [target |-> h.target, content |-> h.content, by |-> h.by] /\ h.by \in 0..tries
      BY <1>5, <2>2 DEF ScriptTypes
    <3> QED BY <1>1, <1>5, <2>1, <3>1, OneMore DEF ScriptTypes
  <2>4. HiddenInv' /\ ForwardInv' /\ KeptInv'
    BY <2>1 DEF HiddenInv, ForwardInv, KeptInv
  <2>5. OldInv'
    BY <1>1, <2>1 DEF OldInv, ForwardInv
  <2>6. BackInv'
    BY <1>1, <1>5, <2>1, Excluded DEF BackInv
  <2> QED BY <2>3, <2>4, <2>5, <2>6
<1> QED BY <1>1, <1>3, <1>4, <1>5 DEF S!DropKept, S!Calm, t

\* It is done.
LEMMA DroppedKeeps == ASSUME PInv, S!Dropped PROVE PInv'
<1> USE DEF PInv, Early, Forward, Over, S!Dropped, S!Conclude, S!Calm, S!disk
<1>1. ScriptTypes'
  BY DEF ScriptTypes
<1>2. HiddenInv'
  BY DEF ScriptTypes, HiddenInv
<1>3. ForwardInv'
  BY DEF ScriptTypes, ForwardInv
<1>4. KeptInv'
  BY DEF ScriptTypes, KeptInv, ForwardInv, Sibling
<1>5. OldInv'
  BY DEF ScriptTypes, OldInv, OldStands, Sibling, ForwardInv
<1>6. BackInv'
  BY DEF ScriptTypes, BackInv, Single, ForwardInv
<1> QED BY <1>1, <1>2, <1>3, <1>4, <1>5, <1>6

\* The staging tree is removed.
LEMMA TidyKeeps == ASSUME PInv, S!Tidy PROVE PInv'
<1> USE DEF PInv, Early, Forward, Over, S!Tidy, S!Calm, S!disk, S!process
<1>1. ScriptTypes'
  BY OneMore DEF ScriptTypes, BackInv
<1>2. HiddenInv'
  BY DEF ScriptTypes, HiddenInv
<1>3. ForwardInv'
  BY DEF ScriptTypes, ForwardInv
<1>4. KeptInv'
  BY DEF ScriptTypes, KeptInv, ForwardInv, Sibling
<1>5. OldInv'
  BY DEF ScriptTypes, OldInv, OldStands, Sibling, ForwardInv
<1>6. BackInv'
  BY Excluded DEF BackInv, Single
<1> QED BY <1>1, <1>2, <1>3, <1>4, <1>5, <1>6

\* The reset removes the CPU runtime.
LEMMA ResetKeeps == ASSUME PInv, S!Reset PROVE PInv'
<1> USE DEF PInv, Early, Forward, Over, S!Reset, S!Calm, S!process
<1>1. ScriptTypes'
  BY OneMore DEF ScriptTypes, BackInv
<1>2. HiddenInv'
  BY DEF ScriptTypes, HiddenInv
<1>3. ForwardInv'
  BY DEF ScriptTypes, ForwardInv
<1>4. KeptInv'
  BY DEF ScriptTypes, KeptInv, ForwardInv, Sibling
<1>5. OldInv'
  BY DEF ScriptTypes, OldInv, OldStands, Sibling, ForwardInv
<1>6. BackInv'
  BY Excluded DEF BackInv, Single
<1> QED BY <1>1, <1>2, <1>3, <1>4, <1>5, <1>6

\* The process dies.
LEMMA DieKeeps == ASSUME PInv, S!Die PROVE PInv'
<1> USE DEF PInv, Early, Forward, Over, S!Die, S!Resting, S!disk, S!process
<1>1. ScriptTypes'
  BY OneMore DEF ScriptTypes, BackInv
<1>2. HiddenInv'
  BY DEF ScriptTypes, HiddenInv
<1>3. ForwardInv'
  BY DEF ScriptTypes, ForwardInv
<1>4. KeptInv'
  BY DEF ScriptTypes, KeptInv, ForwardInv, Sibling
<1>5. OldInv'
  BY DEF ScriptTypes, OldInv, OldStands, Sibling, ForwardInv
<1>6. BackInv'
  BY Excluded DEF BackInv, Single
<1> QED BY <1>1, <1>2, <1>3, <1>4, <1>5, <1>6


-----------------------------------------------------------------------------
(* The theorems about the scripts                                          *)

\* What is on a machine before the first script.
LEMMA ScriptsInit == ASSUME S!Init PROVE PInv
<1> USE DEF S!Init, S!None
<1>1. place = [t \in S!Targets |-> place[t]] /\ staged = [t \in S!Targets |-> staged[t]]
  OBVIOUS
<1>2. ScriptTypes
  BY <1>1, FS_EmptySet DEF ScriptTypes, Early, Forward, Over
<1> QED BY <1>2 DEF PInv, HiddenInv, ForwardInv, KeptInv, OldInv, BackInv, Early, Forward, Over

\* Every step of a script.
LEMMA ScriptsNext == ASSUME PInv, S!Next PROVE PInv'
BY StartKeeps, CheckKeeps, StagingKeeps, StagesKeep, SetAsideKeeps, PutInKeeps, UndoMovedKeeps,
   UndoKeptKeeps, UndoneKeeps, InspectKeeps, DropKeptKeeps, DroppedKeeps, TidyKeeps, ResetKeeps,
   DieKeeps DEF S!Next

\* The installer does not become a script.
LEMMA InstallerStays == ASSUME pc # "off", Next PROVE pc' # "off"
<1> USE DEF Raise, Die, Goto, Handler
<1>1. CASE RecoverEntry \/ RecoverDone
  BY <1>1 DEF RecoverEntry, RecoverDone
<1>2. CASE Check \/ Prepare \/ \E verdict \in Verdicts : Probe(verdict)
  BY <1>2 DEF Check, Prepare, Probe
<1>3. CASE PublishBegin \/ MoveOut \/ NoteMove \/ Promote \/ NotePromote
  BY <1>3 DEF PublishBegin, MoveOut, NoteMove, Promote, NotePromote
<1>4. CASE DropBackups \/ DropJournal \/ WriteManifest \/ WriteState \/ CleanupSuccess \/ CleanupFailure
  BY <1>4 DEF DropBackups, DropJournal, WriteManifest, WriteState, CleanupSuccess, CleanupFailure
<1>5. ASSUME NEW acc \in Accelerators, Start(acc) PROVE pc' # "off"
  BY <1>5 DEF Start
<1> QED BY <1>1, <1>2, <1>3, <1>4, <1>5 DEF Next

\* A behaviour is the installer's, or the scripts' and keeps their invariant.
ProgramInv ==
  \/ at = "off" /\ script = "none" /\ pc # "off"
  \/ pc = "off" /\ PInv

LEMMA ProgramInvariant == MCSpec => []ProgramInv
<1>1. MCInit => ProgramInv
  BY ScriptsInit DEF MCInit, ProgramInv, Init, NoScripts, NoInstaller
<1>2. PInv => at # "off"
  BY DEF PInv, ScriptTypes, Early, Forward, Over
<1>3. ProgramInv /\ [MCNext]_<<vars, scriptVars>> => ProgramInv'
  <2> SUFFICES ASSUME ProgramInv, [MCNext]_<<vars, scriptVars>> PROVE ProgramInv'
    OBVIOUS
  <2>1. CASE at = "off" /\ Next /\ UNCHANGED scriptVars
    BY <1>2, <2>1, InstallerStays DEF ProgramInv, scriptVars
  <2>2. CASE pc = "off" /\ S!Next /\ UNCHANGED vars
    BY <2>2, ScriptsNext DEF ProgramInv, vars
  <2>3. CASE UNCHANGED <<vars, scriptVars>>
    <3>1. PInv => PInv'
      <4> USE <2>3 DEF scriptVars
      <4>1. (ScriptTypes => ScriptTypes') /\ (HiddenInv => HiddenInv')
        BY DEF ScriptTypes, HiddenInv
      <4>2. (ForwardInv => ForwardInv') /\ (KeptInv => KeptInv')
        BY DEF ForwardInv, KeptInv, Sibling
      <4>3. (OldInv => OldInv') /\ (BackInv => BackInv')
        BY DEF OldInv, OldStands, Sibling, BackInv, Single
      <4> QED BY <4>1, <4>2, <4>3 DEF PInv
    <3> QED BY <2>3, <3>1 DEF ProgramInv, vars, scriptVars
  <2> QED BY <2>1, <2>2, <2>3 DEF MCNext
<1> QED BY <1>1, <1>3, PTL DEF MCSpec

\* For any number of scripts and failures: one that reports an error after one failing
\* operation of the publication left every target as it found it
\* (ocr_resource.publish_runtime_resource_pair and the like).
THEOREM ScriptsTakeBack == MCSpec => []FailureRestores
<1>0. S!Cardinality(failing) = Cardinality(failing)
  BY DEF S!Cardinality, Cardinality
<1>1. PInv => S!FailureRestores
  BY <1>0 DEF PInv, BackInv, Single, S!FailureRestores, Permanent
<1>2. ProgramInv => FailureRestores
  BY <1>1 DEF ProgramInv, FailureRestores
<1> QED BY <1>2, ProgramInvariant, PTL

\* For any number of scripts, failures and deaths: what stood at a target is there or beside it
\* until everything the script publishes is in place.
THEOREM OldIsKept == MCSpec => []OldUntilAllIsNew
<1>1. ASSUME PInv PROVE S!OldUntilAllIsNew
  <2>1. SUFFICES ASSUME script # "reset", at # "idle",
                   \E t \in Permanent : /\ found[t] > 0 /\ place[t] # found[t]
                                        /\ Sibling(t) \notin hidden
                 PROVE  todo = <<>> /\ \A t \in S!Range(moved) : place[t] # 0
    BY DEF S!OldUntilAllIsNew, Permanent, Sibling, S!None, S!Range
  <2>2. ~OldStands
    BY <2>1 DEF OldStands
  <2>3. at \in Over \cup {"dropKept"}
    BY <1>1, <2>1, <2>2 DEF PInv, OldInv, ScriptTypes
  <2> QED BY <1>1, <2>1, <2>2, <2>3 DEF PInv, OldInv, ForwardInv, Over
<1>2. ProgramInv => OldUntilAllIsNew
  BY <1>1 DEF ProgramInv, OldUntilAllIsNew
<1> QED BY <1>2, ProgramInvariant, PTL
=============================================================================

------------------------------ MODULE SampleFlow ------------------------------
(***************************************************************************)
(* What a job promises for its samples: each goes through the modules one  *)
(* by one, is finished or given up exactly once in each, and none enters a *)
(* module while another still has work in the module before.               *)
(***************************************************************************)
EXTENDS Naturals

CONSTANTS
  Samples,   \* the samples of the job
  Stages     \* how many modules it has

VARIABLES
  done,      \* how many modules a sample has been through
  given      \* the samples that were given up

vars == <<done, given>>

Init == done = [s \in Samples |-> 0] /\ given = {}

\* No other sample still has work in an earlier module.
MayWork(s) ==
  /\ s \notin given
  /\ \A t \in Samples : t \in given \/ done[t] >= done[s]

Finish(s) ==
  /\ MayWork(s) /\ done[s] < Stages
  /\ done' = [done EXCEPT ![s] = @ + 1]
  /\ UNCHANGED given

GiveUp(s) ==
  /\ MayWork(s) /\ done[s] < Stages
  /\ given' = given \cup {s}
  /\ UNCHANGED done

Next == \E s \in Samples : Finish(s) \/ GiveUp(s)

Spec == Init /\ [][Next]_vars
=============================================================================

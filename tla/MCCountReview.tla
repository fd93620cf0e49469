---------------------------- MODULE MCCountReview ----------------------------
(* CountReview for TLC: sources that agree, differ, warn, or do not know. *)
EXTENDS CountReview, TLC

CONSTANTS solo, duo

ClientSymmetry == Permutations(Clients)

Opinion(value, warned, vlm) == [classify |-> [value |-> value, warned |-> warned], vlm |-> vlm]

MCInputs ==
  {Opinion(solo, FALSE, solo), Opinion(solo, FALSE, duo), Opinion(NoCount, FALSE, "not_requested"),
   Opinion(duo, TRUE, duo)}

\* 2026-08-16-job-lifecycle-controls-design.md:48: recovery checks the job and then resumes
\* its current module, so a review has a decision for every sample.
ReviewIsInitialised == Reviewing => Decided = Samples
=============================================================================

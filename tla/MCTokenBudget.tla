---------------------------- MODULE MCTokenBudget ----------------------------
(* TokenBudget for TLC, and what the design says of a recovered job. *)
EXTENDS TokenBudget, TLC

RequestSymmetry == Permutations(Requests)

\* 2026-08-16-job-lifecycle-controls-design.md:48: recovery checks the job and then resumes
\* its current module, so a review has no sample that was never counted.
ReviewIsCounted == Reviewing => InState({"pending"}) = {}
=============================================================================

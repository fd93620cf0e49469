---------------------------- MODULE MCDatasetClaim ----------------------------
(* DatasetClaim for TLC, and what a design document says of it. *)
EXTENDS DatasetClaim

JobSymmetry == Permutations(Jobs)

\* docs/superpowers/specs/2026-08-16-dataset-claim-conflict-design.md:11: a recovered task
\* goes on holding the dataset, "防止新旧任务并发写入" (so that an old and a new task do
\* not write at the same time).
OneWriter == \A i, j \in threads : i = j \/ i = parent[j] \/ j = parent[i]

\* lifecycle.py:29: a job is not deleted before its repair children are.
StartupServes == boot # "dead"
=============================================================================

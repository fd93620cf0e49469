------------------------------ MODULE MCModuleRun ------------------------------
(* ModuleRun for TLC, and what the lifecycle design and a docstring say of it. *)
EXTENDS ModuleRun

\* 2026-08-16-job-lifecycle-controls-design.md:48: a recovered job is back in the runnable
\* state of its current module, so start_module takes that module up again.
RecoveredModuleRuns ==
  [][(pc = "summary" /\ Active(module) => pc' # "raise")]_vars

\* db_scheduler.py:654: "`cancelling` keeps draining"; with nothing in flight it is settled.
CancellingKeepsDraining == status = "cancelling" ~> status # "cancelling"

\* 2026-08-16-job-lifecycle-controls-design.md:29: a pause is cooperative, the runner ends
\* its current work and claims no more; without an error a paused job does not fail.
PauseNeverFails == [][(status = "paused" => status' # "failed")]_vars
=============================================================================

------------------------------ MODULE MCOcrRun ------------------------------
(***************************************************************************)
(* OcrRun for TLC: parents, and what earlier jobs left in the dataset.      *)
(***************************************************************************)
EXTENDS OcrRun

\* A parent bound to a large card, one that never bound, and no repair at all.
MCParents ==
  {NoParent, Unbound, [runtime |-> "gpu", build |-> 1, card |-> 24, limit |-> 2560]}

\* No sidecar, one made with the limit of the CPU, one that failed, one of an
\* image or a model that has changed.
MCLeftovers ==
  {None,
   [status |-> "text", fresh |-> TRUE, limit |-> 1920],
   [status |-> "failed", fresh |-> TRUE, limit |-> 1920],
   [status |-> "text", fresh |-> FALSE, limit |-> 1920]}

MCPlainLeftovers == {None}
MCNoParents == {NoParent}
=============================================================================

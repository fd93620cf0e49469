------------------------------- MODULE MCInstall -------------------------------
(***************************************************************************)
(* The packaging programs for TLC.  The installer: the caption runtime and *)
(* its tagger, the policy runtime and its quality models, and the OCR GPU  *)
(* runtime, one component for each way _classify_probe_failures takes.     *)
(* And the maintenance scripts.  A behaviour is one of the two programs'.  *)
(***************************************************************************)
EXTENDS Install

CONSTANTS MaxTries, MaxBreaks
VARIABLES place, hidden, script, at, staged, todo, moved, kept, outcome, found, failing, tries, breaks

S == INSTANCE Publication
scriptVars == <<place, hidden, script, at, staged, todo, moved, kept, outcome, found, failing, tries, breaks>>

MCPlan == <<"e621-tagger", "caption-e621", "quality-stack", "policy", "ocr-gpu">>
MCCompanion == [c \in {"caption-e621", "policy"} |->
                  IF c = "policy" THEN "quality-stack" ELSE "e621-tagger"]

\* What the program that does not run has.
NoScripts ==
  /\ place = <<>> /\ hidden = {} /\ script = "none" /\ at = "off" /\ staged = <<>> /\ todo = <<>> /\ moved = <<>>
  /\ kept = <<>> /\ outcome = "none" /\ found = <<>> /\ failing = {} /\ tries = 0 /\ breaks = 0
NoInstaller ==
  /\ target = <<>> /\ manifests = <<>> /\ state = NoState /\ journal = NoJournal /\ backup = <<>>
  /\ pc = "off" /\ accelerator = "none" /\ final = <<>> /\ pending = {} /\ left = {} /\ entries = NoJournal
  /\ before = <<>> /\ faultsAt = {} /\ runs = 0 /\ faults = 0

MCInit == (Init /\ NoScripts) \/ (S!Init /\ NoInstaller)
MCNext ==
  \/ at = "off" /\ Next /\ UNCHANGED scriptVars
  \/ pc = "off" /\ S!Next /\ UNCHANGED vars
MCSpec == MCInit /\ [][MCNext]_<<vars, scriptVars>>

\* A maintenance script that reports an error leaves every target as it found it, unless a
\* second operation failed while the first was undone, or the failing one was a removal.
FailureRestores == pc = "off" => S!FailureRestores

\* What stood at a target of a script is given up only when everything it publishes is in
\* place, whatever fails and wherever the process dies.
OldUntilAllIsNew == pc = "off" => S!OldUntilAllIsNew
================================================================================

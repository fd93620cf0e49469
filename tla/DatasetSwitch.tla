---------------------------- MODULE DatasetSwitch ----------------------------
(***************************************************************************)
(* What publishing an export promises whoever reads the dataset path: the  *)
(* path shows the old annotations, or the complete new ones, or for a      *)
(* moment nothing at all; the old ones are saved before the path is ever   *)
(* touched; and a published dataset stays published.                       *)
(***************************************************************************)
VARIABLES
  content,  \* the version the path shows, or will show again: "old" or "new"
  visible,  \* a directory stands at the dataset path
  saved     \* a backup of the old annotations exists

vars == <<content, visible, saved>>

Init == content = "old" /\ visible = TRUE /\ saved = FALSE

Save == saved' = TRUE /\ UNCHANGED <<content, visible>>

\* The old directory is renamed away ...
Detach ==
  /\ visible /\ content = "old" /\ saved
  /\ visible' = FALSE
  /\ UNCHANGED <<content, saved>>

\* ... and either comes back or gives way to the new one.
Reattach ==
  /\ ~visible
  /\ visible' = TRUE
  /\ UNCHANGED <<content, saved>>

Publish ==
  /\ ~visible
  /\ visible' = TRUE
  /\ content' = "new"
  /\ UNCHANGED saved

Next == Save \/ Detach \/ Reattach \/ Publish

Spec == Init /\ [][Next]_vars
=============================================================================

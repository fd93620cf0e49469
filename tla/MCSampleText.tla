---------------------------- MODULE MCSampleText ----------------------------
(***************************************************************************)
(* Values for SampleText with which replacement alone runs, over and over  *)
(* on one JSON (SampleTextOneRound.cfg).                                   *)
(***************************************************************************)
EXTENDS SampleText

ReplaceOnly ==
  { [mode |-> "tag", fallback |-> TRUE, enabled |-> {"replace"}, fresh |-> FALSE,
     format |-> "json", index |-> "i"] }

MCNoTexts == { {} }
=============================================================================

----------------------------- MODULE SampleText -----------------------------
(***************************************************************************)
(* What one sample's annotation goes through: the caption TXT, the JSON    *)
(* that is classified from it, the replacement of its tags, the dropout    *)
(* and the export, over several jobs on one dataset.  Each module's output *)
(* is a file that is written, recorded and then moved into the job's       *)
(* overlay; a crash may fall between any two of these.  The replacement    *)
(* must happen once: a mark in the overlay says so within a job, a record  *)
(* kept with the dataset says so to later jobs.                            *)
(*                                                                         *)
(* Leases, batches and the pipeline thread are in ModuleRun, the switch of *)
(* directories in ExportCommit, NL and count review, which change only nl  *)
(* and count, in NlRequests and CountReview.                               *)
(***************************************************************************)
EXTENDS Integers, Sequences, SequencesExt

CONSTANTS
  Configs,      \* the job configurations that may be submitted
  Counts,       \* the values of the count field
  UserTexts,    \* the TXT a user may have put in: {} or {Text("source", NoRounds)}
  UserShapes,   \* the shapes of the JSON a user may have put in
  Indexes,      \* replacement indexes, by fingerprint
  MaxJobs,      \* jobs of a behaviour (bound)
  MaxCrashes    \* crashes of a behaviour (bound)


Modules == <<"caption", "classify", "replace", "dropout", "export">>
Position(m) == CHOOSE i \in 1 .. Len(Modules) : Modules[i] = m

\* How often the tags went through each index; two stands for more.
NoRounds == [i \in Indexes |-> 0]
Round(rounds, i) == [rounds EXCEPT ![i] = IF @ = 2 THEN 2 ELSE @ + 1]

\* An absent file is {}, a file the set of its content.
Text(kind, rounds) == [kind |-> kind, rounds |-> rounds]
Json(shape, count, rounds, path) ==
  [shape |-> shape, count |-> count, rounds |-> rounds, dropped |-> FALSE, path |-> path]
The(S) == CHOOSE x \in S : TRUE
\* The bytes a digest is taken of; the path is history.
Bytes(j) == [j EXCEPT !.path = <<>>]

\* What MCExportCommit assumes of them.
TextAssumption ==
  /\ MaxJobs \in Nat /\ MaxCrashes \in Nat
  /\ Configs # {} /\ \A c \in Configs : c.index \in Indexes
  /\ \A t \in UserTexts : t \in {{}, {Text("source", NoRounds)}}

VARIABLES
  txt, json,      \* the dataset's annotation of the sample
  record,         \* its row in the dataset's replace-provenance database
  phase,          \* the latest job: none, running, interrupted, reviewing or failed
  config, start,  \* its configuration; the module from which the sample takes part
  repair,         \* it is a repair task
  original,       \* original_txt_state of its manifest
  at, sample,     \* current_module_id and status of sample_state
  issue,          \* the unresolved issue of the sample
  staged,         \* prepared_artifact_sha256, and for export the artifact
  file,           \* the prepared file
  ovTxt, ovJson,  \* the overlay's annotation
  mark,           \* the overlay's replace\provenance file
  step, out,      \* the runner: where it is with the lease, and what it was answered
  jobs, crashes

dataset == <<txt, json, record>>
order == <<config, start, repair, original, jobs>>
task == <<phase, order>>
queue == <<at, sample, issue, staged>>
overlay == <<file, ovTxt, ovJson, mark>>
runner == <<step, out>>
vars == <<dataset, task, queue, overlay, runner, crashes>>

WorkTxt == IF ovTxt # {} THEN ovTxt ELSE txt
WorkJson == IF ovJson # {} THEN ovJson ELSE json

Working(m) == phase = "running" /\ at = m /\ sample = "leased" /\ step = "read"

-----------------------------------------------------------------------------
(* Jobs                                                                    *)

FreshJob(c, from, child) ==
  /\ phase' = "running" /\ config' = c /\ start' = from /\ repair' = child
  /\ original' = IF txt = {} THEN "missing_or_blank" ELSE "nonblank"
  /\ jobs' = jobs + 1
  /\ at' = "workspace" /\ sample' = "completed" /\ issue' = "none" /\ staged' = {}
  /\ file' = {} /\ ovTxt' = {} /\ mark' = {}
  /\ step' = "none" /\ out' = {}

\* A new job: its overlay is empty, its manifest is taken from the dataset.
StartJob ==
  /\ phase = "none" /\ jobs < MaxJobs
  /\ \E c \in Configs : FreshJob(c, "caption", FALSE)
  /\ ovJson' = {}
  /\ UNCHANGED <<dataset, crashes>>

\* A repair task: the samples with a retriable issue take part from the module
\* that repairs it, every other sample from the export.  Its overlay is empty
\* too, so both start from the dataset's annotation, not from the parent's.
RepairJob ==
  /\ phase \in {"reviewing", "failed"} /\ jobs < MaxJobs
  /\ FreshJob(config, IF issue \in {"caption", "classify", "dropout"} THEN issue ELSE "export",
              TRUE)
  /\ ovJson' = {}
  /\ UNCHANGED <<dataset, crashes>>

\* The user deletes a task that has not succeeded.
Discard ==
  /\ phase \in {"reviewing", "failed", "interrupted"}
  /\ phase' = "none" /\ step' = "none" /\ out' = {}
  /\ UNCHANGED <<dataset, order, queue, overlay, crashes>>

-----------------------------------------------------------------------------
(* The scheduler                                                           *)

Enabled(m) == m = "export" \/ m \in config.enabled

\* start_module: the sample moves on when it is done with the module before;
\* one that failed stays behind, and goes to export as a skip.
EnterModule ==
  /\ phase = "running" /\ step = "none"
  /\ at # "export"
  /\ LET next == IF at = "workspace" THEN "caption" ELSE Modules[Position(at) + 1]
         takes == Enabled(next) /\ Position(next) >= Position(start)
     IN  /\ next = "export" => issue \in {"none", "warning"}
         /\ at' = next
         /\ sample' = IF issue # "none" THEN (IF next = "export" THEN "skipped" ELSE sample)
                      ELSE IF takes THEN "pending" ELSE "completed"
  /\ sample \in {"completed", "skipped", "failed"}
  /\ staged' = {}
  /\ UNCHANGED <<dataset, task, issue, overlay, runner, crashes>>

\* The lease of a new attempt has a name of its own, and so has its prepared file.
Claim ==
  /\ phase = "running" /\ sample = "pending"
  /\ sample' = "leased" /\ step' = "read" /\ out' = {} /\ file' = {}
  /\ UNCHANGED <<dataset, task, at, issue, staged, ovTxt, ovJson, mark, crashes>>

\* A pause, a cancellation or the loss of the worker before anything is stored.
Release ==
  /\ phase = "running" /\ step = "read" /\ sample = "leased"
  /\ sample' = "pending" /\ step' = "none"
  /\ UNCHANGED <<dataset, task, at, issue, staged, overlay, out, crashes>>

Settle(status, problem) ==
  /\ sample' = status /\ issue' = problem
  /\ step' = "none" /\ out' = {}

\* fail_with_issue: "final" is blocking and not retriable, "warning" does not block;
\* any other issue is blocking and is repaired from the module it names.
Fails(problem) ==
  /\ Settle("failed", problem)
  /\ UNCHANGED <<at, staged, overlay>>

Completes ==
  /\ Settle("completed", "none")
  /\ UNCHANGED <<at, staged, overlay>>

Answers(content) ==
  /\ step' = "write" /\ out' = {content}
  /\ UNCHANGED <<queue, overlay>>

-----------------------------------------------------------------------------
(* Caption                                                                 *)

RawShape == json # {} /\ The(json).shape = "raw"
BrokenShape == json # {} /\ The(json).shape = "broken"

\* "tag" keeps the user's TXT and infers only what is missing, if it may.
NeedsInference ==
  config.mode = "nl" \/ (original = "missing_or_blank" /\ config.fallback)

\* The worker's answer: tags, or an issue that may be repaired or not.
CaptionAnswer ==
  \/ Answers(Text("tagger", NoRounds))
  \/ Fails("caption")
  \/ Fails("final")

CaptionSample ==
  /\ Working("caption")
  /\ \/ BrokenShape /\ Fails("final")
     \/ RawShape /\ Completes
     \/ /\ ~BrokenShape /\ ~RawShape
        /\ \/ NeedsInference /\ CaptionAnswer
           \/ /\ ~NeedsInference
              /\ IF original = "missing_or_blank" THEN Fails("warning") ELSE Completes
  /\ UNCHANGED <<dataset, task, crashes>>

-----------------------------------------------------------------------------
(* Classify                                                                *)

\* What the worker projects from: the raw tags, or the working TXT.
ClassifyInput == IF RawShape THEN {Text("raw", NoRounds)} ELSE WorkTxt

\* The projection, or the existing JSON with a new count.
Compose(rounds, count) ==
  IF RawShape \/ WorkJson = {} \/ config.fresh
  THEN Json("nine", count, rounds, <<"classify">>)
  ELSE [The(WorkJson) EXCEPT !.count = count, !.path = Append(@, "classify")]

ClassifyAnswer(rounds) ==
  \/ \E count \in Counts : Answers(Compose(rounds, count))
  \/ Fails("classify")
  \/ Fails("final")

ClassifySample ==
  /\ Working("classify")
  /\ IF BrokenShape \/ ClassifyInput = {} THEN Fails("final")
     ELSE ClassifyAnswer(The(ClassifyInput).rounds)
  /\ UNCHANGED <<dataset, task, crashes>>

-----------------------------------------------------------------------------
(* Replace                                                                 *)

\* The record is of this index and of exactly these bytes.
Recorded(j) == record = {[index |-> config.index, json |-> Bytes(j)]}

\* The request wants exactly the nine fields: any other JSON raises before the
\* worker sees it, which fails the job.  The worker refuses what it cannot replace.
ReplaceAnswer(j) ==
  /\ j.shape = "nine"
  /\ \/ Answers([j EXCEPT !.rounds = Round(@, config.index), !.path = Append(@, "replace")])
     \/ Fails("final")

\* The mark, the JSON, the record and only then the worker.
ReplaceSample ==
  /\ Working("replace")
  /\ \/ mark = {config.index} /\ Completes
     \/ /\ mark # {config.index}
        /\ IF WorkJson = {} THEN Fails("final")
           ELSE IF The(WorkJson).shape = "broken" THEN Fails("final")
           ELSE IF Recorded(The(WorkJson))
                THEN /\ Settle("completed", "none")
                     /\ mark' = {config.index}
                     /\ UNCHANGED <<at, staged, file, ovTxt, ovJson>>
                ELSE ReplaceAnswer(The(WorkJson))
  /\ UNCHANGED <<dataset, task, crashes>>

-----------------------------------------------------------------------------
(* Dropout                                                                 *)

\* The worker reads the working JSON itself and writes the prepared file.
DropoutAnswer ==
  IF WorkJson = {} THEN Fails("classify")
  ELSE IF The(WorkJson).shape # "nine" THEN Fails("classify")
  ELSE \/ \E drops \in BOOLEAN :
            Answers([The(WorkJson) EXCEPT !.dropped = @ \/ drops, !.path = Append(@, "dropout")])
       \/ Fails("dropout")

DropoutSample ==
  /\ Working("dropout")
  /\ DropoutAnswer
  /\ UNCHANGED <<dataset, task, crashes>>

-----------------------------------------------------------------------------
(* Storing an answer: caption, classify, replace and dropout               *)

\* The prepared file, then its digest with the status prepared.
Prepare ==
  /\ phase = "running" /\ step = "write" /\ at # "export"
  /\ file' = out /\ staged' = out
  /\ sample' = "prepared" /\ step' = "move"
  /\ UNCHANGED <<dataset, task, at, issue, ovTxt, ovJson, mark, out, crashes>>

MoveIntoOverlay(content) ==
  /\ file' = {}
  /\ IF at = "caption"
     THEN ovTxt' = content /\ UNCHANGED ovJson
     ELSE ovJson' = content /\ UNCHANGED ovTxt

\* commit_prepared: the digest is checked, the file moved into the overlay.
Move ==
  /\ phase = "running" /\ step = "move" /\ file = staged
  /\ MoveIntoOverlay(file)
  /\ step' = IF at = "replace" THEN "mark" ELSE "complete"
  /\ UNCHANGED <<dataset, task, queue, mark, out, crashes>>

MarkReplaced ==
  /\ phase = "running" /\ step = "mark"
  /\ mark' = {config.index} /\ step' = "complete"
  /\ UNCHANGED <<dataset, task, queue, file, ovTxt, ovJson, out, crashes>>

Complete ==
  /\ phase = "running" /\ step = "complete"
  /\ Settle("completed", "none")
  /\ UNCHANGED <<dataset, task, at, staged, overlay, crashes>>

\* Any of these steps may raise: what is leased goes back, the job has failed.
Raise ==
  /\ phase = "running" /\ step \in {"read", "write", "move", "mark", "complete"}
  /\ phase' = "failed"
  /\ sample' = "pending" /\ step' = "none" /\ out' = {}
  /\ UNCHANGED <<dataset, order, at, issue, staged, overlay, crashes>>

-----------------------------------------------------------------------------
(* Export                                                                  *)

\* What is missing in the JSON is filled in; fields that are unknown are refused.
Normalised(j) == [j EXCEPT !.shape = "nine"]

ExportProblem ==
  IF WorkJson = {} /\ "classify" \in config.enabled THEN "classify" ELSE "final"

ExportSample ==
  /\ Working("export")
  /\ IF WorkJson = {} THEN Fails(ExportProblem)
     ELSE IF The(WorkJson).shape \in {"raw", "broken"} THEN Fails("final")
     ELSE \/ Answers(Normalised(The(WorkJson)))
          \/ Fails("final")
  /\ UNCHANGED <<dataset, task, crashes>>

\* The artifacts replace those of an earlier attempt; the sample stays leased.
StageArtifacts ==
  /\ phase = "running" /\ step = "write" /\ at = "export"
  /\ staged' = out /\ file' = out /\ step' = "complete"
  /\ UNCHANGED <<dataset, task, at, sample, issue, ovTxt, ovJson, mark, out, crashes>>

\* Mutant of Changes: every published sample is recorded as replaced.
ChangesOfAll(published) ==
  IF config.format = "flat_txt" THEN <<{}>>
  ELSE <<{[index |-> config.index, json |-> published]}>>

\* The row of a marked sample becomes the JSON that is published, that of a
\* sample published as TXT alone goes, and any other stays.
Changes(published) ==
  IF config.format = "flat_txt" THEN <<{}>>
  ELSE IF mark = {} THEN <<>>
  ELSE <<{[index |-> The(mark), json |-> published]}>>

\* apply_provenance_changes
Applied(changes) == IF changes = <<>> THEN record ELSE Last(changes)

\* All samples are settled and none is blocked: the dataset is switched.
Publish ==
  /\ phase = "running" /\ at = "export" /\ step = "none"
  /\ sample \in {"completed", "skipped"}
  /\ IF sample = "skipped" THEN UNCHANGED dataset
     ELSE LET j == Bytes(The(staged))
          IN  /\ txt' = IF config.format = "json" THEN {} ELSE {Text("flat", j.rounds)}
              /\ json' = IF config.format = "flat_txt" THEN {} ELSE {j}
              /\ record' = Applied(Changes(j))
  /\ phase' = "none"
  /\ UNCHANGED <<order, queue, overlay, runner, crashes>>

\* An issue of this sample, or of another one, holds the job up for a review.
Review ==
  /\ phase = "running" /\ step = "none"
  /\ \/ at = "dropout" /\ sample \in {"completed", "failed"}
     \/ at = "export" /\ sample \in {"completed", "failed"}
  /\ phase' = "reviewing"
  /\ UNCHANGED <<dataset, order, queue, overlay, runner, crashes>>

-----------------------------------------------------------------------------
(* A crash, and the recovery the user confirms                             *)

Crash ==
  /\ phase = "running" /\ crashes < MaxCrashes
  /\ phase' = "interrupted" /\ crashes' = crashes + 1
  /\ step' = "none" /\ out' = {}
  /\ UNCHANGED <<dataset, order, queue, overlay>>

Target == IF at = "caption" THEN ovTxt ELSE ovJson

SameBytes(a, b) ==
  /\ a # {} /\ b # {}
  /\ IF at = "caption" THEN a = b ELSE Bytes(The(a)) = Bytes(The(b))

\* Mutant of RecoverPrepared: what was prepared is done again.
RecoverPreparedAgain ==
  sample' = "pending" /\ UNCHANGED <<file, ovTxt, ovJson, mark>>

\* recover_prepared: what has been moved, or can be, is complete.  It leaves the
\* mark alone.
RecoverPrepared ==
  /\ IF SameBytes(Target, staged) \/ SameBytes(file, staged)
     THEN MoveIntoOverlay(staged) /\ sample' = "completed"
     ELSE sample' = "pending" /\ UNCHANGED <<file, ovTxt, ovJson>>
  /\ UNCHANGED mark

\* BoundedScheduler.recover: a lease goes back, a prepared sample is settled.
Recover ==
  /\ phase = "interrupted"
  /\ phase' = "running"
  /\ IF sample = "prepared" THEN RecoverPrepared
     ELSE /\ sample' = IF sample = "leased" THEN "pending" ELSE sample
          /\ UNCHANGED overlay
  /\ UNCHANGED <<dataset, order, at, issue, staged, runner, crashes>>

-----------------------------------------------------------------------------

UserJson(shapes) ==
  {{}} \cup {{Json(shape, count, NoRounds, <<>>)} : shape \in shapes, count \in Counts}

Init ==
  /\ txt \in UserTexts /\ json \in UserJson(UserShapes) /\ record = {}
  /\ phase = "none" /\ config = CHOOSE c \in Configs : TRUE
  /\ start = "caption" /\ repair = FALSE
  /\ original = "nonblank" /\ jobs = 0
  /\ at = "workspace" /\ sample = "completed" /\ issue = "none" /\ staged = {}
  /\ file = {} /\ ovTxt = {} /\ ovJson = {} /\ mark = {}
  /\ step = "none" /\ out = {} /\ crashes = 0

Next ==
  \/ StartJob \/ RepairJob \/ Discard
  \/ EnterModule \/ Claim \/ Release
  \/ CaptionSample \/ ClassifySample \/ ReplaceSample \/ DropoutSample \/ ExportSample
  \/ Prepare \/ Move \/ MarkReplaced \/ Complete \/ Raise
  \/ StageArtifacts \/ Publish \/ Review
  \/ Crash \/ Recover

Spec == Init /\ [][Next]_vars

-----------------------------------------------------------------------------

\* The modules that change the JSON, as a job asks for them.
Only(c, m) == IF m \in c.enabled THEN <<m>> ELSE <<>>
Asked(c) == Only(c, "classify") \o Only(c, "replace") \o Only(c, "dropout")
AskedButReplace(c) == Only(c, "classify") \o Only(c, "dropout")

\* What an ordinary job publishes is the work it was asked for: the JSON went
\* through every enabled module, in order and once, whatever was paused, killed
\* and recovered in between; only a replacement the dataset's record vouches for
\* is left out.  (A step redone on its own output would replace, or drop, twice.)
WorkPublished ==
  [][(phase = "running" /\ phase' = "none" /\ sample = "completed" /\ ~repair) =>
       /\ The(staged).path \in {Asked(config), AskedButReplace(config)}
       /\ "replace" \in config.enabled => The(staged).rounds[config.index] >= 1]_vars

\* The record of a replacement never vouches for a JSON that was not replaced:
\* a later job that trusts it and skips the sample is right to do so.
MatchMeansReplaced ==
  \A r \in record : r.json \in {Bytes(j) : j \in json} => r.json.rounds[r.index] >= 1

\* What replace_overlay.py:37 says: "Replacement is a single non-recursive round,
\* so a re-run must not replace twice."
OneRound == \A j \in json, i \in Indexes : j.rounds[i] <= 1

=============================================================================

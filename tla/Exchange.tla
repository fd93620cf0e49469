------------------------------ MODULE Exchange ------------------------------
(***************************************************************************)
(* A job's samples on their way through the workers of the pure modules:   *)
(* caption, classify, replace, dropout and export.  The core claims a      *)
(* batch, builds a work item for each sample or settles it at once, sends  *)
(* the batch to the module's worker, matches the outcomes to the leases    *)
(* and settles the samples one by one.                                     *)
(*                                                                         *)
(* Faults: the worker exits, its answer is out of order, lacks an outcome, *)
(* repeats one or names another lease, or a result cannot be written.      *)
(* Every frame but the caption answer is taken to fit.                     *)
(***************************************************************************)
EXTENDS Annotations

CONSTANTS
  Setups,       \* [cfg, cases, draw]: the configuration, a case per sample, the seed's decisions
  FrameRoom,    \* what a caption answer may hold, in units of a result's size
  MaxRestarts,  \* how often a module's exited worker is started again
  MaxFaults

ASSUME ExchangeAssumption ==
  /\ \A job \in Setups : DOMAIN job.cases \subseteq Nat
  /\ FrameRoom \in Nat
  /\ MaxRestarts \in Nat
  /\ MaxFaults \in Nat

VARIABLES
  setup,     \* the job: its configuration and the files and images of its samples
  module,    \* the module that runs, or "done"
  phase,     \* claim, build, send, reply, settle; ended when the job has failed or is done
  at,        \* sample -> pending, leased, settled or out (it has an issue)
  lease,     \* sample -> the number of its latest lease
  code,      \* sample -> the code of its issue
  txt, json, \* sample -> its working text and JSON
  out,       \* sample -> its exported text
  todo,      \* the claimed samples still to build, in ascending order
  items,     \* the work items of the batch that await an outcome
  answer,    \* the outcomes the worker has computed, then the ones still to settle
  ready,     \* the worker has answered hello
  failure,   \* the code the job failed with
  restarts, faults

vars == <<setup, module, phase, at, lease, code, txt, json, out, todo, items, answer, ready, failure, restarts, faults>>
files == <<txt, json, out>>

cfg == setup.cfg
Case(s) == setup.cases[s]
Samples == DOMAIN setup.cases
Order == <<"caption", "classify", "replace", "dropout", "export">>
ModuleIndex(m) == CHOOSE k \in DOMAIN Order : Order[k] = m
\* The first module of the job after the k-th; the export is always one.
ModuleAfter(k) == Order[Min({j \in DOMAIN Order : j > k /\ Order[j] \in cfg.enabled \cup {"export"}})]
Original(s) == [words |-> Case(s).text, provenance |-> "original_preserved"]

Init ==
  /\ setup \in Setups
  /\ module = ModuleAfter(0) /\ phase = "claim"
  /\ at = [s \in Samples |-> "pending"] /\ lease = [s \in Samples |-> 0] /\ code = [s \in Samples |-> ""]
  /\ txt = [s \in Samples |-> Original(s)]
  /\ json = [s \in Samples |-> Case(s).json]
  /\ out = [s \in Samples |-> <<>>]
  /\ todo = {} /\ items = <<>> /\ answer = <<>>
  /\ ready = FALSE /\ failure = "" /\ restarts = 0 /\ faults = 0

-----------------------------------------------------------------------------
(* What the core does with a leased sample before it asks the worker: an   *)
(* issue, settled as it is, a work item, or the end of the job.            *)
Refuse(c) == [do |-> "issue", code |-> c]
Keep == [do |-> "settle", code |-> ""]
Ask == [do |-> "item", code |-> ""]
Abort(c) == [do |-> "fail", code |-> c]

RawForm621(s) == cfg.profile = "e621" /\ Case(s).json.form = "raw"
Unreadable621(s) == cfg.profile = "e621" /\ Case(s).json.form \in {"broken", "doubled"}
RequiresInference(s) == cfg.input = "nl" \/ (Case(s).text = <<>> /\ cfg.fallback)

BuildCaption(s) ==
  IF Unreadable621(s) THEN Refuse("e621_raw_json_invalid")
  ELSE IF RawForm621(s) THEN Keep
  ELSE IF ~RequiresInference(s)
  THEN IF Case(s).text = <<>> THEN Refuse("caption_missing_txt_without_tagger_fallback") ELSE Keep
  ELSE IF Case(s).image = "odd" THEN Abort("caption_source_fingerprint_mismatch")
  ELSE Ask

BuildClassify(s) ==
  IF RawForm621(s) THEN IF Case(s).image = "odd" THEN Refuse("classify_input_invalid") ELSE Ask
  ELSE IF Unreadable621(s) THEN Refuse("classify_input_invalid")
  ELSE IF Case(s).image = "odd" THEN Abort("path_unsafe")
  ELSE IF txt[s].words = <<>> \/ json[s].form \notin {"missing", "plain"} THEN Refuse("classify_input_invalid")
  ELSE Ask

BuildReplace(s) ==
  IF Case(s).image = "odd" THEN Abort("path_unsafe")
  ELSE IF json[s].form # "plain" THEN Refuse("replace_json_invalid")
  ELSE IF Case(s).recorded /\ json[s] = Case(s).json THEN Keep
  ELSE Ask

Build(s) ==
  CASE module = "caption" -> BuildCaption(s)
    [] module = "classify" -> BuildClassify(s)
    [] module = "replace" -> BuildReplace(s)
    [] OTHER -> Ask

(* What the worker makes of an item: a result or an issue.                 *)
ClassifyItem(s) ==
  IF RawForm621(s)
  THEN [text |-> Case(s).json.json.tags, provenance |-> "original_preserved", count |-> <<>>]
  ELSE [text |-> txt[s].words, provenance |-> txt[s].provenance,
        count |-> IF json[s].form = "plain" THEN json[s].json.count ELSE <<>>]
Outcomes(s) ==
  CASE module = "caption" -> {Captioned(Case(s).image, Case(s).tags, cfg.format)}
    [] module = "classify" -> {Classified(ClassifyItem(s), cfg)}
    [] module = "replace" -> Replacements(json[s].json)
    [] module = "dropout" -> {Policed(Case(s).image, json[s], cfg, setup.draw)}
    [] OTHER -> {Exported(json[s], cfg)}

-----------------------------------------------------------------------------
(* The caption worker's answer must fit a frame: the largest results give  *)
(* way to short issues, one after the other, until it does.                *)
SizeOf(o) == IF o.outcome.kind = "result" THEN Case(o.sample).size ELSE 1
Total(outcomes) == FoldLeft(LAMBDA sum, o : sum + SizeOf(o), 0, outcomes)
Shortened(o) == [o EXCEPT !.outcome = Issue("caption_result_too_large", "")]
LargerFirst(i, j, outcomes) == \/ SizeOf(outcomes[i]) > SizeOf(outcomes[j])
                               \/ SizeOf(outcomes[i]) = SizeOf(outcomes[j]) /\ i < j
FitAnswer(outcomes) ==
  LET results == {i \in DOMAIN outcomes : outcomes[i].outcome.kind = "result"}
      Rank(i) == Cardinality({j \in results : LargerFirst(j, i, outcomes)})
      Cut(n) == [i \in DOMAIN outcomes |->
                   IF i \in results /\ Rank(i) < n THEN Shortened(outcomes[i]) ELSE outcomes[i]]
      enough == {n \in 0..Cardinality(results) : Total(Cut(n)) <= FrameRoom}
  IN IF enough = {} THEN <<>> ELSE Cut(Min(enough))

(* The faults of an answer.                                                *)
Stale(o) == [o EXCEPT !.lease = @ - 1]
Tampered(outcomes) ==
  {Reverse(outcomes), Tail(outcomes)}
    \cup {[outcomes EXCEPT ![i] = outcomes[j]] : i, j \in DOMAIN outcomes}
    \cup {[outcomes EXCEPT ![i] = Stale(@)] : i \in DOMAIN outcomes}

SameLease(o, i) == o.sample = i.sample /\ o.lease = i.lease
\* caption, classify and replace take an answer only as a whole: one outcome for
\* each item, whatever their order; replaced JSON is validated as it arrives.
Matches(outcomes) ==
  /\ Len(outcomes) = Len(items)
  /\ module = "replace" => \A o \in ToSet(outcomes) : CleanProjection(o.outcome.json)
  /\ \A i \in ToSet(items) : \E o \in ToSet(outcomes) : SameLease(o, i)
\* Mutant of InItemOrder: the outcomes are paired with the items by position.
InItemOrderPositional(outcomes) ==
  [k \in DOMAIN items |-> [outcomes[k] EXCEPT !.sample = items[k].sample, !.lease = items[k].lease]]
InItemOrder(outcomes) ==
  [k \in DOMAIN items |-> CHOOSE o \in ToSet(outcomes) : SameLease(o, items[k])]
WholeAnswer == module \in {"caption", "classify", "replace"}

-----------------------------------------------------------------------------
Pending == {s \in Samples : at[s] = "pending"}
Returned == [s \in Samples |-> IF at[s] = "leased" THEN "pending" ELSE at[s]]

\* The job fails: the leases go back and nothing more happens.
Fail(c) ==
  /\ phase' = "ended" /\ failure' = c
  /\ at' = Returned /\ todo' = {} /\ items' = <<>> /\ answer' = <<>>
  /\ UNCHANGED <<setup, module, lease, code, files, ready, restarts>>

Claim ==
  /\ phase = "claim" /\ Pending # {}
  /\ lease' = [s \in Samples |-> IF s \in Pending THEN lease[s] + 1 ELSE lease[s]]
  /\ at' = [s \in Samples |-> IF s \in Pending THEN "leased" ELSE at[s]]
  /\ todo' = Pending
  /\ phase' = "build"
  /\ UNCHANGED <<setup, module, code, files, items, answer, ready, failure, restarts, faults>>

\* No sample is left: the module is finished and the next one begins, with a
\* worker of its own, for the samples that have no issue.
FinishModule ==
  /\ phase = "claim" /\ Pending = {}
  /\ IF module = "export"
     THEN module' = "done" /\ phase' = "ended" /\ at' = at
     ELSE /\ module' = ModuleAfter(ModuleIndex(module)) /\ phase' = phase
          /\ at' = [s \in Samples |-> IF at[s] = "settled" THEN "pending" ELSE at[s]]
  /\ ready' = FALSE /\ restarts' = 0
  /\ UNCHANGED <<setup, lease, code, files, todo, items, answer, failure, faults>>

BuildItem ==
  /\ phase = "build" /\ todo # {}
  /\ LET s == Min(todo)
         built == Build(s)
     IN \/ built.do = "fail" /\ Fail(built.code)
        \/ /\ built.do # "fail"
           /\ todo' = todo \ {s}
           /\ items' = IF built.do = "item" THEN Append(items, [sample |-> s, lease |-> lease[s]]) ELSE items
           /\ at' = [at EXCEPT ![s] = CASE built.do = "issue" -> "out" [] built.do = "settle" -> "settled"
                                        [] OTHER -> @]
           /\ code' = [code EXCEPT ![s] = built.code]
           /\ UNCHANGED <<setup, module, phase, lease, files, answer, ready, failure, restarts>>
  /\ UNCHANGED faults

\* The whole batch is built.  A JSON the replace protocol does not accept is
\* met here, when the request is put together.
Unacceptable == module = "replace" /\ \E i \in ToSet(items) : ~CleanProjection(json[i.sample].json)
Built ==
  /\ phase = "build" /\ todo = {}
  /\ \/ Unacceptable /\ Fail("replace_protocol_violation")
     \/ /\ ~Unacceptable
        /\ phase' = IF items = <<>> THEN "claim" ELSE "send"
        /\ UNCHANGED <<setup, module, at, lease, code, files, todo, items, answer, ready, failure, restarts>>
  /\ UNCHANGED faults

Hello ==
  /\ phase = "send" /\ ~ready
  /\ ready' = TRUE
  /\ UNCHANGED <<setup, module, phase, at, lease, code, files, todo, items, answer, failure, restarts, faults>>

-----------------------------------------------------------------------------
\* A changed image ends the caption worker with an error.
Refused == module = "caption" /\ \E i \in ToSet(items) : Case(i.sample).image = "changed"
WorkerRefuses ==
  /\ phase = "send" /\ ready /\ Refused
  /\ Fail("caption_source_fingerprint_mismatch")
  /\ UNCHANGED faults

\* The worker computes the outcomes of the batch, in item order.
Labelled(outcomes) ==
  [k \in DOMAIN items |-> [sample |-> items[k].sample, lease |-> items[k].lease, outcome |-> outcomes[k]]]
OneOfEach(choices) == {f \in [DOMAIN choices -> UNION Range(choices)] : \A k \in DOMAIN choices : f[k] \in choices[k]}
WorkerComputes ==
  /\ phase = "send" /\ ready /\ ~Refused
  /\ \E outcomes \in OneOfEach([k \in DOMAIN items |-> Outcomes(items[k].sample)]) :
       answer' = IF module = "caption" THEN FitAnswer(Labelled(outcomes)) ELSE Labelled(outcomes)
  /\ phase' = "reply"
  /\ UNCHANGED <<setup, module, at, lease, code, files, todo, items, ready, failure, restarts, faults>>

\* The core takes the answer as the module's batch, or fails the job.  An answer
\* that does not fit a frame however short is an error reply, here <<>>.
Receive(outcomes) ==
  LET accepted == IF WholeAnswer THEN Matches(outcomes) ELSE Len(outcomes) = Len(items) IN
  \/ ~accepted /\ Fail("protocol_violation")
  \/ /\ accepted
     /\ answer' = IF WholeAnswer THEN InItemOrder(outcomes) ELSE outcomes
     /\ phase' = "settle"
     /\ UNCHANGED <<setup, module, at, lease, code, files, todo, items, ready, failure, restarts>>

WorkerAnswers ==
  /\ phase = "reply"
  /\ Receive(answer)
  /\ UNCHANGED faults

WorkerMisanswers ==
  /\ phase = "reply" /\ answer # <<>> /\ faults < MaxFaults
  /\ \E sent \in Tampered(answer) : Receive(sent)
  /\ faults' = faults + 1

\* The worker exits before it has answered: its leases return to the queue and
\* another one is started, up to the limit.
WorkerExits ==
  /\ phase \in {"send", "reply"} /\ faults < MaxFaults
  /\ \/ restarts = MaxRestarts /\ Fail("worker_exited")
     \/ /\ restarts < MaxRestarts
        /\ restarts' = restarts + 1 /\ ready' = FALSE /\ phase' = "claim"
        /\ at' = Returned /\ items' = <<>> /\ answer' = <<>>
        /\ UNCHANGED <<setup, module, lease, code, files, todo, failure>>
  /\ faults' = faults + 1

-----------------------------------------------------------------------------
\* The first outcome and the item it is taken for.
Outcome == Head(answer)
ItemOf(o) == CHOOSE i \in ToSet(items) : SameLease(o, i)
\* dropout and export find the item of each outcome only now.
Foreign == \A i \in ToSet(items) : ~SameLease(Outcome, i)

\* The core refuses a dropout result that changes what dropout may not change,
\* or whose JSON, before or after, its own reader does not take.
DropoutRefused(s, result) ==
  \/ Case(s).image = "odd"
  \/ json[s].form # "plain"
  \/ \E f \in ProtectedFields : result[f] # json[s].json[f]

RefuseOutcome ==
  /\ phase = "settle" /\ answer # <<>>
  /\ \/ Foreign /\ Fail("protocol_violation")
     \/ /\ ~Foreign /\ module = "dropout" /\ Outcome.outcome.kind = "result"
        /\ DropoutRefused(ItemOf(Outcome).sample, Outcome.outcome.json)
        /\ Fail("policy_refused")
  /\ UNCHANGED faults

\* What a result leaves behind.
Store(s, result) ==
  /\ txt' = IF module = "caption"
            THEN [txt EXCEPT ![s] = [words |-> result.text, provenance |-> "module1_written"]] ELSE txt
  /\ json' = [json EXCEPT ![s] =
       CASE module = "classify" -> File("plain", ComposeClassifyJson(@, result.json, cfg, Case(s).text # <<>>))
         [] module \in {"replace", "dropout"} -> File("plain", result.json)
         [] OTHER -> @]
  /\ out' = IF module = "export" THEN [out EXCEPT ![s] = result.text] ELSE out

Settle ==
  /\ phase = "settle" /\ answer # <<>> /\ ~Foreign
  /\ LET o == Outcome
         i == ItemOf(o)
         s == i.sample
     IN /\ ~(module = "dropout" /\ o.outcome.kind = "result" /\ DropoutRefused(s, o.outcome.json))
        /\ IF o.outcome.kind = "issue" THEN UNCHANGED files ELSE Store(s, o.outcome)
        /\ at' = [at EXCEPT ![s] = IF o.outcome.kind = "issue" THEN "out" ELSE "settled"]
        /\ code' = [code EXCEPT ![s] = o.outcome.code]
        /\ items' = RemoveAt(items, CHOOSE k \in DOMAIN items : items[k] = i)
        /\ answer' = Tail(answer)
        /\ phase' = IF Len(answer) = 1 THEN "claim" ELSE phase
  /\ UNCHANGED <<setup, module, lease, todo, ready, failure, restarts, faults>>

\* A result that cannot be written ends the job, and the samples already
\* settled keep theirs.
WriteFails ==
  /\ phase = "settle" /\ answer # <<>> /\ ~Foreign
  /\ Outcome.outcome.kind = "result" /\ faults < MaxFaults
  /\ Fail("result_persistence_failed")
  /\ faults' = faults + 1

Next ==
  \/ Claim \/ FinishModule \/ BuildItem \/ Built \/ Hello
  \/ WorkerRefuses \/ WorkerComputes \/ WorkerAnswers \/ WorkerMisanswers \/ WorkerExits
  \/ RefuseOutcome \/ Settle \/ WriteFails

Spec == Init /\ [][Next]_vars

-----------------------------------------------------------------------------
(* Properties.                                                             *)

\* s has left module m with its result.
Through(s, m) ==
  /\ m \in cfg.enabled
  /\ \/ module = "done"
     \/ ModuleIndex(module) > ModuleIndex(m)
     \/ module = m /\ at[s] = "settled"
  /\ at[s] # "out"

\* What an outcome leaves a leased sample with.
LeftWith(s, o) ==
  /\ at'[s] = (IF o.kind = "issue" THEN "out" ELSE "settled")
  /\ code'[s] = o.code
  /\ o.kind = "issue" => <<txt[s], json[s], out[s]>>' = <<txt[s], json[s], out[s]>>
  /\ o.kind = "issue" \/
     CASE module = "caption" -> txt'[s].words = o.text
       [] module = "classify" -> json'[s] = File("plain", ComposeClassifyJson(json[s], o.json, cfg, Case(s).text # <<>>))
       [] module = "export" -> out'[s] = o.text
       [] OTHER -> json'[s] = File("plain", o.json)
\* However the worker's answer is ordered, shortened, repeated or mislabelled,
\* a sample is settled with what the worker made of this very sample: its own
\* result or issue, or the issue of a caption too large to send
\* (the lease matching of caption_runner, classify_protocol, replace_protocol,
\* policy_runner and export_runner).
OwnAnswer ==
  [][\A s \in Samples : (phase = "settle" /\ at[s] = "leased" /\ at'[s] \in {"settled", "out"})
       => \E o \in Outcomes(s) \cup {x \in {Issue("caption_result_too_large", "")} : module = "caption"} :
             LeftWith(s, o)]_vars

\* The inputs for which a whole job may fail: an image name no overlay path may
\* have, an image changed since the scan, more samples than a caption answer has room
\* for even when every result is shortened, and a dataset JSON, kept as it is,
\* that the reader of replace or of dropout's result does not take.
KeptJson(s) == Case(s).json.form = "plain" /\ ~("classify" \in cfg.enabled /\ (cfg.rebuild \/ cfg.overwriteJson))
FailsTheJob(s) ==
  \/ Case(s).image = "odd"
  \/ Case(s).image = "changed" /\ "caption" \in cfg.enabled
  \/ "replace" \in cfg.enabled /\ KeptJson(s) /\ ~CleanProjection(Case(s).json.json)
  \/ "dropout" \in cfg.enabled /\ Case(s).json.form = "doubled"
\* Without a fault a job fails only for such an input.  So whatever one worker
\* produces, the modules after it take: a replaced JSON is one the core reads
\* back, and dropout changes no field it may not change.
FailureHasACause ==
  (failure # "" /\ faults = 0) =>
    (\E s \in Samples : FailsTheJob(s)) \/ (Cardinality(Samples) > FrameRoom /\ "caption" \in cfg.enabled)

\* A Danbooru count decided from the tags alone is certain: every number of
\* girls, boys and others that agrees with the count tags that have a wiki page
\* gives this count (anima_classify_worker/count.py resolve_danbooru).
CountTagsOf(s) == ToSet(ParseTagText(txt[s].words, cfg.format, txt[s].provenance)) \cap WikiTags
DecidedCountHolds ==
  \A s \in Samples :
    (cfg.profile = "danbooru" /\ Through(s, "classify") /\ Case(s).json.form = "missing" /\ json[s].json.count # <<>>)
    => {CountText(b) : b \in BucketsOf(Worlds(CountTagsOf(s)))} = {json[s].json.count}

\* The tags classify reads from a caption are the tags the model gave, each
\* once, in its order, without the triggers.  Two losses are the code's: the
\* period of a last tag, and, without escapes, a backslash before a symbol.
LosesPeriod(s) == Last(Case(s).tags) \in DOMAIN Clipped
LosesBackslash(s) == ~cfg.format.escapes /\ \E t \in ToSet(Case(s).tags) : Via(Recovered, Via(Shown[FALSE], t)) # t
CaptionIsReadBack ==
  \A s \in Samples :
    (txt[s].provenance = "module1_written" /\ ~LosesPeriod(s) /\ ~LosesBackslash(s))
    => ParseTagText(txt[s].words, cfg.format, "module1_written") = Distinct(Case(s).tags)
=============================================================================

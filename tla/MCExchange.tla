----------------------------- MODULE MCExchange -----------------------------
(***************************************************************************)
(* What reaches a worker.  Values for Exchange: a small vocabulary, job    *)
(* configurations, and the files and images of a plain sample beside one   *)
(* of each unusual kind.  And the resources a worker loads (Resources, for *)
(* the libraries of MCResources).  A behaviour is of one or the other.     *)
(***************************************************************************)
EXTENDS Exchange

CONSTANT Libraries   \* the Setups of Resources

VARIABLES
  library, defaults, custom, hashCache, compatible, asked, config, stage, queue, step, overlay, accepted, loaded,
  fault, touched, changes, events, submits, repairs

Shelves == INSTANCE MCResources
R == INSTANCE Resources WITH Setups <- Libraries
resourceVars ==
  <<library, defaults, custom, hashCache, compatible, asked, config, stage, queue, step, overlay, accepted, loaded,
    fault, touched, changes, events, submits, repairs>>

\* A configuration has all of its sections, each on or off.
ASSUME LibrariesAssumption ==
  \A job \in Libraries :
    /\ {"caption", "classify", "replace", "ocr", "dropout", "tokenBudget", "quality", "countReview"} \subseteq DOMAIN job.config
    /\ \A name \in DOMAIN job.config : "enabled" \in DOMAIN job.config[name]
    /\ \A name \in {"classify", "replace"} : "indexMode" \in DOMAIN job.config[name]

MCE621 ==
  ("wolf" :> [canonical |-> "canine", bucket |-> "tags", output |-> "canine"])
  @@ ("rex" :> [canonical |-> "rex", bucket |-> "character", output |-> "rex"])
  @@ ("red_fur" :> [canonical |-> "red_fur", bucket |-> "appearance", output |-> "red fur"])
  @@ ("forest" :> [canonical |-> "forest", bucket |-> "environment", output |-> "forest"])
  @@ ("truth" :> [canonical |-> "truth", bucket |-> "tags", output |-> "truth"])
  @@ ("duo" :> [canonical |-> "duo", bucket |-> "count", output |-> "duo"])
MCDanbooru ==
  ("miku" :> "character") @@ ("vocaloid" :> "series") @@ ("fate" :> "series")
  @@ ("blue_hair" :> "appearance") @@ ("outdoors" :> "environment")
\* Two tags may give one, a tag may give another's output, in another case.
MCRules ==
  ("canine" :> <<"dog", "wolf">>) @@ ("red fur" :> <<"anthro dog">>) @@ ("blue_hair" :> <<"anthro dog", "furry">>)
  @@ ("outdoors" :> <<"Dog">>) @@ ("forest" :> <<"Dog">>) @@ ("miku" :> <<"dog">>) @@ ("1girl" :> <<>>)
MCShown == [e \in BOOLEAN |-> IF e THEN ("x_(y)" :> "x \\(y\\)") @@ ("\\o/" :> "\\\\o/") ELSE ("x_(y)" :> "x (y)")]
MCRecovered == ("x \\(y\\)" :> "x_(y)") @@ ("x (y)" :> "x_(y)") @@ ("\\\\o/" :> "\\o/") @@ ("\\o/" :> "o/") @@ (" " :> "")
MCDisplayed == [e \in BOOLEAN |-> IF e THEN ("x_(y)" :> "x \\(y\\)") ELSE ("x_(y)" :> "x (y)")]
MCFolded == ("Dog" :> "dog") @@ ("Wolf" :> "wolf")
MCClipped == ("..." :> "..") @@ ("." :> "")
MCUntidy == ("a,b" :> <<"a", "b">>)
MCWiki == {"duo", "solo", "1girl", "2girls", "multiple_girls", "1boy", "6+girls", "multiple_boys", "solo_focus", "2others"}

Format(triggers, escapes) == [triggers |-> triggers, escapes |-> escapes]
FullJob ==
  [profile |-> "danbooru", format |-> Format(<<>>, TRUE), input |-> "tag", fallback |-> TRUE, rebuild |-> FALSE,
   overwriteJson |-> FALSE, overwriteCount |-> FALSE, enabled |-> {"caption", "classify", "replace", "dropout"},
   artist |-> "@dir", quality |-> TRUE, coupled |-> TRUE, output |-> "both"]
Light == [FullJob EXCEPT !.artist = "", !.quality = FALSE, !.coupled = FALSE]
Jobs ==
  {FullJob,
   [FullJob EXCEPT !.profile = "e621", !.rebuild = TRUE],
   [FullJob EXCEPT !.profile = "e621", !.format = Format(<<"ohwx", "dog">>, FALSE), !.overwriteCount = TRUE],
   [Light EXCEPT !.input = "nl", !.format = Format(<<"miku">>, FALSE), !.output = "flat_txt"],
   [Light EXCEPT !.fallback = FALSE, !.overwriteJson = TRUE, !.output = "json"],
   [Light EXCEPT !.enabled = {"classify"}, !.profile = "e621"],
   [Light EXCEPT !.enabled = {"replace"}],
   [FullJob EXCEPT !.enabled = {"replace", "dropout"}, !.output = "json"],
   [FullJob EXCEPT !.enabled = {"dropout"}]}

Sample ==
  [image |-> "ok", text |-> <<"miku", "1girl">>, json |-> NoFile, tags |-> <<"miku", "rex", "1girl">>, size |-> 2,
   recorded |-> FALSE]
Nine == [EmptyJson EXCEPT !.tags = <<"wolf", "x_(y)">>, !.appearance = <<"blue_hair">>, !.count = <<Word("solo")>>,
                          !.nl = TRUE]
Plain(fields) == [Sample EXCEPT !.json = File("plain", fields)]
Rex == [EmptyJson EXCEPT !.tags = <<"wolf", "wolf", "duo">>, !.artist = <<"x", "y">>, !.character = <<"rex">>]
Cases ==
  { [Sample EXCEPT !.image = "odd"],
    [Sample EXCEPT !.image = "changed", !.text = <<>>],
    [Sample EXCEPT !.image = "undecodable", !.text = <<>>],
    [Sample EXCEPT !.text = <<"vocaloid", "fate", "outdoors", "1girl", "1boy">>],
    [Sample EXCEPT !.text = <<>>, !.tags = <<"wolf", "miku", "wolf", "x_(y)">>, !.size = 4],
    [Sample EXCEPT !.text = <<>>, !.tags = <<"ohwx", "dog", "rex", "ohwx", "red_fur", "forest">>],
    [Sample EXCEPT !.text = <<>>, !.tags = <<"miku", "blue_hair", "\\o/", "miku", "..." >>, !.size = 3],
    [Sample EXCEPT !.text = <<>>, !.tags = <<"a,b">>],
    [Sample EXCEPT !.text = <<>>, !.tags = <<>>],
    [Sample EXCEPT !.text = <<"ohwx", "dog", "truth", " ">>],
    [Sample EXCEPT !.json = File("raw", Rex)],
    [Sample EXCEPT !.json = File("broken", EmptyJson)],
    [Sample EXCEPT !.json = File("doubled", Nine)],
    Plain(Nine), [Plain(Nine) EXCEPT !.recorded = TRUE],
    Plain([Nine EXCEPT !.has = @ \ {"quality"}]),
    Plain([Nine EXCEPT !.has = @ \cup {"extra"}]),
    Plain([Nine EXCEPT !.tags = <<"canine", "dog", "dog">>]),
    Plain([Nine EXCEPT !.tags = <<"canine", "dog">>]),
    Plain([Nine EXCEPT !.tags = <<"a,b">>]),
    Plain([Nine EXCEPT !.tags = <<"canine", "Wolf">>, !.environment = <<"outdoors", "wolf">>, !.character = <<"miku">>]),
    Plain([Nine EXCEPT !.count = <<Number(2, FALSE), Word("duo")>>, !.artist = <<"@DIR">>]),
    Plain([Nine EXCEPT !.count = <<Word("solo"), Word("duo")>>]) }

Draw(artist, quality, score, coupled) ==
  [artist |-> artist, quality |-> quality, score |-> score, coupled |-> coupled]
Draws == {Draw(FALSE, FALSE, <<"masterpiece">>, "keep_both"), Draw(TRUE, FALSE, <<"wolf">>, "drop_appearance")}

\* The count tags of a text, up to three.
CountTexts == {<<"miku">> \o SetToSeq(t) : t \in UNION {kSubset(k, MCWiki) : k \in 1..3}}
CountJob == [Light EXCEPT !.enabled = {"classify"}, !.output = "json"]

MCLibraries == Shelves!MCSetups

MCSetups ==
  {[cfg |-> c, cases |-> <<Sample, k>>, draw |-> d] : c \in Jobs, k \in Cases, d \in Draws}
  \cup {[cfg |-> CountJob, cases |-> <<[Sample EXCEPT !.text = t]>>, draw |-> Draw(FALSE, FALSE, <<>>, "keep_both")] :
          t \in CountTexts}
  \cup {[cfg |-> FullJob, draw |-> Draw(FALSE, FALSE, <<>>, "drop_nl"),
         cases |-> <<[Sample EXCEPT !.text = <<>>, !.size = 3], [Sample EXCEPT !.text = <<>>, !.size = 4],
                     [Sample EXCEPT !.text = <<>>, !.tags = <<"1girl">>, !.size = 1]>>],
        [cfg |-> Light, draw |-> Draw(FALSE, FALSE, <<>>, "keep_both"),
         cases |-> [s \in 1..5 |-> [Sample EXCEPT !.text = <<>>]]]}

-----------------------------------------------------------------------------
\* What the side that does not run has.
NoExchange ==
  /\ setup = [cfg |-> FullJob, cases |-> <<>>, draw |-> Draw(FALSE, FALSE, <<>>, "keep_both")]
  /\ module = "none" /\ phase = "off" /\ at = <<>> /\ lease = <<>> /\ code = <<>> /\ txt = <<>> /\ json = <<>>
  /\ out = <<>> /\ todo = {} /\ items = <<>> /\ answer = <<>> /\ ready = FALSE /\ failure = "" /\ restarts = 0
  /\ faults = 0
NoResources ==
  /\ library = <<>> /\ defaults = <<>> /\ custom = <<>> /\ hashCache = {} /\ compatible = {} /\ asked = <<>>
  /\ config = <<>> /\ stage = "off" /\ queue = {} /\ step = "none" /\ overlay = <<>> /\ accepted = <<>>
  /\ loaded = {} /\ fault = "none" /\ touched = FALSE /\ changes = 0 /\ events = 0 /\ submits = 0 /\ repairs = 0

MCInit == (Init /\ NoResources) \/ (R!Init /\ NoExchange)
MCNext ==
  \/ stage = "off" /\ Next /\ UNCHANGED resourceVars
  \/ phase = "off" /\ R!Next /\ UNCHANGED vars
MCSpec == MCInit /\ [][MCNext]_<<vars, resourceVars>>

\* Whatever changes in the library, in the custom files and in the caches, and however
\* often a worker is lost or the job repaired: a worker works with the resource that the
\* preflight showed for its module, and every file holds what the manifest records, except
\* the weights beside the caption model, which the worker does not hash: they may differ
\* when something changed after the preflight, or before a later one that took them from
\* the hash cache.
LoadedIsFrozen == R!LoadedIsFrozen

\* A job whose files nobody touches after the preflight does not fail on its resources
\* later, neither when a module selects its package nor in the worker, which validates it
\* by rules of its own, except at the points Resources!Gap names.
PreflightIsEnough == R!PreflightIsEnough
=============================================================================

---------------------------- MODULE Annotations ----------------------------
(***************************************************************************)
(* What the workers compute for one sample: the caption text of the model's *)
(* tags, the classification of a text, the replacement round, the dropout  *)
(* policy and the final normalisation.  Pure operators over tags; a text is *)
(* the sequence of its comma-separated words, a JSON the record of its     *)
(* fields, where a string field is the sequence of its comma-separated     *)
(* parts.                                                                  *)
(***************************************************************************)
EXTENDS CountRules

CONSTANTS
  E621Index,      \* tag -> [canonical, bucket, output]
  DanbooruIndex,  \* tag -> its bucket
  WikiTags,       \* the tags whose wiki page the resource holds
  LoreTags, NonIdentityTags,   \* e621 tags that are never written
  ReplaceRules,   \* tag -> the candidates that take its place (<<>> drops it)
  AnthroTags,     \* candidates that become "furry" at random
  Shown,          \* with escapes or not: tag -> the word the caption text shows
  Recovered,      \* word -> the tag classify reads from it
  Displayed,      \* with escapes or not: tag -> its form in an exported text
  Unshowable,     \* tags with a comma or a line break in them
  Folded,         \* tag -> its case-folded form
  Clipped,        \* a tag that ends in a period -> the same without it
  Untidy          \* an array item -> the trimmed parts a comma splits it into

Via(f, t) == IF t \in DOMAIN f THEN f[t] ELSE t
Mapped(s, Op(_)) == [i \in DOMAIN s |-> Op(s[i])]
DistinctBy(s, Key(_)) ==
  FoldLeft(LAMBDA kept, t : IF \E u \in ToSet(kept) : Key(u) = Key(t) THEN kept ELSE Append(kept, t), <<>>, s)
Distinct(s) == DistinctBy(s, LAMBDA t : t)
FoldedTag(t) == Via(Folded, t)

ArrayFields == {"quality", "appearance", "tags", "environment"}
TextFields == {"character", "series", "artist"}
Fields == ArrayFields \cup TextFields \cup {"count", "nl"}
EmptyJson ==
  [has |-> Fields, quality |-> <<>>, count |-> <<>>, character |-> <<>>, series |-> <<>>, artist |-> <<>>,
   appearance |-> <<>>, tags |-> <<>>, environment |-> <<>>, nl |-> FALSE]
\* A file that parses to an object with well-typed known fields; the other
\* forms are "missing", "raw" (an e621 tag export), "broken" and "doubled" (a
\* repeated key, which only the policy worker's reader accepts).
File(form, json) == [form |-> form, json |-> json]
NoFile == File("missing", EmptyJson)

\* What a worker answers for one sample.
Issue(code, repair) == [kind |-> "issue", code |-> code, repair |-> repair, text |-> <<>>, json |-> EmptyJson]
Written(text) == [kind |-> "result", code |-> "", repair |-> "", text |-> text, json |-> EmptyJson]
Result(json) == [kind |-> "result", code |-> "", repair |-> "", text |-> <<>>, json |-> json]

-----------------------------------------------------------------------------
(* Caption.                                                                *)
Captioned(image, tags, format) ==
  LET shown == format.triggers \o tags IN
  IF image = "undecodable" THEN Issue("caption_image_decode_failed", "caption")
  ELSE IF tags = <<>> THEN Issue("caption_no_tags", "")
  ELSE IF ToSet(shown) \cap Unshowable # {} THEN Issue("caption_inference_failed", "caption")
  ELSE Written(Mapped(shown, LAMBDA t : Via(Shown[format.escapes], t)))

(* Classify: the tags of a text.                                           *)
WithoutTerminalPeriod(text) ==
  IF text # <<>> /\ Last(text) \in DOMAIN Clipped
  THEN Append(Front(text), Clipped[Last(text)]) ELSE text
WithoutTriggerPrefix(ordered, triggers) ==
  LET terms == Mapped(triggers, LAMBDA t : Via(Recovered, t)) IN
  IF IsPrefix(terms, ordered) THEN SubSeq(ordered, Len(terms) + 1, Len(ordered)) ELSE ordered
ReadTags(words) == SelectSeq(Mapped(words, LAMBDA w : Via(Recovered, w)), LAMBDA t : t # "")
\* Mutant of ParseTagText: repeated tags are dropped before the triggers are.
ParseTagTextDistinctFirst(text, format, provenance) ==
  IF provenance = "module1_written"
  THEN WithoutTriggerPrefix(Distinct(ReadTags(WithoutTerminalPeriod(text))), format.triggers)
  ELSE Distinct(ReadTags(text))
ParseTagText(text, format, provenance) ==
  IF provenance = "module1_written"
  THEN Distinct(WithoutTriggerPrefix(ReadTags(WithoutTerminalPeriod(text)), format.triggers))
  ELSE Distinct(ReadTags(text))

(* Classify: the nine fields, with the evidence the count is decided from. *)
PreservedCountTags == DOMAIN E621Rules \cup {"solo_focus", "duo_focus", "trio_focus"}
E621Projection(tags) ==
  LET Canonical(t) == IF t \in DOMAIN E621Index THEN E621Index[t].canonical ELSE t
      BucketOf(t) ==
        CASE t \notin DOMAIN E621Index -> IF t \in PreservedCountTags THEN "tags" ELSE "drop"
          [] Canonical(t) \in LoreTags \cup NonIdentityTags -> "drop"
          [] OTHER -> IF E621Index[t].bucket = "count" THEN "tags" ELSE E621Index[t].bucket
      In(b) == SelectSeq(tags, LAMBDA t : BucketOf(t) = b)
      Output(t) == IF t \in DOMAIN E621Index THEN E621Index[t].output ELSE t
      Outputs(b) == Distinct(Mapped(In(b), Output))
  IN [json |-> [EmptyJson EXCEPT !.character = Outputs("character"), !.appearance = Outputs("appearance"),
                                 !.tags = Outputs("tags"), !.environment = Outputs("environment")],
      evidence |-> Distinct(FlattenSeq(Mapped(tags, LAMBDA t : <<t, Canonical(t)>>))),
      ids |-> Cardinality({Canonical(t) : t \in ToSet(In("character"))})]
DanbooruProjection(tags) ==
  LET BucketOf(t) == IF t \in DOMAIN DanbooruIndex THEN DanbooruIndex[t] ELSE "tags"
      In(b) == Distinct(SelectSeq(tags, LAMBDA t : BucketOf(t) = b))
  IN [json |-> [EmptyJson EXCEPT !.character = In("character"), !.series = In("series"),
                                 !.appearance = In("appearance"), !.tags = In("tags"),
                                 !.environment = In("environment")],
      evidence |-> Distinct(tags), ids |-> 0]

CountText(value) == IF value = None THEN <<>> ELSE <<Word(value)>>
Projection(tags, profile) == IF profile = "e621" THEN E621Projection(tags) ELSE DanbooruProjection(tags)
Decision(count, p, cfg) ==
  IF cfg.profile = "e621" THEN DecideCount(count, p.evidence, p.ids, WikiTags, cfg.overwriteCount)
  ELSE DecideDanbooruCount(count, p.evidence, WikiTags, cfg.overwriteCount)
Judged(json, decided) ==
  IF \A f \in {"character", "series", "appearance", "tags", "environment"} : json[f] = <<>>
  THEN Issue("classify_no_writable_tags", "")
  ELSE IF decided.block # None THEN Issue(decided.block, "")
  ELSE Result([json EXCEPT !.count = CountText(decided.value)])
Counted(p, count, cfg) == Judged(p.json, Decision(count, p, cfg))
\* item = [text, provenance, count]; count is the count of the existing JSON.
Classified(item, cfg) ==
  Counted(Projection(ParseTagText(item.text, cfg.format, item.provenance), cfg.profile), item.count, cfg)

\* The JSON the core writes from the worker's projection.
ComposeClassifyJson(file, projection, cfg, original) ==
  LET old == file.json
      fresh == IF file.form = "raw"
               THEN [projection EXCEPT !.artist = old.artist, !.character = old.character]
               ELSE IF file.form = "plain" /\ "character" \in old.has
               THEN [projection EXCEPT !.character = old.character]
               ELSE projection
      kept == /\ file.form = "plain"
              /\ ~cfg.rebuild
              /\ ~cfg.overwriteJson
      written == IF kept THEN [old EXCEPT !.count = projection.count, !.has = @ \cup {"count"}] ELSE fresh
  IN IF cfg.input = "nl" /\ file.form # "raw"
     THEN [written EXCEPT !.nl = original, !.has = @ \cup {"nl"}] ELSE written

-----------------------------------------------------------------------------
(* Replace.                                                                *)
\* "" or one of the four words, and nothing else.
CleanCount(parts) == parts = <<>> \/ \E c \in Counts : parts = <<Word(c)>>
\* What both sides of the replace protocol accept as a projection.
CleanProjection(json) ==
  /\ json.has = Fields
  /\ CleanCount(json.count)
  /\ \A f \in ArrayFields : IsInjective(json[f]) /\ ToSet(json[f]) \cap DOMAIN Untidy = {}

PriorityFields == <<"quality", "character", "appearance", "tags", "environment">>
\* Mutant of Replacements: nothing the round has put in is remembered.
ReplacementsRepeated(json) ==
  LET Round(f) == FlattenSeq(Mapped(json[f], LAMBDA t :
                    IF t \in DOMAIN ReplaceRules THEN ReplaceRules[t] ELSE <<t>>))
  IN {Result([json EXCEPT !.quality = Round("quality"), !.character = Round("character"),
                          !.appearance = Round("appearance"), !.tags = Round("tags"),
                          !.environment = Round("environment")])}
\* The results of one replacement round: one per way the coin falls for the
\* candidates that may become "furry".  A tag the round has already put into
\* the sample, in whatever field, is not put there again.
Replacements(json) ==
  LET candidates == FlattenSeq(Mapped(PriorityFields, LAMBDA f :
                      FlattenSeq(Mapped(json[f], LAMBDA t :
                        Mapped(IF t \in DOMAIN ReplaceRules THEN ReplaceRules[t] ELSE <<t>>,
                               LAMBDA c : [field |-> f, tag |-> c])))))
      Put(s, f, t) == IF FoldedTag(t) \in s.seen THEN s
                      ELSE [json |-> [s.json EXCEPT ![f] = Append(@, t)], seen |-> s.seen \cup {FoldedTag(t)}]
      Faces(t) == IF t \in AnthroTags THEN {t, "furry"} ELSE {t}
      emptied == [json EXCEPT !.quality = <<>>, !.character = <<>>, !.appearance = <<>>,
                              !.tags = <<>>, !.environment = <<>>]
      Rounds == FoldLeft(LAMBDA states, c : {Put(s, c.field, t) : s \in states, t \in Faces(c.tag)},
                         {[json |-> emptied, seen |-> {}]}, candidates)
  IN {Result(s.json) : s \in Rounds}

-----------------------------------------------------------------------------
(* Dropout.  draw = the decisions the sample's seed gives.                 *)
Business(json) == json.has = Fields /\ CleanCount(json.count)
MergeArtists(existing, appended) == DistinctBy(Append(existing, appended), FoldedTag)
Policed(image, file, cfg, draw) ==
  LET json == file.json
      HasAppearance == json.appearance # <<>>
      artist == IF draw.artist THEN <<>> ELSE MergeArtists(json.artist, cfg.artist)
      quality == IF draw.quality THEN <<>> ELSE draw.score
      both == HasAppearance /\ json.nl
  IN IF file.form = "missing" THEN Issue("policy_json_missing", "classify")
     ELSE IF file.form = "broken" THEN Issue("policy_json_invalid", "classify")
     ELSE IF cfg.quality /\ image = "changed" THEN Issue("policy_source_fingerprint_mismatch", "dropout")
     ELSE IF cfg.quality /\ image = "undecodable" THEN Issue("policy_image_decode_failed", "dropout")
     ELSE IF file.form = "raw" \/ ~Business(json) THEN Issue("policy_json_invalid", "classify")
     ELSE Result([json EXCEPT
            !.artist = IF cfg.artist # "" THEN artist ELSE @,
            !.quality = IF cfg.quality THEN quality ELSE @,
            !.nl = @ /\ ~(cfg.coupled /\ both /\ draw.coupled = "drop_nl"),
            !.appearance = IF cfg.coupled /\ both /\ draw.coupled = "drop_appearance" THEN <<>> ELSE @])

ProtectedFields == {"count", "character", "series", "tags", "environment"}

-----------------------------------------------------------------------------
(* Export.                                                                 *)
Tidied(s) == DistinctBy(FlattenSeq(Mapped(s, LAMBDA t : IF t \in DOMAIN Untidy THEN Untidy[t] ELSE <<t>>)), FoldedTag)
Normalized(json) ==
  [json EXCEPT !.quality = Tidied(@), !.appearance = Tidied(@), !.tags = Tidied(@),
               !.environment = Tidied(@), !.character = Tidied(@), !.has = Fields]
\* The tags of a field; a series or an artist is one value, commas and all.
ValuesOf(json, f) == IF f \in ArrayFields \cup {"character"} THEN {<<t>> : t \in ToSet(json[f])} ELSE {json[f]} \ {<<>>}
TagFields == ArrayFields \cup TextFields
\* Two fields share a form of one of their tags.
Clash(forms) == \E f, g \in TagFields : f # g /\ forms[f] \cap forms[g] # {}
RawForm(v) == Mapped(v, FoldedTag)
DisplayForm(v, escapes) == Mapped(v, LAMBDA t : FoldedTag(Via(Displayed[escapes], t)))

\* The errors of a normalised JSON, values = its tags.
SemanticErrors(json, values, cfg) ==
  LET flat == cfg.output # "json"
      Display(v) == DisplayForm(v, cfg.format.escapes)
  IN {e \in {"count_invalid"} : ~CleanCount(json.count)}
     \cup {e \in {"cross_field_tag_collision"} :
             Clash([f \in TagFields |-> {RawForm(v) : v \in ValuesOf(json, f)}])}
     \cup {e \in {"tag_not_flat_txt_representable"} : flat /\ \E v \in values : Len(v) > 1}
     \cup {e \in {"formatted_tag_collision"} :
             flat /\ Clash([f \in TagFields |-> {Display(v) : v \in ValuesOf(json, f)}])}
     \cup {e \in {"trigger_tag_collision"} :
             flat /\ \E t \in ToSet(cfg.format.triggers), v \in values : Display(<<t>>) = Display(v)}
     \cup {e \in {"payload_all_empty"} : values = {} /\ json.count = <<>> /\ ~json.nl}
\* The codes of the field errors; a raw e621 export has its groups as extra fields.
FieldErrors(file, json, cfg) ==
  CASE file.form = "missing" -> {"json_missing_or_blank"}
    [] file.form \in {"broken", "doubled"} -> {"json_syntax_invalid"}
    [] file.form = "raw" -> {"extra_field"}
    [] OTHER -> {e \in {"extra_field"} : "extra" \in file.json.has}
                  \cup SemanticErrors(json, UNION {ValuesOf(json, f) : f \in TagFields}, cfg)

ClassifyRepairCodes == {"json_missing_or_blank", "count_invalid", "cross_field_tag_collision", "payload_all_empty",
                        "tag_not_flat_txt_representable"}
RepairOf(errors, enabled) == IF errors \subseteq ClassifyRepairCodes /\ "classify" \in enabled THEN "classify" ELSE ""

SectionOrder == <<"quality", "count", "character", "series", "artist", "appearance", "tags", "environment">>
\* The exported text: the triggers, then the words of every field (the prose
\* and the final period that follow them are left out).
FlatText(json, format) ==
  LET Words(f) == IF f = "count" THEN Mapped(json.count, LAMBDA p : p.word) ELSE json[f]
  IN Mapped(format.triggers \o FlattenSeq(Mapped(SectionOrder, Words)), LAMBDA t : Via(Displayed[format.escapes], t))

\* The artifacts of the job's output format, or the issue with its field errors.
Delivered(json, errors, cfg) ==
  IF errors # {} THEN Issue("final_json_invalid", RepairOf(errors, cfg.enabled))
  ELSE [Result(json) EXCEPT !.text = IF cfg.output = "json" THEN <<>> ELSE FlatText(json, cfg.format)]
Exported(file, cfg) == Delivered(Normalized(file.json), FieldErrors(file, Normalized(file.json), cfg), cfg)
=============================================================================

----------------------------- MODULE CountRules -----------------------------
(***************************************************************************)
(* The subject count of an image ("solo", "duo", "trio", "group" or none)  *)
(* as the classify worker decides it: from the count the existing JSON     *)
(* gives, from the count tags whose wiki page the resource holds, and, for *)
(* e621, from lower bounds.  Pure operators; None stands for "no value".   *)
(***************************************************************************)
EXTENDS Integers, Sequences, SequencesExt

None == ""
Counts == {"solo", "duo", "trio", "group"}
CountRank == ("" :> 0) @@ ("solo" :> 1) @@ ("duo" :> 2) @@ ("trio" :> 3) @@ ("group" :> 4)
AtLeast(a, b) == IF CountRank[a] >= CountRank[b] THEN a ELSE b
\* The word for a number of subjects.
Bucket(n) == IF n = 0 THEN None ELSE IF n <= 3 THEN <<"solo", "duo", "trio">>[n] ELSE "group"

E621Rules ==
  ("solo" :> [value |-> "solo", priority |-> 100]) @@ ("duo" :> [value |-> "duo", priority |-> 100])
  @@ ("trio" :> [value |-> "trio", priority |-> 100]) @@ ("group" :> [value |-> "group", priority |-> 90])
  @@ ("large_group" :> [value |-> "group", priority |-> 80]) @@ ("crowd" :> [value |-> "group", priority |-> 70])
\* Two of each of the tags that stand for a pair and for a sheet of one subject.
RelationTags == {"anthro_on_anthro", "human_on_human"}
SheetTags == {"model_sheet", "multiple_views"}

Families == {"girl", "boy", "other"}
Rule(family, min, open) == [family |-> family, min |-> min, open |-> open]
\* The exact tags of the frozen rule set: 1girl, 2girls .. 5girls, 6+girls and so on.
ExactRules ==
  ("1girl" :> Rule("girl", 1, FALSE)) @@ ("2girls" :> Rule("girl", 2, FALSE)) @@ ("3girls" :> Rule("girl", 3, FALSE))
  @@ ("4girls" :> Rule("girl", 4, FALSE)) @@ ("5girls" :> Rule("girl", 5, FALSE)) @@ ("6+girls" :> Rule("girl", 6, TRUE))
  @@ ("1boy" :> Rule("boy", 1, FALSE)) @@ ("2boys" :> Rule("boy", 2, FALSE)) @@ ("3boys" :> Rule("boy", 3, FALSE))
  @@ ("4boys" :> Rule("boy", 4, FALSE)) @@ ("5boys" :> Rule("boy", 5, FALSE)) @@ ("6+boys" :> Rule("boy", 6, TRUE))
  @@ ("1other" :> Rule("other", 1, FALSE)) @@ ("2others" :> Rule("other", 2, FALSE)) @@ ("3others" :> Rule("other", 3, FALSE))
  @@ ("4others" :> Rule("other", 4, FALSE)) @@ ("5others" :> Rule("other", 5, FALSE)) @@ ("6+others" :> Rule("other", 6, TRUE))
LowerRules ==
  ("multiple_girls" :> Rule("girl", 2, TRUE)) @@ ("multiple_boys" :> Rule("boy", 2, TRUE))
  @@ ("multiple_others" :> Rule("other", 2, TRUE))
FallbackTags == {"solo"}
NonDecisiveTags == {"solo_focus"}

\* A JSON count as the list of its parts ("2 girls, 1 boy"): a part is a word
\* of the alias table, a number (with or without "+"), or neither.
Word(w) == [word |-> w, n |-> 0, plus |-> FALSE]
Number(n, plus) == [word |-> None, n |-> n, plus |-> plus]
Unreadable == [word |-> None, n |-> 0, plus |-> FALSE]

\* The count a JSON count stands for; a mixture that disagrees stands for none.
NormalizeOriginal(parts) ==
  LET words == {p.word : p \in ToSet(parts)} \ {None}
      numbers == SelectSeq(parts, LAMBDA p : p.word = None)
      total == FoldLeft(LAMBDA sum, p : sum + p.n, 0, numbers)
      numeric == IF \E p \in ToSet(numbers) : p.plus THEN "group" ELSE Bucket(total)
  IN IF \/ \E p \in ToSet(numbers) : p.n = 0 \/ (p.plus /\ p.n < 4)
        \/ Cardinality(words) > 1
        \/ (words # {} /\ numeric # None /\ words # {numeric})
     THEN None
     ELSE IF words # {} THEN CHOOSE w \in words : TRUE ELSE numeric

\* e621: the count tag of highest priority, the earliest of them, whose wiki
\* page is known; trio and group tags agree with each other.
ResolveE621(tags, wiki) ==
  LET found == SelectSeq(tags, LAMBDA t : t \in DOMAIN E621Rules /\ t \in wiki)
      Before(i, j) == \/ E621Rules[found[i]].priority > E621Rules[found[j]].priority
                      \/ E621Rules[found[i]].priority = E621Rules[found[j]].priority /\ i <= j
      best == found[CHOOSE i \in DOMAIN found : \A j \in DOMAIN found : Before(i, j)]
      value == E621Rules[best].value
  IN IF found = <<>>
     THEN [value |-> None, conflict |-> FALSE, bounds |-> {}]
     ELSE [value |-> value, bounds |-> {},
           conflict |-> \E t \in ToSet(found) : /\ E621Rules[t].value # value
                                                /\ ~({E621Rules[t].value, value} \subseteq {"trio", "group"})]

\* Mutant of ResolveDanbooru: an exact tag below a lower bound of its family counts.
ResolveDanbooruBelow(tags, wiki) ==
  LET all == ToSet(tags) \cap wiki
      exact == all \cap DOMAIN ExactRules
      Free(t) == \A e \in exact : ExactRules[e].family # LowerRules[t].family
      open == \/ \E a, b \in exact : a # b /\ ExactRules[a].family = ExactRules[b].family
              \/ \E t \in all \cap DOMAIN LowerRules : Free(t)
              \/ all \cap NonDecisiveTags # {}
  IN [value |-> IF exact = {} \/ open THEN None
                ELSE Bucket(MapThenSumSet(LAMBDA t : ExactRules[t].min, exact)),
      conflict |-> FALSE, bounds |-> {}]
\* Danbooru: the sum over the families, when every family is exact and no lower
\* bound, non-decisive tag or second tag of a family leaves it open.
ResolveDanbooru(tags, wiki) ==
  LET all == ToSet(tags) \cap wiki
      ExactOf(f) == {t \in all \cap DOMAIN ExactRules : ExactRules[t].family = f}
      clash == {f \in Families : Cardinality(ExactOf(f)) > 1}
      exact == {t \in all \cap DOMAIN ExactRules : ExactRules[t].family \notin clash}
      lower == all \cap DOMAIN LowerRules
      Fits(t) == \E e \in exact : /\ ExactRules[e].family = LowerRules[t].family
                                  /\ ExactRules[e].min >= LowerRules[t].min
      short == {t \in lower : \E e \in exact : /\ ExactRules[e].family = LowerRules[t].family
                                               /\ ExactRules[e].min < LowerRules[t].min}
      unresolved == \/ clash # {}
                    \/ \E t \in lower : ~Fits(t)
                    \/ all \cap NonDecisiveTags # {}
      total == MapThenSumSet(LAMBDA t : ExactRules[t].min, exact)
      counted == IF exact = {} \/ unresolved THEN None
                 ELSE IF \E t \in exact : ExactRules[t].open THEN "group"
                 ELSE Bucket(total)
      alone == all \cap FallbackTags # {}
      denied == alone /\ counted \notin {None, "solo"}
  IN [value |-> IF denied THEN None
                ELSE IF alone /\ counted = None /\ ~unresolved /\ lower = {} THEN "solo"
                ELSE counted,
      conflict |-> clash # {} \/ short # {} \/ denied,
      bounds |-> {"danbooru_" \o LowerRules[t].family : t \in lower}]

\* Which of the two sources gives the count: the tags when the job overwrites
\* it, else the JSON's own, else the tags.
SelectBase(original, resolved, overwrite) ==
  IF overwrite /\ resolved # None THEN [value |-> resolved, source |-> "wiki_tags"]
  ELSE IF original # None THEN [value |-> original, source |-> "original_json"]
  ELSE IF resolved # None THEN [value |-> resolved, source |-> "wiki_tags"]
  ELSE [value |-> None, source |-> "none"]

\* A decision: the count and where it comes from.
Verdict(value, base, resolved, original, bounds, block) ==
  [value |-> value, source |-> base.source, bounds |-> bounds, block |-> block,
   conflict |-> \/ original # None /\ resolved.value # None /\ original # resolved.value
                \/ resolved.conflict]

\* e621: the base, raised to what the characters and the pair tags show.
Raised(base, people, couple, resolved, original) ==
  Verdict(AtLeast(base.value, AtLeast(people, couple)), base, resolved, original,
          {b \in {"character"} : CountRank[people] > CountRank[base.value]}
            \cup {b \in {"e621_relationship"} : CountRank[couple] > CountRank[base.value]},
          None)
Weighed(base, tags, ids, wiki, resolved, original) ==
  LET sheet == ToSet(tags) \cap SheetTags # {}
      related == \E t \in ToSet(tags) : t \in RelationTags /\ t \in wiki
  IN IF sheet /\ ids = 1 /\ CountRank[base.value] >= CountRank["duo"]
     THEN Verdict(base.value, base, resolved, original, {}, "count_sheet_multi_conflict")
     ELSE Raised(base, IF ids > 4 THEN "group" ELSE Bucket(ids),
                 IF related /\ ~(sheet /\ ids <= 1) THEN "duo" ELSE None, resolved, original)
\* given = the JSON has a count.
DecideFrom(given, original, resolved, tags, ids, wiki, overwrite) ==
  IF given /\ original = None /\ resolved.value = None
  THEN Verdict(None, [value |-> None, source |-> "none"], resolved, original, {}, "classify_original_count_unresolved")
  ELSE Weighed(SelectBase(original, resolved.value, overwrite), tags, ids, wiki, resolved, original)
\* parts = <<>> when the JSON gives no count.
DecideCount(parts, tags, ids, wiki, overwrite) ==
  DecideFrom(parts # <<>>, NormalizeOriginal(parts), [ResolveE621(tags, wiki) EXCEPT !.conflict = FALSE],
             tags, ids, wiki, overwrite)

DecideDanbooruFrom(original, resolved, base) ==
  Verdict(base.value, base, resolved, original, resolved.bounds, None)
DecideDanbooruWith(original, resolved, overwrite) ==
  DecideDanbooruFrom(original, resolved, SelectBase(original, resolved.value, overwrite))
DecideDanbooruCount(parts, tags, wiki, overwrite) ==
  DecideDanbooruWith(NormalizeOriginal(parts), ResolveDanbooru(tags, wiki), overwrite)

-----------------------------------------------------------------------------
(* Reference: what the Danbooru count tags say of an image.  A family no tag *)
(* speaks of is absent from it.                                              *)
MaxOfFamily == 7
Worlds(tags) ==
  {w \in [Families -> 0..MaxOfFamily] :
     /\ \A t \in tags \cap DOMAIN ExactRules :
          LET r == ExactRules[t] IN IF r.open THEN w[r.family] >= r.min ELSE w[r.family] = r.min
     /\ \A t \in tags \cap DOMAIN LowerRules : w[LowerRules[t].family] >= LowerRules[t].min
     /\ tags \cap FallbackTags # {} => w["girl"] + w["boy"] + w["other"] = 1
     /\ \A f \in Families :
          w[f] > 0 => \/ tags \cap FallbackTags # {}
                      \/ \E t \in tags \cap DOMAIN ExactRules : ExactRules[t].family = f
                      \/ \E t \in tags \cap DOMAIN LowerRules : LowerRules[t].family = f}
BucketsOf(worlds) == {Bucket(w["girl"] + w["boy"] + w["other"]) : w \in worlds}
=============================================================================

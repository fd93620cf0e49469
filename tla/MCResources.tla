----------------------------- MODULE MCResources -----------------------------
(***************************************************************************)
(* Values for Resources: a library with a package of every kind, the       *)
(* library with one thing about one package altered, and configurations.   *)
(***************************************************************************)
EXTENDS WorkerManifests

\* A package of these contents, file by file, as its manifest lists them.
OnDisk(data) == [size |-> 10, stamp |-> 0, data |-> data]
Listed(contents) == [path \in DOMAIN contents |-> [sizeBytes |-> 10, sha256 |-> contents[path]]]
Whole(manifest, contents) ==
  [manifest |-> manifest, dirs |-> {}, disk |-> [path \in DOMAIN contents |-> OnDisk(contents[path])]]
Flat(roles, names) == [role \in roles |-> <<names[role]>>]

Release == [bytes |-> 20, trimmed |-> TRUE, pinned |-> TRUE]
Manifest(kind, version, profile, id, format, entrypoints, contents, metadata) ==
  [schemaVersion |-> version, kind |-> kind, resourceId |-> id, resourceVersion |-> Release,
   profile |-> profile, displayName |-> {"zh-CN", "en"}, description |-> "text", runtimeFormat |-> format,
   entrypoints |-> entrypoints, files |-> Listed(contents), metadata |-> metadata, documentation |-> <<>>]
Licensed == [mode |-> "local-only", sourceUrl |-> "url", licenseUrl |-> "url"]
Unverified == [mode |-> "local-only", sourceUrl |-> "url", licenseStatus |-> "unverified"]

\* Each role's file has the name of the role.
Roles(roles) == [role \in roles |-> <<role>>]
Package1(kind, id, contents, metadata) ==
  Whole(Manifest(kind, 1, "e621", id, KIND_LAYOUT[kind].format, Roles(KIND_LAYOUT[kind].roles), contents, metadata),
        contents)
Package2(kind, id, format, distribution, contents, metadata) ==
  LET m == Manifest(kind, 2, "danbooru", id, format, Roles(V2_LAYOUTS[kind][format]), contents, metadata)
  IN Whole(m @@ [distribution |-> distribution], contents)

Numbers(names) == [path \in {<<name>> : name \in names} |-> 1]

Thresholds(categories, value) == <<"thresholds">> :> [category \in categories |-> value]
Tags == [labels |-> {"wolf", "fox"}, sound |-> TRUE]
Tagger621 ==
  Package1("tagging-model", "tagger",
           (<<"tags">> :> Tags) @@ Thresholds(EXPECTED_CATEGORIES, 50) @@ Numbers({"model", "modelData", "preprocess"}),
           [tagCount |-> 2, categories |-> <<"general", "character", "species", "rating">>])
ClTags ==
  [tagCount |-> 9, vocabularyFingerprint |-> 5,
   modelCategories |-> <<"General", "Character", "Copyright", "Meta", "Rating", "Quality">>,
   adjustableCategories |-> <<"general", "character", "copyright">>,
   excludedCategories |-> <<"meta", "rating", "quality">>]
WdTags ==
  [tagCount |-> 8, vocabularyFingerprint |-> 6, modelCategories |-> <<"General", "Character", "Rating">>,
   adjustableCategories |-> <<"general", "character">>, excludedCategories |-> <<"rating">>]
TaggerCl ==
  Package2("tagging-model", "cl", CL, Licensed,
           (<<"vocabulary">> :> 5) @@ Thresholds(Adapters[CL].adjustable, 55)
           @@ Numbers(V2_LAYOUTS["tagging-model"][CL]), ClTags)
TaggerWd ==
  Package2("tagging-model", "wd", WD, Licensed,
           (<<"selectedTags">> :> 6) @@ Thresholds(Adapters[WD].adjustable, 35)
           @@ Numbers(V2_LAYOUTS["tagging-model"][WD]), WdTags)

Wiki(profile, id) ==
  [application |-> WikiApplicationId(profile), version |-> 1, schema |-> 7, resource |-> id, source |-> "wiki",
   titles |-> <<1, 2>>]
WikiMetadata(profile, entries) ==
  [dictionaryEntryCount |-> entries, wikiDataSourceId |-> "wiki", wikiApplicationId |-> WikiApplicationId(profile),
   wikiSchemaVersion |-> 1, wikiSchemaFingerprint |-> 7, wikiPageTitles |-> <<1, 2>>]
Index621(id) ==
  Package1("classification-index", id,
           (<<"dictionary">> :> [source |-> "e621", count |-> 3, entries |-> {"wolf", "fox", "canine"}, sound |-> TRUE])
           @@ (<<"countDatabase">> :> Wiki("e621", id)), WikiMetadata("e621", 3))
Snapshot ==
  [catalogSnapshot |-> "day", catalogSourceUrl |-> "url", catalogSourceSizeBytes |-> 4, catalogSourceSha256 |-> 8,
   supportedVocabularyFingerprints |-> <<5, 6>>]
IndexDanbooru ==
  Package2("classification-index", "danbooru", DANBOORU_INDEX, [mode |-> "bundled"],
           (<<"dictionary">> :> [source |-> "danbooru", count |-> 1, entries |-> {"miku"}, sound |-> TRUE, provenance |-> Snapshot])
           @@ (<<"countDatabase">> :> Wiki("danbooru", "danbooru")) @@ Numbers({"countRules"}),
           WikiMetadata("danbooru", 1) @@ Snapshot
           @@ [wikiSourceUrl |-> "url", wikiSourceSizeBytes |-> 4, wikiSourceSha256 |-> 8])

Row(source, action, parts) == [source |-> source, action |-> action, parts |-> parts]
Csv(rows) == [header |-> TRUE, rows |-> rows]
Rows == <<Row("a", "keep", <<"tag">>), Row(":|", "keep", <<":", "">>), Row("b", "replace", <<"tag", "padded">>),
          Row("c", "drop", <<"">>)>>
Replacement ==
  Package1("replacement-index", "csv", <<"index">> :> Csv(Rows),
           [ruleCount |-> 4, actionCounts |-> [keep |-> 2, replace |-> 1, drop |-> 1], pipeReplacementCount |-> 1,
            literalKeepPipeCount |-> 1])
Scorer == Package1("dropout-model", "scorer", Numbers({"clip", "fusion", "jtp3", "waifu"}), <<>>)

OcrContents == [path \in Range(OCR_ENTRYPOINTS) \union {<<"det", "weights">>} |-> 1]
OcrPackage ==
  LET m == Manifest("ocr-model", 2, "shared", OCR_MODEL.resourceId, OCR_MODEL.format, OCR_ENTRYPOINTS, OcrContents,
                    OCR_MODEL.metadata)
  IN [Whole(m @@ [distribution |-> Unverified], OcrContents) EXCEPT !.dirs = {<<"det">>, <<"rec">>, <<"ori">>}]

QWEN == "tokenizer-qwen3-vl-4b-krea2-v1"
Stamped(m) == [m EXCEPT !.fingerprint = Without(m, {"fingerprint"})]
TokenizerPackage ==
  Whole(Stamped(
    [schemaVersion |-> 3, kind |-> "tokenizer", resourceId |-> QWEN, owner |-> "token-budget", profile |-> "shared",
     resourceVersion |-> Release, officialModelId |-> TOKENIZER_IDENTITIES[QWEN], revision |-> "commit",
     tokenizerFamily |-> "qwen3", contextLimit |-> 512, rootRelativePath |-> <<"tokenizers", QWEN>>,
     files |-> <<[path |-> <<"config.json">>, sizeBytes |-> 10, sha256 |-> 1],
                 [path |-> <<"tokenizer.json">>, sizeBytes |-> 10, sha256 |-> 1]>>,
     fingerprint |-> <<>>,
     distribution |-> [mode |-> "local-only", sourceUrl |-> TOKENIZER_IDENTITIES[QWEN], licenseStatus |-> "unverified"]]),
    Numbers({"config.json", "tokenizer.json"}))

Home(kind) == <<Directory(kind), "home">>
At == [tagger |-> Home("tagging-model"), cl |-> <<"tagging-models", "cl">>, index |-> Home("classification-index"),
       danbooru |-> <<"classification-indexes", "danbooru">>, csv |-> Home("replacement-index"),
       scorer |-> Home("dropout-model"), ocr |-> <<"ocr-models", OCR_MODEL.resourceId>>,
       tokenizer |-> <<"tokenizers", QWEN>>]
Library ==
  (At.tagger :> Tagger621) @@ (At.cl :> TaggerCl) @@ (At.index :> Index621(FALLBACK)) @@ (At.danbooru :> IndexDanbooru)
  @@ (At.csv :> Replacement) @@ (At.scorer :> Scorer) @@ (At.ocr :> OcrPackage) @@ (At.tokenizer :> TokenizerPackage)
E621Library == Restrict(Library, DOMAIN Library \ {At.cl, At.danbooru})
Defaults ==
  [taggingModel |-> "tagger", classificationIndex |-> FALLBACK, replacementIndex |-> "csv", dropoutModel |-> "scorer"]
Custom == [index |-> Index621("mine"), csv |-> Csv(Rows)]

-----------------------------------------------------------------------------
Job ==
  [caption |-> [enabled |-> TRUE, thresholdMode |-> "model_default"],
   classify |-> [enabled |-> TRUE, indexMode |-> "bundled", resourceId |-> FALLBACK],
   replace |-> [enabled |-> TRUE, indexMode |-> "bundled"],
   ocr |-> [enabled |-> TRUE, resourceId |-> OCR_MODEL.resourceId],
   tokenBudget |-> [enabled |-> TRUE, maxTokens |-> 77, resourceId |-> QWEN],
   dropout |-> [enabled |-> TRUE, artist |-> TRUE], quality |-> [enabled |-> TRUE],
   countReview |-> [enabled |-> TRUE]]
With(section, fields) == [Job EXCEPT ![section] = fields @@ @]
CustomJob ==
  [Job EXCEPT !.classify = [enabled |-> TRUE, indexMode |-> "custom", customResourcePath |-> "dir"],
              !.replace = [enabled |-> TRUE, indexMode |-> "custom", customIndexPath |-> "file"]]
Danbooru(tagger, index) ==
  [Job EXCEPT !.caption = @ @@ [resourceId |-> tagger], !.classify.resourceId = index]
ClJob == Danbooru("cl", "danbooru")
QualityOff == [Job EXCEPT !.quality.enabled = FALSE]
CaptionOnly ==
  [Job EXCEPT !.classify.enabled = FALSE, !.replace.enabled = FALSE, !.ocr.enabled = FALSE, !.countReview.enabled = FALSE,
              !.tokenBudget.enabled = FALSE, !.dropout.enabled = FALSE]
Sparse == [CaptionOnly EXCEPT !.caption.enabled = FALSE, !.replace.enabled = TRUE]

\* Of its modules, only these.
Only(names, job) ==
  [name \in DOMAIN job |-> IF name \in {"quality"} \union names THEN job[name] ELSE [job[name] EXCEPT !.enabled = FALSE]]

PerCategory(names) == With("caption", [thresholdMode |-> "per_category", categoryThresholds |-> names])
OtherJobs ==
  {Danbooru("cl", FALLBACK), Danbooru("tagger", "danbooru"), CaptionOnly, Sparse,
   PerCategory({"general", "character", "species", "rating"}), PerCategory({"general"}), PerCategory({}),
   With("caption", [thresholdMode |-> "uniform", uniformThreshold |-> 1]), With("caption", [thresholdMode |-> "uniform"]),
   With("caption", [resourceFingerprint |-> "mine"]), With("caption", [resourceId |-> Malformed]),
   With("caption", [resourceId |-> "none"]), With("caption", [colour |-> "red"]),
   With("classify", [enabled |-> FALSE]), With("classify", [indexMode |-> "none"]),
   With("classify", [customResourcePath |-> "dir"]), With("ocr", [resourceId |-> "tagger"]),
   With("tokenBudget", [maxTokens |-> 0]), With("tokenBudget", [maxTokens |-> 600]),
   With("replace", [indexMode |-> "custom"]), With("replace", [customIndexPath |-> "file"]),
   With("quality", [resourceId |-> "tagger"]),
   [CustomJob EXCEPT !.classify = @ @@ [resourceId |-> "mine"]]}

-----------------------------------------------------------------------------
(* One thing about a package altered.                                      *)
Readme == <<"README.md">>
WithDocuments(p, documents) ==
  [p EXCEPT !.manifest.documentation = documents,
            !.disk = @ @@ [path \in ToSet(documents) \ DOMAIN @ |-> OnDisk(1)]]

(* The manifest, in any kind. *)
AnyManifest(m) ==
  {[m EXCEPT !.resourceVersion.bytes = n] : n \in {0, 300, 600}}
  \union {[m EXCEPT !.resourceVersion.trimmed = FALSE], [m EXCEPT !.resourceVersion.pinned = FALSE],
          [m EXCEPT !.schemaVersion = 4], [m EXCEPT !.kind = "other"], [m EXCEPT !.profile = "other"],
          [m EXCEPT !.resourceId = Malformed], m @@ [extra |-> "field"]}

CatalogManifests(m) ==
  AnyManifest(m)
  \union {[m EXCEPT !.displayName = {"en"}], [m EXCEPT !.runtimeFormat = "other"],
          [m EXCEPT !.entrypoints = Restrict(@, DOMAIN @ \ {CHOOSE role \in DOMAIN @ : TRUE})],
          [m EXCEPT !.documentation = [i \in 1..17 |-> Readme]],
          [m EXCEPT !.files = [path \in DOMAIN @ |-> [@[path] EXCEPT !.sizeBytes = 0]]]}
  \union (IF m.schemaVersion = 2
          THEN {[m EXCEPT !.distribution = d] :
                  d \in {[mode |-> "bundled"], Licensed, Unverified, [mode |-> "other", sourceUrl |-> "url"],
                         [Licensed EXCEPT !.sourceUrl = Malformed]}}
          ELSE {})

(* What lies in the directory. *)
Disks(p) ==
  LET path == CHOOSE q \in DOMAIN p.disk : TRUE
  IN {[p EXCEPT !.disk = @ @@ (Readme :> OnDisk(1))], [p EXCEPT !.dirs = @ \union {<<"empty">>}],
      [p EXCEPT !.disk = Restrict(@, DOMAIN @ \ {path})], [p EXCEPT !.disk[path].size = 11]}

TornNumbers(p) ==
  LET numbers == {path \in DOMAIN p.disk : path \notin {<<"tags">>, <<"thresholds">>, <<"dictionary">>, <<"countDatabase">>, <<"index">>}}
  IN {[p EXCEPT !.disk[path].data = 2] : path \in numbers}

(* Content and manifest agree on other data: a package built that way.     *)
Rebuild(p, path, data) ==
  [p EXCEPT !.disk[path].data = data, !.manifest.files[path].sha256 = data]

InFolder(p, role) ==
  LET old == p.manifest.entrypoints[role]
      new == <<"folder">> \o old
      Moved(f) == Restrict(f, DOMAIN f \ {old}) @@ (new :> f[old])
  IN [p EXCEPT !.manifest.entrypoints[role] = new, !.manifest.files = Moved(@), !.disk = Moved(@), !.dirs = {<<"folder">>}]

CatalogPackages(p) ==
  {[p EXCEPT !.manifest = m] : m \in CatalogManifests(p.manifest)} \union Disks(p) \union TornNumbers(p)
  \union {WithDocuments(p, d) : d \in {<<Readme>>, <<Readme, Readme>>, <<CHOOSE path \in DOMAIN p.disk : TRUE>>}}

TaggingPackages(p, categories) ==
  CatalogPackages(p) \union {[p EXCEPT !.manifest.metadata = m] : m \in categories} \union {InFolder(p, "model")}

Tagging621 ==
  TaggingPackages(Tagger621,
    {[Tagger621.manifest.metadata EXCEPT !.tagCount = n] : n \in {0, 3}}
    \union {[Tagger621.manifest.metadata EXCEPT !.categories = <<"general">>]})
  \union {Rebuild(Tagger621, <<"tags">>, [labels |-> labels, sound |-> TRUE]) : labels \in {{}, {"wolf"}, {"wolf", "dragon"}}}
  \union {[Rebuild(Tagger621, <<"tags">>, [labels |-> {"wolf", "fox", "canine"}, sound |-> TRUE]) EXCEPT !.manifest.metadata.tagCount = 3]}
  \union {[Tagger621 EXCEPT !.disk[<<"tags">>].data.labels = {"fox"}], Rebuild(Tagger621, <<"tags">>, [Tags EXCEPT !.sound = FALSE]),
          Rebuild(Tagger621, <<"preprocess">>, 2)}
  \union {Rebuild(Tagger621, <<"thresholds">>, t) :
            t \in {[c \in {"general"} |-> 50], [c \in EXPECTED_CATEGORIES |-> 101]}}

TaggingDanbooru ==
  LET m == TaggerCl.manifest.metadata
  IN TaggingPackages(TaggerCl,
       {[m EXCEPT !.tagCount = 0], [m EXCEPT !.modelCategories = <<"General", "General">>],
        [m EXCEPT !.adjustableCategories = <<"General">>], [m EXCEPT !.excludedCategories = <<"general">>],
        [m EXCEPT !.vocabularyFingerprint = 6], Without(m, {"tagCount"}), [m EXCEPT !.tagCount = 8],
        [m EXCEPT !.adjustableCategories = Append(@, "meta"), !.excludedCategories = Tail(@)]})
     \union {[Rebuild(TaggerCl, <<"vocabulary">>, n) EXCEPT !.manifest.metadata.vocabularyFingerprint = n] : n \in {6, 9}}
     \union {Rebuild(TaggerCl, <<"metadata">>, 2), Rebuild(TaggerCl, <<"thresholds">>, [c \in Adapters[CL].adjustable |-> 50])}

IndexPackages(p) ==
  LET wiki == p.disk[<<"countDatabase">>].data
      dictionary == p.disk[<<"dictionary">>].data
  IN CatalogPackages(p) \union {InFolder(p, "dictionary")}
     \union {[p EXCEPT !.manifest.metadata = m] :
               m \in {[p.manifest.metadata EXCEPT !.wikiApplicationId = 3], [p.manifest.metadata EXCEPT !.wikiSchemaVersion = 2],
                      [p.manifest.metadata EXCEPT !.wikiPageTitles = <<2, 1>>],
                      [p.manifest.metadata EXCEPT !.dictionaryEntryCount = 0], Without(p.manifest.metadata, {"wikiDataSourceId"})}}
     \* manifest and database agree on an application or a schema the worker does not know
     \union {[Rebuild(p, <<"countDatabase">>, [wiki EXCEPT !.application = 3]) EXCEPT !.manifest.metadata.wikiApplicationId = 3],
             [Rebuild(p, <<"countDatabase">>, [wiki EXCEPT !.version = 2]) EXCEPT !.manifest.metadata.wikiSchemaVersion = 2],
             Rebuild(p, <<"countDatabase">>, [wiki EXCEPT !.titles = <<1>>]),
             Rebuild(p, <<"dictionary">>, [dictionary EXCEPT !.count = 9]),
             Rebuild(p, <<"dictionary">>, [dictionary EXCEPT !.entries = {"wolf"}]),
             Rebuild(p, <<"dictionary">>, [dictionary EXCEPT !.entries = @ \union {"dragon"}]),
             Rebuild(p, <<"dictionary">>, [dictionary EXCEPT !.sound = FALSE]),
             Rebuild(p, <<"dictionary">>, [dictionary EXCEPT !.source = "other"])}
     \* a dictionary of another size, as the manifest says
     \union {[Rebuild(p, <<"dictionary">>, [dictionary EXCEPT !.entries = @ \union {"dragon"}, !.count = @ + 1])
               EXCEPT !.manifest.metadata.dictionaryEntryCount = @ + 1],
             \* the database and the manifest agree on other pages
             [Rebuild(p, <<"countDatabase">>, [wiki EXCEPT !.titles = <<1>>]) EXCEPT !.manifest.metadata.wikiPageTitles = <<1>>]}

IndexesDanbooru ==
  LET m == IndexDanbooru.manifest
      \* two roles that share one file
      shared == [role \in DOMAIN m.entrypoints |-> IF role = "countRules" THEN <<"countDatabase">> ELSE <<role>>]
  IN IndexPackages(IndexDanbooru)
     \union {Rebuild(IndexDanbooru, <<"countRules">>, 2)}
     \union {[IndexDanbooru EXCEPT !.manifest.entrypoints = shared,
                                   !.manifest.files = Restrict(@, Range(shared)), !.disk = Restrict(@, Range(shared))],
             [IndexDanbooru EXCEPT !.manifest.metadata.catalogSnapshot = "another day"],
             [IndexDanbooru EXCEPT !.manifest.metadata.supportedVocabularyFingerprints = <<6, 5>>]}

Counted(rows, metadata) == [Rebuild(Replacement, <<"index">>, Csv(rows)) EXCEPT !.manifest.metadata = metadata]
Csvs ==
  {[header |-> FALSE, rows |-> Rows], Csv(<<>>), Csv(Rows \o <<Row("a", "drop", <<"">>)>>)}
  \union {Csv(Rows \o <<row>>) :
            row \in {Row("", "drop", <<"">>), Row("d", "drop", <<"tag">>), Row("d", "keep", <<"">>), Row("d", "keep", <<"comma">>),
                     Row("d", "keep", <<"padded">>), Row("d", "replace", <<"tag", "">>), Row("d", "other", <<"tag">>),
                     Row("d", "keep", <<"tag">>), Row("d", "replace", <<":">>)}}
Replacements ==
  LET m == Replacement.manifest.metadata
  IN CatalogPackages(Replacement)
     \union {[Replacement EXCEPT !.manifest.metadata = n] :
               n \in {[m EXCEPT !.ruleCount = 5], [m EXCEPT !.pipeReplacementCount = 0], Without(m, {"ruleCount"})}}
     \union {Counted(csv.rows, [m EXCEPT !.ruleCount = Len(csv.rows),
                                          !.actionCounts = CsvStatistics(csv).actionCounts]) : csv \in {c \in Csvs : c.header}}

OcrPackages ==
  LET m == OcrPackage.manifest
      renamed == [OCR_ENTRYPOINTS EXCEPT !.recognition = <<"recognition", "inference.json">>]
      nested == [OCR_ENTRYPOINTS EXCEPT !.recognition = <<"det", "rec", "inference.json">>]
      Move(entrypoints) ==
        LET contents == [path \in Range(entrypoints) |-> 1]
        IN [OcrPackage EXCEPT !.manifest.entrypoints = entrypoints, !.manifest.files = Listed(contents),
                              !.disk = [path \in DOMAIN contents |-> OnDisk(1)],
                              !.dirs = {SubSeq(path, 1, Len(path) - 1) : path \in DOMAIN contents}]
  IN CatalogPackages(OcrPackage)
     \union {Move(renamed), Move(nested), Rebuild(OcrPackage, <<"det", "weights">>, 2),
             [OcrPackage EXCEPT !.manifest.metadata.inference.textDetLimitSideLen = 960]}

TokenizerPackages ==
  LET p == TokenizerPackage
      m == p.manifest
      edited == AnyManifest(m) \union
        {[m EXCEPT !.contextLimit = 64], [m EXCEPT !.contextLimit = 0], [m EXCEPT !.files = Reverse(@)], [m EXCEPT !.revision = Malformed],
         [m EXCEPT !.rootRelativePath = <<"tokenizers", "other">>], [m EXCEPT !.files = <<m.files[1]>>],
         [m EXCEPT !.distribution = Licensed], [m EXCEPT !.tokenizerFamily = "other"], [m EXCEPT !.officialModelId = "other"]}
  IN {[p EXCEPT !.manifest = Stamped(n)] : n \in edited} \union Disks(p) \union TornNumbers(p)
     \union {[p EXCEPT !.manifest.contextLimit = 100],
             [p EXCEPT !.disk[<<"tokenizer.json">>].data = 0,
                       !.manifest = Stamped([m EXCEPT !.files[2].sha256 = 0])]}

-----------------------------------------------------------------------------
Setup(packages, config) ==
  [packages |-> packages, defaults |-> Defaults, custom |-> Custom, config |-> config, changes |-> 0, events |-> 0]
At1(place, packages, config) == {Setup([Library EXCEPT ![place] = p], config) : p \in packages}
Moved(place, other, config) == Setup(Restrict(Library, DOMAIN Library \ {place}) @@ (other :> Library[place]), config)

Eventful(packages, config) == [Setup(packages, config) EXCEPT !.changes = 1, !.events = 1]
MCSetups ==
  {Eventful(E621Library, config) :
     config \in {Only({"caption", "classify", "countReview"}, Job), Only({"ocr", "tokenBudget"}, Job),
                 Only({"replace", "dropout"}, Job), Only({"classify", "replace"}, CustomJob), Only({"dropout"}, QualityOff)}}
  \union {Eventful(Library, Only({"caption", "classify"}, ClJob)), [Setup(Library, Job) EXCEPT !.events = 2]}
  \union {Setup(Library, config) : config \in OtherJobs \union {CustomJob, ClJob, QualityOff}}
  \union At1(At.tagger, Tagging621, Job) \union At1(At.cl, TaggingDanbooru \union {TaggerWd}, ClJob)
  \union {Setup(Library @@ (<<"tagging-models", "wd">> :> TaggerWd), Danbooru("wd", "danbooru"))}
  \union At1(At.index, IndexPackages(Index621(FALLBACK)), Job) \union At1(At.danbooru, IndexesDanbooru, ClJob)
  \union At1(At.csv, Replacements, Job) \union At1(At.ocr, OcrPackages, Job)
  \union At1(At.scorer, CatalogPackages(Scorer), Job) \union At1(At.scorer, TornNumbers(Scorer), QualityOff)
  \union At1(At.tokenizer, TokenizerPackages, Job)
  \union {Moved(At.ocr, <<"ocr-models", "elsewhere">>, Job), Moved(At.tokenizer, <<"tokenizers", "elsewhere">>, Job)}
  \union {[Setup(Library, CustomJob) EXCEPT !.custom.index = p] : p \in IndexPackages(Index621("mine"))}
  \union {[Setup(Library, CustomJob) EXCEPT !.custom.csv = csv] : csv \in Csvs}
  \union {[Setup(Library, CustomJob) EXCEPT !.custom = Restrict(Custom, DOMAIN Custom \ {name})] : name \in DOMAIN Custom}
==============================================================================

--------------------------- MODULE WorkerManifests ---------------------------
(***************************************************************************)
(* What each worker accepts when the hello names a package, its            *)
(* fingerprint and what was frozen with it (src/workers/*/resource.py).    *)
(* The workers import nothing of the core: each reads the manifest again,  *)
(* validates it by its own rules, and hashes the files without a cache.    *)
(* Packages and values are those of Manifests.                             *)
(***************************************************************************)
EXTENDS Manifests

(* The values the workers pin, as numbers of their own.  The data of a     *)
(* file that has to be one given document is FROZEN when it is; a file of  *)
(* thresholds maps a category to a percentage.                             *)
PINNED_TAG_COUNT == 2
ENTRY_COUNT == 3
FROZEN == 1
COUNT_RULE_TITLES == <<1, 2>>
WIKI_SCHEMA_VERSION == 1
WikiApplicationId(profile) == IF profile = "e621" THEN 621 ELSE 2
OCR_ENTRYPOINTS ==
  [detection |-> <<"det", "inference.json">>, recognition |-> <<"rec", "inference.json">>,
   textlineOrientation |-> <<"ori", "inference.json">>]

SizeAndHash(p, paths) ==
  \A path \in paths : /\ path \in DOMAIN p.disk
                      /\ p.disk[path].size = Files(p.manifest)[path].sizeBytes
                      /\ p.disk[path].data = Files(p.manifest)[path].sha256

RecordsOk(m) == \A path \in DOMAIN m.files : SafePath(path) /\ m.files[path].sizeBytes >= 1

FieldsAndKind(kind, m) ==
  /\ DOMAIN m = IF m.schemaVersion = 1 THEN COMMON_FIELDS_V1 ELSE COMMON_FIELDS_V2
  /\ m.kind = kind

-----------------------------------------------------------------------------
(* caption: _validate_v2_metadata and _validate_distribution. *)
CaptionMetadata(metadata) == TaggingMetadataV2(metadata)

CaptionDistribution(value) ==
  /\ DOMAIN value = {"mode", "sourceUrl", "licenseUrl"} /\ value.mode = "local-only"
  /\ Malformed \notin {value.sourceUrl, value.licenseUrl}

(* The files found in the package, in whatever directory. *)
CaptionDirectory(p) ==
  DOMAIN p.disk = DOMAIN p.manifest.files \union ToSet(p.manifest.documentation)

(* The weights beside the model, modelData, are loaded without being hashed. *)
Weights(m) == {m.entrypoints[role] : role \in DOMAIN m.entrypoints \intersect {"modelData"}}
HashedByCaption(m) == DOMAIN m.files \ Weights(m)

CaptionLoad(p, fingerprint) ==
  LET m == p.manifest
  IN /\ m.schemaVersion \in {1, 2} /\ FieldsAndKind("tagging-model", m)
     /\ m.resourceId # Malformed /\ Text(m.resourceVersion, 256)
     /\ m.displayName = {"zh-CN", "en"}
     /\ IF m.schemaVersion = 1
        THEN /\ m.profile = "e621" /\ m.runtimeFormat = "e621-eva02-onnx-v1"
             /\ m.metadata = [tagCount |-> PINNED_TAG_COUNT,
                              categories |-> <<"general", "character", "species", "rating">>]
        ELSE /\ m.profile = "danbooru" /\ m.runtimeFormat \in {CL, WD}
             /\ CaptionMetadata(m.metadata) /\ CaptionDistribution(m.distribution)
     /\ RequiredRoles("tagging-model", m) = DOMAIN m.entrypoints
     /\ Range(m.entrypoints) = DOMAIN m.files /\ RecordsOk(m)
     /\ Len(m.documentation) <= 16 /\ IsInjective(m.documentation)
     /\ ToSet(m.documentation) \intersect DOMAIN m.files = {}
     /\ Fingerprint(m) = fingerprint
     /\ CaptionDirectory(p)
     /\ \A path \in DOMAIN m.files : p.disk[path].size = m.files[path].sizeBytes
     /\ SizeAndHash(p, HashedByCaption(m))
     /\ (m.schemaVersion = 2 =>
           m.metadata.vocabularyFingerprint
             = m.files[m.entrypoints[VocabularyRole(m.runtimeFormat)]].sha256)

(* caption, the model: what each adapter pins of its vocabulary.           *)
EXPECTED_CATEGORIES == {"general", "character", "species", "rating"}
Adapters ==
  CL :> [tagCount |-> 9, adjustable |-> {"general", "character", "copyright"},
         excluded |-> {"meta", "rating", "quality"}, vocabulary |-> 5]
  @@ WD :> [tagCount |-> 8, adjustable |-> {"general", "character"}, excluded |-> {"rating"},
            vocabulary |-> 6]

LoadThresholds(data, categories) == DOMAIN data = categories /\ Range(data) \subseteq 0..100

(* load_metadata: every tag is clean, is there once, and has a category. *)
E621Metadata(p) ==
  /\ Entrypoint(p, "tags").data.sound
  /\ Cardinality(Entrypoint(p, "tags").data.labels) = PINNED_TAG_COUNT
  /\ LoadThresholds(Entrypoint(p, "thresholds").data, EXPECTED_CATEGORIES)
  /\ Entrypoint(p, "preprocess").data = FROZEN

ManifestCategories(metadata, adapter) ==
  /\ metadata.tagCount = adapter.tagCount
  /\ {Lower(name) : name \in ToSet(metadata.modelCategories)}
       = adapter.adjustable \union adapter.excluded
  /\ ToSet(metadata.adjustableCategories) = adapter.adjustable
  /\ ToSet(metadata.excludedCategories) = adapter.excluded

(* load_cl_metadata: its names, indices and categories agree. *)
ClMetadata(p) ==
  /\ ManifestCategories(p.manifest.metadata, Adapters[CL])
  /\ Entrypoint(p, "metadata").data = FROZEN
  /\ Entrypoint(p, "vocabulary").data = Adapters[CL].vocabulary
  /\ LoadThresholds(Entrypoint(p, "thresholds").data, Adapters[CL].adjustable)
  /\ Range(Entrypoint(p, "thresholds").data) = {55}

WdMetadata(p) ==
  /\ ManifestCategories(p.manifest.metadata, Adapters[WD])
  /\ Entrypoint(p, "selectedTags").data = Adapters[WD].vocabulary
  /\ Entrypoint(p, "preprocess").data = FROZEN
  /\ LoadThresholds(Entrypoint(p, "thresholds").data, Adapters[WD].adjustable)

(* create_tagger_adapter; the session of the model itself is external. *)
TaggerAdapter(p) ==
  LET m == p.manifest
  IN \/ m.runtimeFormat = "e621-eva02-onnx-v1" /\ m.profile = "e621" /\ E621Metadata(p)
     \/ m.runtimeFormat = CL /\ m.profile = "danbooru" /\ ClMetadata(p)
     \/ m.runtimeFormat = WD /\ m.profile = "danbooru" /\ WdMetadata(p)

(* The hello's thresholds name exactly the categories of the adapter. *)
ResolveThresholds(policy, p) ==
  policy.thresholdMode = "per_category" =>
    policy.categoryThresholds = DOMAIN Entrypoint(p, "thresholds").data

CaptionInitialize(p, fingerprint, profile, policy) ==
  /\ CaptionLoad(p, fingerprint) /\ p.manifest.profile = profile
  /\ TaggerAdapter(p) /\ ResolveThresholds(policy, p)

-----------------------------------------------------------------------------
(* classify: the manifest, stricter than the core's in five points. *)
CatalogManifest(m, fingerprint) ==
  LET metadata == m.metadata
      format == IF m.schemaVersion = 1 THEN "e621-classification-index-v1" ELSE DANBOORU_INDEX
  IN /\ m.schemaVersion \in {1, 2} /\ FieldsAndKind("classification-index", m)
     /\ m.profile = (IF m.schemaVersion = 1 THEN "e621" ELSE "danbooru")
     /\ m.runtimeFormat = format
     /\ (m.schemaVersion = 2 => m.distribution = [mode |-> "bundled"])
     /\ m.resourceId # Malformed /\ m.resourceVersion.bytes >= 1 /\ m.resourceVersion.trimmed
     /\ DOMAIN m.entrypoints = RequiredRoles("classification-index", m)
     /\ IsInjective(m.entrypoints) /\ Range(m.entrypoints) = DOMAIN m.files
     /\ RecordsOk(m) /\ m.documentation = <<>>
     /\ ClassificationMetadata(metadata, format)
     /\ metadata.wikiDataSourceId # Malformed
     /\ metadata.wikiSchemaVersion = WIKI_SCHEMA_VERSION
     /\ metadata.wikiApplicationId = WikiApplicationId(m.profile)
     /\ Fingerprint(m) = fingerprint

(* load_classify_resource: a flat directory, and for both profiles the     *)
(* dictionary and the wiki projection read in full.                        *)
ClassifyLoad(p, fingerprint) ==
  LET m == p.manifest
      dictionary == Entrypoint(p, "dictionary").data
  IN /\ CatalogManifest(m, fingerprint)
     /\ p.dirs = {} /\ \A path \in DOMAIN p.disk : Len(path) = 1
     /\ DOMAIN p.disk = Range(m.entrypoints)
     /\ SizeAndHash(p, DOMAIN m.files)
     /\ dictionary.source = m.profile
     /\ dictionary.count = m.metadata.dictionaryEntryCount
     /\ Cardinality(dictionary.entries) = m.metadata.dictionaryEntryCount
     /\ (m.profile = "danbooru" =>
           dictionary.provenance = Restrict(m.metadata, DOMAIN dictionary.provenance))
     /\ WikiOk(m, Entrypoint(p, "countDatabase").data)

(* The two dictionaries: sound is an entry list in which every entry has   *)
(* its fields and a known bucket, and every canonical tag its own entry.   *)
E621Dictionary(dictionary) ==
  /\ dictionary.source = "e621" /\ dictionary.count = ENTRY_COUNT
  /\ Cardinality(dictionary.entries) = ENTRY_COUNT /\ dictionary.sound

DanbooruDictionary(dictionary) ==
  /\ dictionary.source = "danbooru"
  /\ dictionary.count = Cardinality(dictionary.entries) /\ dictionary.sound

(* DanbooruCountRules.from_payload, and the pages of its tags. *)
CountRulesFit(p) ==
  /\ Entrypoint(p, "countRules").data = FROZEN
  /\ p.manifest.metadata.wikiPageTitles = COUNT_RULE_TITLES

ClassifyInitialize(p, fingerprint, profile, wikiDataSourceId) ==
  LET m == p.manifest
      dictionary == Entrypoint(p, "dictionary").data
  IN /\ ClassifyLoad(p, fingerprint) /\ m.metadata.wikiDataSourceId = wikiDataSourceId
     /\ m.profile = profile \/ (profile = "danbooru" /\ IsFallback(m))
     /\ IF m.profile = "e621" THEN E621Dictionary(dictionary)
        ELSE DanbooruDictionary(dictionary) /\ CountRulesFit(p)

-----------------------------------------------------------------------------
(* replace: a rule as _output_tags reads it; keep takes the cell whole.    *)
RuleFromCsv(row) ==
  CASE row.action = "drop" -> row.parts = <<"">>
    [] row.action = "keep" -> row.parts # <<"">>
    [] row.action = "replace" -> row.parts # <<"">> /\ ToSet(row.parts) \subseteq {"tag", "padded", ":"}
    [] OTHER -> FALSE

CsvRules(csv) ==
  /\ csv.header
  /\ \A row \in ToSet(csv.rows) : row.source # "" /\ RuleFromCsv(row)
  /\ IsInjective([i \in DOMAIN csv.rows |-> csv.rows[i].source])

(* The audited statistics of a bundled CSV. *)
CsvStatistics(csv) ==
  LET Count(P(_)) == Cardinality({i \in DOMAIN csv.rows : P(csv.rows[i])})
      Action(action) == Cardinality({i \in DOMAIN csv.rows : csv.rows[i].action = action})
  IN [ruleCount |-> Len(csv.rows),
      actionCounts |-> [keep |-> Action("keep"), replace |-> Action("replace"),
                        drop |-> Action("drop")],
      pipeReplacementCount |->
        Count(LAMBDA row : row.action = "replace" /\ Len(row.parts) > 1),
      literalKeepPipeCount |->
        Count(LAMBDA row : row = [source |-> ":|", action |-> "keep", parts |-> <<":", "">>])]

(* load_replace_resource does not look at the rest of the directory. *)
ReplaceLoad(p, fingerprint) ==
  LET m == p.manifest
  IN /\ DOMAIN m = COMMON_FIELDS_V1 /\ m.kind = "replacement-index"
     /\ m.schemaVersion = 1 /\ m.profile = "e621"
     /\ m.runtimeFormat = "e621-replacement-csv-v1" /\ m.resourceId # Malformed
     /\ DOMAIN m.entrypoints = {"index"} /\ Range(m.entrypoints) = DOMAIN m.files
     /\ DOMAIN m.metadata = {"ruleCount", "actionCounts", "pipeReplacementCount",
                             "literalKeepPipeCount"}
     /\ SafePath(m.entrypoints.index)
     /\ Fingerprint(m) = fingerprint
     /\ SizeAndHash(p, {m.entrypoints.index})
     /\ CsvRules(Entrypoint(p, "index").data)
     /\ CsvStatistics(Entrypoint(p, "index").data) = m.metadata

(* load_custom_replace_resource: the copy in the overlay of the job. *)
MAX_RULES == 250000
CustomReplaceLoad(csv, sha256, ruleCount) ==
  /\ ruleCount \in 1..MAX_RULES /\ csv = sha256
  /\ CsvRules(csv) /\ Len(csv.rows) = ruleCount

-----------------------------------------------------------------------------
(* OCR: exactly the pinned package at the pinned place. *)
OcrDistribution(value) ==
  /\ DOMAIN value = {"mode", "sourceUrl", "licenseStatus"}
  /\ value.mode = "local-only" /\ value.licenseStatus = "unverified"
  /\ value.sourceUrl # Malformed

OcrMetadata(value) == value = OCR_MODEL.metadata

(* The directories are those above the listed files, no other. *)
DirectoryLayout(p) ==
  LET above == UNION {{SubSeq(path, 1, n) : n \in 1..Len(path) - 1} : path \in DOMAIN p.manifest.files}
  IN DOMAIN p.disk = DOMAIN p.manifest.files /\ p.dirs \subseteq above

OcrLoad(p, place, fingerprint) ==
  LET m == p.manifest
      Root(role) == SubSeq(m.entrypoints[role], 1, Len(m.entrypoints[role]) - 1)
  IN /\ place = <<"ocr-models", OCR_MODEL.resourceId>>
     /\ DOMAIN m = COMMON_FIELDS_V2 /\ m.schemaVersion = 2 /\ m.kind = "ocr-model"
     /\ m.resourceId = OCR_MODEL.resourceId /\ m.profile = "shared"
     /\ m.resourceVersion.pinned /\ m.runtimeFormat = OCR_MODEL.format
     /\ m.displayName = {"zh-CN", "en"}
     /\ OcrDistribution(m.distribution) /\ OcrMetadata(m.metadata)
     /\ m.entrypoints = OCR_ENTRYPOINTS /\ DOMAIN m.files # {} /\ RecordsOk(m)
     /\ \A path \in DOMAIN m.files :
          Cardinality({role \in DOMAIN m.entrypoints : IsStrictPrefix(Root(role), path)}) = 1
     /\ Range(m.entrypoints) \subseteq DOMAIN m.files /\ m.documentation = <<>>
     /\ Fingerprint(m) = fingerprint
     /\ DirectoryLayout(p) /\ SizeAndHash(p, DOMAIN m.files)

-----------------------------------------------------------------------------
(* policy: only the four roles' files are looked at. *)
PolicyLoad(p, fingerprint) ==
  LET m == p.manifest
  IN /\ DOMAIN m = COMMON_FIELDS_V1 /\ m.kind = "dropout-model" /\ m.schemaVersion = 1
     /\ m.profile = "e621" /\ m.runtimeFormat = "lse14-scorer-5k-v1" /\ DOMAIN m.metadata = {}
     /\ m.resourceId # Malformed /\ m.resourceVersion.bytes >= 1
     /\ DOMAIN m.entrypoints = {"clip", "fusion", "jtp3", "waifu"}
     /\ Range(m.entrypoints) = DOMAIN m.files
     /\ \A path \in DOMAIN m.files : SafePath(path)
     /\ Fingerprint(m) = fingerprint
     /\ SizeAndHash(p, Range(m.entrypoints))

PolicyInitialize(p, fingerprint, resourceId) ==
  PolicyLoad(p, fingerprint) /\ p.manifest.resourceId = resourceId

(* token budget: load_tokenizer_resource; the tokenizers library must then *)
(* be able to read tokenizer.json (external: 0 is what it cannot read).    *)
TokenizerLoad(p, place, resourceId, fingerprint, contextLimit) ==
  LET m == p.manifest
      paths == [i \in DOMAIN m.files |-> m.files[i].path]
      Rank(path) == CHOOSE i \in DOMAIN TOKENIZER_FILES : <<TOKENIZER_FILES[i]>> = path
  IN /\ resourceId \in DOMAIN TOKENIZER_IDENTITIES /\ contextLimit >= 1
     /\ place = <<"tokenizers", resourceId>>
     /\ DOMAIN m = TOKENIZER_FIELDS /\ m.schemaVersion = 3 /\ m.kind = "tokenizer"
     /\ m.owner = "token-budget" /\ m.profile = "shared" /\ m.resourceId = resourceId
     /\ m.officialModelId = TOKENIZER_IDENTITIES[resourceId] /\ m.tokenizerFamily = "qwen3"
     /\ m.revision # Malformed /\ m.rootRelativePath = <<"tokenizers", resourceId>>
     /\ m.contextLimit = contextLimit
     /\ m.distribution = [mode |-> "local-only", sourceUrl |-> TOKENIZER_IDENTITIES[resourceId],
                          licenseStatus |-> "unverified"]
     /\ m.fingerprint = fingerprint /\ fingerprint = Without(m, {"fingerprint"})
     /\ ToSet(paths) \subseteq {<<name>> : name \in ToSet(TOKENIZER_FILES)}
     /\ SizeAndHash(p, ToSet(paths))
     /\ \A i, j \in DOMAIN paths : i < j => Rank(paths[i]) < Rank(paths[j])
     /\ {<<"config.json">>, <<"tokenizer.json">>} \subseteq ToSet(paths)
     /\ {path \in DOMAIN p.disk : Len(path) = 1} = ToSet(paths)
     /\ p.disk[<<"tokenizer.json">>].data # 0
==============================================================================

------------------------------ MODULE Manifests ------------------------------
(***************************************************************************)
(* What the core accepts as a resource package, as a classification index  *)
(* it reads more deeply, and as a custom replacement CSV                   *)
(* (resource_catalog_package.py, resource_catalog_validation.py,           *)
(* classify_resource.py, custom_replace_index.py).                         *)
(*                                                                         *)
(* A package is a directory: its manifest (a record whose fields are the   *)
(* members of resource.json), its files and its further directories.       *)
(* A path is the sequence of its parts.  A file has a size, a modification *)
(* stamp and data; SHA-256 is injective, so a digest IS the data.  The     *)
(* data of a file the code only hashes is a number; of a file it reads it  *)
(* is the record of what it reads there.  Malformed stands for every       *)
(* string that the pattern of its field refuses.                           *)
(***************************************************************************)
EXTENDS Integers, FiniteSets, SequencesExt, Functions, TLC

Malformed == "malformed"

(* A directory of the library, its defaults key, its v1 format and roles.  *)
KIND_LAYOUT ==
  ("replacement-index" :>
     [directory |-> "replacement-indexes", default |-> "replacementIndex",
      format |-> "e621-replacement-csv-v1", roles |-> {"index"}])
  @@ ("classification-index" :>
     [directory |-> "classification-indexes", default |-> "classificationIndex",
      format |-> "e621-classification-index-v1", roles |-> {"dictionary", "countDatabase"}])
  @@ ("tagging-model" :>
     [directory |-> "tagging-models", default |-> "taggingModel",
      format |-> "e621-eva02-onnx-v1",
      roles |-> {"model", "modelData", "preprocess", "tags", "thresholds"}])
  @@ ("dropout-model" :>
     [directory |-> "dropout-models", default |-> "dropoutModel",
      format |-> "lse14-scorer-5k-v1", roles |-> {"clip", "fusion", "jtp3", "waifu"}])

CL == "cl-tagger-v2-onnx-v1"
WD == "wd-eva02-large-tagger-v3-onnx-v1"
DANBOORU_INDEX == "danbooru-classification-index-v1"

V2_LAYOUTS ==
  [kind \in {"tagging-model", "classification-index"} |->
     IF kind = "tagging-model"
     THEN CL :> {"model", "modelData", "metadata", "vocabulary", "thresholds"}
          @@ WD :> {"model", "selectedTags", "preprocess", "thresholds"}
     ELSE DANBOORU_INDEX :> {"dictionary", "countRules", "countDatabase"}]

COMMON_FIELDS_V1 ==
  {"schemaVersion", "kind", "resourceId", "resourceVersion", "profile", "displayName",
   "description", "runtimeFormat", "entrypoints", "files", "metadata", "documentation"}
COMMON_FIELDS_V2 == COMMON_FIELDS_V1 \union {"distribution"}

OCR_MODEL ==
  [resourceId |-> "ocr-ppocrv5-server-paddle-v1", format |-> "ppocrv5-server-paddle-v1",
   roles |-> {"detection", "recognition", "textlineOrientation"},
   metadata |->
     [models |-> [detection |-> "PP-OCRv5_server_det", recognition |-> "PP-OCRv5_server_rec",
                  textlineOrientation |-> "PP-LCNet_x1_0_textline_ori"],
      inference |-> [useDocOrientationClassify |-> FALSE, useDocUnwarping |-> FALSE,
                     useTextlineOrientation |-> TRUE, textRecScoreThresh |-> 0,
                     textDetLimitSideLen |-> 1920, textDetLimitType |-> "max"]]]

TOKENIZER_IDENTITIES ==
  "tokenizer-qwen3-0.6b-anima-v1" :> "Qwen/Qwen3-0.6B"
  @@ "tokenizer-qwen3-vl-4b-krea2-v1" :> "Qwen/Qwen3-VL-4B-Instruct"

(* The files a tokenizer may have, in the order a manifest must list them. *)
TOKENIZER_FILES ==
  <<"added_tokens.json", "config.json", "merges.txt", "special_tokens_map.json",
    "tokenizer.json", "tokenizer_config.json", "vocab.json", "vocab.txt">>

TOKENIZER_FIELDS ==
  {"schemaVersion", "kind", "resourceId", "owner", "profile", "resourceVersion",
   "officialModelId", "revision", "tokenizerFamily", "contextLimit", "rootRelativePath",
   "files", "fingerprint", "distribution"}

Directory(kind) ==
  CASE kind = "ocr-model" -> "ocr-models"
    [] kind = "tokenizer" -> "tokenizers"
    [] OTHER -> KIND_LAYOUT[kind].directory

-----------------------------------------------------------------------------
(* Text is trimmed and bounded; an id, a path or a URL matches its pattern. *)
Text(value, maxBytes) == value.trimmed /\ value.bytes \in 1..maxBytes

SafePath(path) == path # <<>> /\ Malformed \notin ToSet(path)

(* _distribution: the three forms, the last only where the caller allows it. *)
DistributionOk(value, allowUnverified) ==
  \/ value = [mode |-> "bundled"]
  \/ /\ value.mode = "local-only" /\ value.sourceUrl # Malformed
     /\ \/ /\ allowUnverified
           /\ DOMAIN value = {"mode", "sourceUrl", "licenseStatus"}
           /\ value.licenseStatus = "unverified"
        \/ /\ DOMAIN value = {"mode", "sourceUrl", "licenseUrl"}
           /\ value.licenseUrl # Malformed

LowerOf ==
  [General |-> "general", Character |-> "character", Copyright |-> "copyright", Meta |-> "meta",
   Rating |-> "rating", Quality |-> "quality"]
Lower(name) == IF name \in DOMAIN LowerOf THEN LowerOf[name] ELSE name

(* _category_list: 1 to 64 distinct names, identifiers where lowercase. *)
CategoryList(names, lowercase) ==
  /\ Len(names) \in 1..64 /\ IsInjective(names)
  /\ lowercase => \A name \in ToSet(names) : name # Malformed /\ Lower(name) = name

SortedUnique(numbers, maximum) ==
  /\ Len(numbers) \in 1..maximum
  /\ \A i, j \in DOMAIN numbers : i < j => numbers[i] < numbers[j]

TaggingMetadataV2(metadata) ==
  LET Names(field) == ToSet(metadata[field])
  IN /\ DOMAIN metadata = {"tagCount", "modelCategories", "adjustableCategories",
                           "excludedCategories", "vocabularyFingerprint"}
     /\ CategoryList(metadata.modelCategories, FALSE)
     /\ CategoryList(metadata.adjustableCategories, TRUE)
     /\ CategoryList(metadata.excludedCategories, TRUE)
     /\ IsInjective([i \in DOMAIN metadata.modelCategories |->
                       Lower(metadata.modelCategories[i])])
     /\ Names("adjustableCategories") \intersect Names("excludedCategories") = {}
     /\ Names("adjustableCategories") \union Names("excludedCategories")
          = {Lower(name) : name \in Names("modelCategories")}
     /\ metadata.tagCount \in 1..1000000

ReplacementMetadata(metadata) ==
  LET counts == metadata.actionCounts
  IN /\ DOMAIN metadata = {"ruleCount", "actionCounts", "pipeReplacementCount",
                           "literalKeepPipeCount"}
     /\ DOMAIN counts = {"keep", "replace", "drop"} /\ Range(counts) \subseteq Nat
     /\ {metadata.pipeReplacementCount, metadata.literalKeepPipeCount} \subseteq Nat
     /\ metadata.ruleCount >= 1
     /\ counts.keep + counts.replace + counts.drop = metadata.ruleCount

ClassificationMetadata(metadata, format) ==
  /\ DOMAIN metadata =
       {"dictionaryEntryCount", "wikiDataSourceId", "wikiApplicationId", "wikiSchemaVersion",
        "wikiSchemaFingerprint", "wikiPageTitles"}
       \union IF format = DANBOORU_INDEX
              THEN {"catalogSnapshot", "catalogSourceUrl", "catalogSourceSizeBytes",
                    "catalogSourceSha256", "wikiSourceUrl", "wikiSourceSizeBytes",
                    "wikiSourceSha256", "supportedVocabularyFingerprints"}
              ELSE {}
  /\ SortedUnique(metadata.wikiPageTitles, 64)
  /\ \A field \in {"dictionaryEntryCount", "wikiApplicationId", "wikiSchemaVersion"} :
       metadata[field] >= 1
  /\ (format = DANBOORU_INDEX =>
       /\ SortedUnique(metadata.supportedVocabularyFingerprints, 16)
       /\ metadata.catalogSourceSizeBytes >= 1 /\ metadata.wikiSourceSizeBytes >= 1
       /\ Malformed \notin {metadata.catalogSourceUrl, metadata.wikiSourceUrl})

MetadataOk(kind, m) ==
  CASE kind = "ocr-model" -> m.metadata = OCR_MODEL.metadata
    [] kind = "tagging-model" /\ m.schemaVersion = 2 -> TaggingMetadataV2(m.metadata)
    [] kind = "tagging-model" /\ m.schemaVersion = 1 ->
         /\ DOMAIN m.metadata = {"tagCount", "categories"}
         /\ m.metadata.categories = <<"general", "character", "species", "rating">>
         /\ m.metadata.tagCount >= 1
    [] kind = "replacement-index" -> ReplacementMetadata(m.metadata)
    [] kind = "classification-index" -> ClassificationMetadata(m.metadata, m.runtimeFormat)
    [] OTHER -> DOMAIN m.metadata = {}

-----------------------------------------------------------------------------
(* The roles a manifest's identity asks for; none for an unknown identity. *)
RequiredRoles(kind, m) ==
  CASE kind = "ocr-model" ->
         IF m.schemaVersion = 2 /\ m.profile = "shared" /\ m.runtimeFormat = OCR_MODEL.format
            /\ m.resourceId = OCR_MODEL.resourceId
         THEN OCR_MODEL.roles ELSE {}
    [] kind # "ocr-model" /\ m.schemaVersion = 1 ->
         IF m.profile = "e621" /\ m.runtimeFormat = KIND_LAYOUT[kind].format
         THEN KIND_LAYOUT[kind].roles ELSE {}
    [] OTHER ->
         IF m.profile = "danbooru" /\ kind \in DOMAIN V2_LAYOUTS
            /\ m.runtimeFormat \in DOMAIN V2_LAYOUTS[kind]
         THEN V2_LAYOUTS[kind][m.runtimeFormat] ELSE {}

(* An OCR entry point is <root>\inference.json: three roots, none of them  *)
(* inside another, and every file under exactly one.                       *)
OcrRootsOk(m) ==
  LET Root(role) == SubSeq(m.entrypoints[role], 1, Len(m.entrypoints[role]) - 1)
      roles == DOMAIN m.entrypoints
  IN /\ \A role \in roles : /\ Len(m.entrypoints[role]) >= 2
                            /\ Last(m.entrypoints[role]) = "inference.json"
     /\ \A r, s \in roles : r # s => ~IsPrefix(Root(r), Root(s))
     /\ Range(m.entrypoints) \subseteq DOMAIN m.files
     /\ \A path \in DOMAIN m.files :
          Cardinality({role \in roles : IsStrictPrefix(Root(role), path)}) = 1

VocabularyRole(format) == IF format = CL THEN "vocabulary" ELSE "selectedTags"

(* ResourcePackage.load, up to the files on disk. *)
ManifestOk(kind, m) ==
  /\ m.schemaVersion \in {1, 2} /\ m.kind = kind
  /\ DOMAIN m = IF m.schemaVersion = 1 THEN COMMON_FIELDS_V1 ELSE COMMON_FIELDS_V2
  /\ m.resourceId # Malformed /\ Text(m.resourceVersion, 512)
  /\ RequiredRoles(kind, m) # {} /\ DOMAIN m.entrypoints = RequiredRoles(kind, m)
  /\ \A path \in Range(m.entrypoints) \union DOMAIN m.files \union ToSet(m.documentation) :
       SafePath(path)
  /\ DOMAIN m.files # {} /\ \A path \in DOMAIN m.files : m.files[path].sizeBytes >= 1
  /\ IF kind = "ocr-model" THEN OcrRootsOk(m) ELSE Range(m.entrypoints) = DOMAIN m.files
  /\ Len(m.documentation) <= 16 /\ m.displayName = {"zh-CN", "en"}
  /\ MetadataOk(kind, m)
  /\ (m.schemaVersion = 2 =>
       /\ DistributionOk(m.distribution, kind = "ocr-model")
       /\ (kind = "tagging-model" =>
            /\ m.distribution.mode = "local-only"
            /\ m.metadata.vocabularyFingerprint
                 = m.files[m.entrypoints[VocabularyRole(m.runtimeFormat)]].sha256)
       /\ (kind = "classification-index" => m.distribution.mode = "bundled"))

Without(record, fields) == Restrict(record, DOMAIN record \ fields)

(* The tokenizer's manifest states its own fingerprint. *)
TokenizerManifestOk(m) ==
  LET paths == [i \in DOMAIN m.files |-> m.files[i].path]
      Rank(path) == CHOOSE i \in DOMAIN TOKENIZER_FILES : <<TOKENIZER_FILES[i]>> = path
  IN /\ DOMAIN m = TOKENIZER_FIELDS /\ m.schemaVersion = 3 /\ m.kind = "tokenizer"
     /\ m.owner = "token-budget" /\ m.profile = "shared"
     /\ m.resourceId \in DOMAIN TOKENIZER_IDENTITIES
     /\ m.officialModelId = TOKENIZER_IDENTITIES[m.resourceId]
     /\ m.revision # Malformed /\ m.tokenizerFamily = "qwen3" /\ m.contextLimit >= 1
     /\ Text(m.resourceVersion, 512)
     /\ m.rootRelativePath = <<"tokenizers", m.resourceId>>
     /\ ToSet(paths) \subseteq {<<name>> : name \in ToSet(TOKENIZER_FILES)}
     /\ \A i, j \in DOMAIN paths : i < j => Rank(paths[i]) < Rank(paths[j])
     /\ {<<"config.json">>, <<"tokenizer.json">>} \subseteq ToSet(paths)
     /\ \A file \in ToSet(m.files) : file.sizeBytes >= 1
     /\ m.distribution = [mode |-> "local-only", sourceUrl |-> m.officialModelId,
                          licenseStatus |-> "unverified"]
     /\ m.fingerprint = Without(m, {"fingerprint"})

(* What the fingerprint covers: everything but the texts and documents. *)
Fingerprint(m) ==
  Without(m, {"fingerprint", "displayName", "description", "documentation"})

Files(m) ==
  IF m.kind # "tokenizer" THEN m.files
  ELSE [path \in {file.path : file \in ToSet(m.files)} |->
          LET file == CHOOSE f \in ToSet(m.files) : f.path = path
          IN [sizeBytes |-> file.sizeBytes, sha256 |-> file.sha256]]

Documents(m) == IF m.kind = "tokenizer" THEN {} ELSE ToSet(m.documentation)

(* verify_files without hashes: exactly the listed files, at their sizes.  *)
(* A further directory without a file is not seen.                         *)
FilesOk(p) ==
  LET files == Files(p.manifest)
  IN /\ DOMAIN p.disk = DOMAIN files \union Documents(p.manifest)
     /\ \A path \in DOMAIN files : p.disk[path].size = files[path].sizeBytes

(* _HASH_CACHE: what was read once for a place, size, stamp and digest. *)
CacheKey(place, path, p) ==
  <<place, path, p.disk[path].size, p.disk[path].stamp, Files(p.manifest)[path].sha256>>

Observed(cache, place, path, p) ==
  LET key == CacheKey(place, path, p)
      known == {entry \in cache : entry[1] = key}
  IN IF known = {} THEN p.disk[path].data ELSE (CHOOSE entry \in known : TRUE)[2]

Hashed(cache, place, p) ==
  cache \union {<<CacheKey(place, path, p), Observed(cache, place, path, p)>>
                  : path \in DOMAIN Files(p.manifest)}

HashesOk(cache, place, p) ==
  FilesOk(p) /\ \A path \in DOMAIN Files(p.manifest) :
                  Observed(cache, place, path, p) = Files(p.manifest)[path].sha256

(* ResourcePackage.load: only a classification index may lie outside. *)
LoadOk(kind, place, external, p) ==
  /\ IF kind = "tokenizer" THEN TokenizerManifestOk(p.manifest) ELSE ManifestOk(kind, p.manifest)
  /\ IF external THEN kind = "classification-index" ELSE place[1] = Directory(kind)
  /\ FilesOk(p)

Entrypoint(p, role) == p.disk[p.manifest.entrypoints[role]]

AdjustableCategories(m) ==
  ToSet(IF m.schemaVersion = 1 THEN m.metadata.categories ELSE m.metadata.adjustableCategories)

-----------------------------------------------------------------------------
(* _verify_dictionary and _verify_wiki of an e621 index. *)
DictionaryOk(m, dictionary) ==
  /\ dictionary.source = "e621" /\ dictionary.count = m.metadata.dictionaryEntryCount
  /\ Cardinality(dictionary.entries) = m.metadata.dictionaryEntryCount

WikiOk(m, wiki) ==
  wiki = [application |-> m.metadata.wikiApplicationId, version |-> m.metadata.wikiSchemaVersion,
          schema |-> m.metadata.wikiSchemaFingerprint, resource |-> m.resourceId,
          source |-> m.metadata.wikiDataSourceId, titles |-> m.metadata.wikiPageTitles]

(* load_classify_resource_from_install: an e621 index is read in full, a   *)
(* danbooru index is left to the worker.                                   *)
LoadClassifyResource(cache, place, external, fingerprint, p) ==
  /\ LoadOk("classification-index", place, external, p)
  /\ Fingerprint(p.manifest) = fingerprint
  /\ HashesOk(cache, place, p)
  /\ (p.manifest.profile = "e621" =>
       /\ DictionaryOk(p.manifest, Entrypoint(p, "dictionary").data)
       /\ WikiOk(p.manifest, Entrypoint(p, "countDatabase").data))

(* The classification index that stands in for a missing danbooru one. *)
FALLBACK == "classify-e621-20260724-v1"
IsFallback(m) == m.resourceId = FALLBACK /\ m.profile = "e621"

(* verify_tagger_dictionary_compatibility; pairs found compatible once are *)
(* not read again.                                                         *)
TaggerFits(compatible, tagger, index) ==
  LET m == tagger.manifest
      tags == Entrypoint(tagger, "tags").data.labels
      entries == Entrypoint(index, "dictionary").data.entries
  IN IF m.profile # index.manifest.profile THEN m.profile = "danbooru" /\ IsFallback(index.manifest)
     ELSE \/ <<Fingerprint(m), Fingerprint(index.manifest)>> \in compatible
          \/ IF m.profile = "danbooru"
             THEN m.metadata.vocabularyFingerprint
                    \in ToSet(index.manifest.metadata.supportedVocabularyFingerprints)
             ELSE /\ tags # {} /\ entries # {} /\ tags \subseteq entries
                  /\ Cardinality(tags) = m.metadata.tagCount

-----------------------------------------------------------------------------
(* A custom replacement CSV: a cell of replacement tags is the sequence of *)
(* its parts between pipes, each "tag", "padded", "" or "comma".           *)
Writable(parts) ==
  /\ parts # <<"">> /\ "comma" \notin ToSet(parts)
  /\ parts[1] # "padded" /\ Last(parts) # "padded"

ValidRule(row) ==
  CASE row.action = "drop" -> row.parts = <<"">>
    [] row.action = "keep" -> Writable(row.parts)
    [] row.action = "replace" -> ToSet(row.parts) \subseteq {"tag", "padded", ":"}
    [] OTHER -> FALSE

ValidateRows(csv) ==
  /\ csv.header /\ csv.rows # <<>>
  /\ \A row \in ToSet(csv.rows) : row.source # "" /\ ValidRule(row)
  /\ IsInjective([i \in DOMAIN csv.rows |-> csv.rows[i].source])
==============================================================================

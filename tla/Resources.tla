------------------------------ MODULE Resources ------------------------------
(***************************************************************************)
(* Which resource packages a job is frozen to, and what its workers load.  *)
(*                                                                         *)
(* The preflight resolves every section of the job configuration to one    *)
(* package of the resource library and writes the package's path and       *)
(* fingerprint into the section; a custom classification index and a       *)
(* custom replacement CSV are inspected there, and copied into the overlay *)
(* when the workspace is confirmed.  Each module then selects its package  *)
(* again, its runner checks it, and its worker loads it by its own rules   *)
(* (WorkerManifests).  In between, the library and the custom files change *)
(* under the job, a worker is lost, the backend restarts, and a repair job *)
(* runs the same configuration again.                                      *)
(*                                                                         *)
(* A section of the configuration is a record of the fields it has.  A     *)
(* manifest's path is the directory of its package.                        *)
(***************************************************************************)
EXTENDS WorkerManifests

CONSTANT
  Setups   \* [packages, defaults, custom, config, changes, events]: the files to start
           \* from, the configuration submitted and, as bounds, how many changes of files
           \* and how many repeated preflights, lost workers, repairs and restarts

VARIABLES
  library,                 \* the packages of resource-library, by directory
  defaults,                \* defaults.json
  custom,                  \* "index": a package outside the library; "csv"
  hashCache,               \* _HASH_CACHE of the process
  compatible,              \* _COMPATIBILITY_CACHE of the process
  asked,                   \* the configuration submitted
  config,                  \* jobs.config_json
  stage,                   \* where the job is
  queue, step,             \* the modules still to run; the step of the first
  overlay,                 \* <overlay>/resources: "index" and "csv" where they exist
  accepted,                \* history: what the preflight showed, by section
  loaded,                  \* history: what workers loaded
  fault,                   \* history: the module whose resource was refused
  touched,                 \* history: a file changed since the preflight
  changes, events,         \* what may still happen
  submits, repairs         \* history: preflights and repairs so far

files == <<library, defaults, custom>>
caches == <<hashCache, compatible>>
history == <<accepted, loaded, fault>>
counts == <<changes, events, submits, repairs>>
Event == events > 0 /\ events' = events - 1
vars == <<files, caches, asked, config, stage, queue, step, overlay, history, touched, counts>>

Has(section, field) == field \in DOMAIN section
Set(section, fields) ==
  [field \in DOMAIN section \union DOMAIN fields |-> IF field \in DOMAIN fields THEN fields[field] ELSE section[field]]

-----------------------------------------------------------------------------
(* validate_job_config and config_from_dict, the parts about resources.    *)
REFERENCE == {"resourceId", "resourceManifestRelativePath", "resourceFingerprint"}

ResourceReference(section, idRequired) ==
  /\ IF Has(section, "resourceId") THEN section.resourceId # Malformed ELSE ~idRequired
  /\ Has(section, "resourceManifestRelativePath") <=> Has(section, "resourceFingerprint")

CaptionOk(s) ==
  /\ DOMAIN s \subseteq {"enabled", "thresholdMode", "uniformThreshold", "categoryThresholds"} \union REFERENCE
  /\ s.thresholdMode \in {"model_default", "uniform", "per_category"}
  /\ Has(s, "uniformThreshold") <=> s.thresholdMode = "uniform"
  /\ Has(s, "categoryThresholds") <=> s.thresholdMode = "per_category"
  /\ Has(s, "categoryThresholds") => s.categoryThresholds # {}
  /\ ResourceReference(s, FALSE)

IDENTITY == {"resourceId", "resourceFingerprint", "wikiDataSourceId", "dictionaryEntryCount", "resourceProfile"}

(* A custom index is one of: a path as entered, a path with what the       *)
(* preflight saw there, or the frozen copy.                                *)
ClassifyOk(s) ==
  LET input == /\ Has(s, "customResourcePath") /\ ~Has(s, "customResourceContentSha256")
               /\ DOMAIN s \intersect (IDENTITY \union REFERENCE) = {}
      inspected == /\ Has(s, "customResourcePath") /\ Has(s, "customResourceContentSha256")
                   /\ IDENTITY \subseteq DOMAIN s /\ ~Has(s, "resourceManifestRelativePath")
      frozen == /\ ~Has(s, "customResourcePath") /\ ~Has(s, "customResourceContentSha256")
                /\ IDENTITY \union REFERENCE \subseteq DOMAIN s
  IN /\ DOMAIN s \subseteq {"enabled", "indexMode", "customResourcePath", "customResourceContentSha256"}
                             \union IDENTITY \union REFERENCE
     /\ CASE s.indexMode = "bundled" ->
               /\ Has(s, "resourceId")
               /\ DOMAIN s \intersect {"customResourcePath", "customResourceContentSha256"} = {}
          [] s.indexMode = "custom" -> input \/ inspected \/ frozen
          [] OTHER -> FALSE
     /\ Has(s, "wikiDataSourceId") => s.wikiDataSourceId # Malformed
     /\ (Has(s, "resourceManifestRelativePath") =>
          ResourceReference(s, TRUE) /\ s.dictionaryEntryCount >= 1)

OcrOk(s) == DOMAIN s \subseteq {"enabled"} \union REFERENCE /\ ResourceReference(s, TRUE)

FROZEN_BUDGET == {"resourceManifestRelativePath", "resourceFingerprint", "contextLimit"}

TokenBudgetOk(s) ==
  /\ {"enabled", "maxTokens", "resourceId"} \subseteq DOMAIN s
  /\ DOMAIN s \subseteq {"enabled", "maxTokens", "resourceId"} \union FROZEN_BUDGET
  /\ s.maxTokens >= 1 /\ s.resourceId # Malformed
  /\ (FROZEN_BUDGET \intersect DOMAIN s # {} =>
       FROZEN_BUDGET \subseteq DOMAIN s /\ s.enabled /\ s.maxTokens <= s.contextLimit)

ReplaceOk(s) ==
  LET resolved == {"customIndexSha256", "customIndexRuleCount"}
  IN /\ DOMAIN s \subseteq {"enabled", "indexMode", "customIndexPath"} \union resolved \union REFERENCE
     /\ CASE s.indexMode = "bundled" ->
               DOMAIN s \intersect ({"customIndexPath"} \union resolved) = {} /\ ResourceReference(s, FALSE)
          [] s.indexMode = "custom" ->
               /\ Has(s, "customIndexPath") /\ DOMAIN s \intersect REFERENCE = {}
               /\ resolved \intersect DOMAIN s # {} => resolved \subseteq DOMAIN s
          [] OTHER -> FALSE

ConfigOk(c) ==
  /\ CaptionOk(c.caption) /\ ClassifyOk(c.classify) /\ OcrOk(c.ocr) /\ TokenBudgetOk(c.tokenBudget)
  /\ DOMAIN c.quality \subseteq {"enabled"} \union REFERENCE /\ ResourceReference(c.quality, FALSE)
  /\ ReplaceOk(c.replace)
  /\ c.countReview.enabled => c.classify.enabled

(* Per-category thresholds name exactly what the tagger lets one adjust. *)
ThresholdsFit(c, tagger) ==
  Has(c.caption, "categoryThresholds") => c.caption.categoryThresholds = AdjustableCategories(tagger)

(* _reject_client_frozen_resources: these fields are the preflight's to set. *)
ClientFrozen(c) ==
  \E name \in {"caption", "classify", "replace", "ocr", "tokenBudget", "quality"} :
    DOMAIN c[name] \intersect
      {"resourceManifestRelativePath", "resourceFingerprint", "contextLimit", "wikiDataSourceId",
       "dictionaryEntryCount", "resourceProfile", "customResourceContentSha256"} # {}

-----------------------------------------------------------------------------
(* ResourceCatalog.scan: the valid packages less those that share an id;   *)
(* without one of the four defaults among them the scan fails.             *)
Kinds == DOMAIN KIND_LAYOUT \union {"ocr-model", "tokenizer"}
KindAt(place) == CHOOSE kind \in Kinds : Directory(kind) = place[1]
Id(place) == library[place].manifest.resourceId

Scan(tokenizers) ==
  LET valid == {place \in DOMAIN library :
                  /\ tokenizers \/ place[1] # "tokenizers"
                  /\ LoadOk(KindAt(place), place, FALSE, library[place])}
  IN {place \in valid : \A other \in valid \ {place} : Id(other) # Id(place)}

DefaultsOk == IsInjective(defaults)

(* missing_defaults is empty. *)
ScanOk(tokenizers) ==
  DefaultsOk /\ \A kind \in DOMAIN KIND_LAYOUT :
                  \E place \in Scan(tokenizers) :
                    KindAt(place) = kind /\ Id(place) = defaults[KIND_LAYOUT[kind].default]

(* ResourceCatalogSnapshot.package. *)
Found(kind, resourceId, profile, tokenizers) ==
  {place \in Scan(tokenizers) :
     /\ KindAt(place) = kind /\ Id(place) = resourceId
     /\ \/ profile = "any" \/ kind = "dropout-model" \/ library[place].manifest.profile = profile
        \/ kind = "classification-index" /\ profile = "danbooru" /\ IsFallback(library[place].manifest)}

(* The sections, their kinds, and the package a section asks for.          *)
KindOf ==
  [caption |-> "tagging-model", classify |-> "classification-index", replace |-> "replacement-index",
   quality |-> "dropout-model", ocr |-> "ocr-model", tokenBudget |-> "tokenizer"]

ResourceId(c, name) ==
  IF Has(c[name], "resourceId") THEN c[name].resourceId ELSE defaults[KIND_LAYOUT[KindOf[name]].default]

ProfileOf(name) == IF name \in {"ocr", "tokenBudget"} THEN "shared" ELSE "any"

Packages(c, name, tokenizers) == Found(KindOf[name], ResourceId(c, name), ProfileOf(name), tokenizers)
PlaceOf(c, name, tokenizers) == CHOOSE place \in Packages(c, name, tokenizers) : TRUE

FingerprintAt(place) == Fingerprint(library[place].manifest)

Refers(section, place) ==
  /\ Has(section, "resourceManifestRelativePath")
  /\ section.resourceManifestRelativePath = place /\ section.resourceFingerprint = FingerprintAt(place)

-----------------------------------------------------------------------------
(* custom_classification_resource.py and custom_replace_index.py. *)
SourcePlace == <<"outside", "index">>
CopyPlace == <<"classification-indexes", "custom">>

InspectOk(p, place, cache) ==
  LoadClassifyResource(cache, place, TRUE, Fingerprint(p.manifest), p)

(* Every file of the directory, the manifest and the documents included. *)
ContentDigest(p) == <<p.manifest, [path \in DOMAIN p.disk |-> <<p.disk[path].size, p.disk[path].data>>]>>

MetadataFields(m) ==
  [wikiDataSourceId |-> m.metadata.wikiDataSourceId,
   dictionaryEntryCount |-> m.metadata.dictionaryEntryCount, resourceProfile |-> m.profile]

Inspected(p) ==
  Set([resourceId |-> p.manifest.resourceId, resourceFingerprint |-> Fingerprint(p.manifest),
       customResourceContentSha256 |-> ContentDigest(p)],
      MetadataFields(p.manifest))

(* freeze_custom_classification_resource: the copy is loaded as a package  *)
(* of the overlay before it counts.                                        *)
FreezeOk(p) == LoadClassifyResource({}, CopyPlace, FALSE, Fingerprint(p.manifest), p)

InspectCsv == Has(custom, "csv") /\ ValidateRows(custom.csv)

-----------------------------------------------------------------------------
(* _resolve_resources.                                                     *)
IsCustom(c, name) == name \in {"classify", "replace"} /\ c[name].indexMode = "custom"

Resolvable(c) ==
  {name \in {"caption", "classify", "replace", "quality"} : ~IsCustom(c, name)}
  \union {name \in {"ocr", "tokenBudget"} : c[name].enabled}

\* Counterexample: the OCR package is selected by id and size, not hashed.
ActiveButOcr(c, name) ==
  CASE name = "classify" -> c.classify.enabled \/ c.caption.enabled
    [] name = "quality" -> c.dropout.enabled /\ c.quality.enabled
    [] name = "ocr" -> FALSE
    [] OTHER -> c[name].enabled

(* Whose files are hashed: what the job will use. *)
Active(c, name) ==
  CASE name = "classify" -> c.classify.enabled \/ c.caption.enabled
    [] name = "quality" -> c.dropout.enabled /\ c.quality.enabled
    [] OTHER -> c[name].enabled

Freeze(section, place) ==
  Set(section, [resourceId |-> Id(place), resourceManifestRelativePath |-> place,
                resourceFingerprint |-> FingerprintAt(place)])

(* The section as the preflight leaves it. *)
ResolvedSection(c, name) ==
  LET place == PlaceOf(c, name, c.tokenBudget.enabled)
      m == library[place].manifest
  IN CASE name = "classify" /\ IsCustom(c, name) -> Set(c.classify, Inspected(custom.index))
       [] name = "classify" /\ ~IsCustom(c, name) -> Set(Freeze(c.classify, place), MetadataFields(m))
       [] name = "tokenBudget" /\ c.tokenBudget.enabled ->
            Set(Freeze(c.tokenBudget, place), [contextLimit |-> m.contextLimit])
       [] name \in Resolvable(c) \ {"classify", "tokenBudget"} -> Freeze(c[name], place)
       [] OTHER -> c[name]

Resolved(c) == [name \in DOMAIN c |-> ResolvedSection(c, name)]

(* resolve: one package of that id, hashed if the job will use it, and     *)
(* after the preflight still the one it was frozen to.                     *)
SectionResolves(c, name, freeze) ==
  LET tokenizers == c.tokenBudget.enabled
  IN \E place \in Packages(c, name, tokenizers) :
       /\ Active(c, name) => HashesOk(hashCache, place, library[place])
       /\ freeze \/ (DOMAIN c[name] \intersect {"resourceManifestRelativePath", "resourceFingerprint"} = {})
            \/ Refers(c[name], place)
       /\ name = "ocr" => c.ocr.resourceId = OCR_MODEL.resourceId
       /\ (name = "tokenBudget" =>
             /\ freeze \/ ~Has(c.tokenBudget, "contextLimit")
                  \/ c.tokenBudget.contextLimit = library[place].manifest.contextLimit
             /\ c.tokenBudget.maxTokens <= library[place].manifest.contextLimit)

CustomResolves(c, freeze) ==
  /\ Has(custom, "index") /\ InspectOk(custom.index, SourcePlace, hashCache)
  /\ freeze \/ \A field \in DOMAIN Inspected(custom.index) :
                 Has(c.classify, field) /\ c.classify[field] = Inspected(custom.index)[field]

IndexOf(c) ==
  IF IsCustom(c, "classify") THEN custom.index ELSE library[PlaceOf(c, "classify", c.tokenBudget.enabled)]

ResolveOk(c, freeze) ==
  LET caption == library[PlaceOf(c, "caption", c.tokenBudget.enabled)]
  IN /\ ScanOk(c.tokenBudget.enabled)
     /\ \A name \in Resolvable(c) : SectionResolves(c, name, freeze)
     /\ IsCustom(c, "classify") => CustomResolves(c, freeze)
     /\ c.caption.enabled => TaggerFits(compatible, caption, IndexOf(c))
     /\ ConfigOk(Resolved(c)) /\ ThresholdsFit(c, caption.manifest)

(* What a successful resolution leaves in the two caches. *)
CachedHashes(c) ==
  LET hashed == {name \in Resolvable(c) : Active(c, name)}
      place(name) == PlaceOf(c, name, c.tokenBudget.enabled)
  IN UNION ({Hashed(hashCache, place(name), library[place(name)]) : name \in hashed}
            \union {IF IsCustom(c, "classify") THEN Hashed(hashCache, SourcePlace, custom.index) ELSE hashCache})

CachedPairs(c) ==
  compatible \union
    IF c.caption.enabled /\ library[PlaceOf(c, "caption", c.tokenBudget.enabled)].manifest.profile
                              = IndexOf(c).manifest.profile
    THEN {<<FingerprintAt(PlaceOf(c, "caption", c.tokenBudget.enabled)), Fingerprint(IndexOf(c).manifest)>>}
    ELSE {}

Sections(c) == Resolvable(c) \union {name \in {"classify", "replace"} : IsCustom(c, name)}

-----------------------------------------------------------------------------
Modules == <<"caption", "classify", "replace", "ocr", "dropout", "token_budget">>
SectionOf(module) ==
  CASE module = "dropout" -> "quality" [] module = "token_budget" -> "tokenBudget" [] OTHER -> module

(* A module that is off, or a dropout without any of its parts, is skipped. *)
Enabled(c, module) ==
  CASE module = "dropout" -> c.dropout.enabled /\ (c.dropout.artist \/ c.quality.enabled)
    [] OTHER -> c[SectionOf(module)].enabled

EnabledModules(c) == {module \in ToSet(Modules) : Enabled(c, module)}
Turn(module) == CHOOSE turn \in DOMAIN Modules : Modules[turn] = module

Init ==
  /\ \E setup \in Setups :
       /\ library = setup.packages /\ defaults = setup.defaults /\ custom = setup.custom
       /\ asked = setup.config /\ config = setup.config /\ changes = setup.changes /\ events = setup.events
  /\ hashCache = {} /\ compatible = {} /\ stage = "new" /\ queue = {} /\ step = "none"
  /\ overlay = <<>> /\ accepted = <<>> /\ loaded = {} /\ fault = "none" /\ touched = FALSE
  /\ submits = 0 /\ repairs = 0

PreflightOk(c) ==
  /\ ~ClientFrozen(c) /\ ConfigOk(c) /\ ResolveOk(c, TRUE)
  /\ (IsCustom(c, "replace") => ~Has(c.replace, "customIndexSha256") /\ InspectCsv)

Frozen(c) ==
  LET resolved == Resolved(c)
  IN IF IsCustom(c, "replace")
     THEN [resolved EXCEPT !.replace =
             Set(@, [customIndexSha256 |-> custom.csv, customIndexRuleCount |-> Len(custom.csv.rows)])]
     ELSE resolved

(* preflight: refuses, or stores the job with everything it resolved. *)
Preflight ==
  /\ stage = "new"
  /\ IF PreflightOk(config)
     THEN /\ config' = Frozen(config) /\ stage' = "ready" /\ touched' = FALSE
          /\ hashCache' = CachedHashes(config) /\ compatible' = CachedPairs(config)
          /\ accepted' = [name \in Sections(config) |->
               CASE name = "replace" /\ IsCustom(config, name) -> custom.csv
                 [] name = "classify" /\ IsCustom(config, name) -> Fingerprint(custom.index.manifest)
                 [] OTHER -> FingerprintAt(PlaceOf(config, name, config.tokenBudget.enabled))]
     ELSE /\ stage' = "refused" /\ UNCHANGED <<config, touched, caches, accepted>>
  /\ submits' = submits + 1
  /\ UNCHANGED <<files, asked, queue, step, overlay, loaded, fault, changes, events, repairs>>

(* The user submits the same configuration again; the process, and with it *)
(* the caches, go on.                                                      *)
SubmitAgain ==
  /\ stage = "ready" /\ Event
  /\ config' = asked /\ stage' = "new" /\ accepted' = <<>>
  /\ UNCHANGED <<files, caches, asked, queue, step, overlay, loaded, fault, touched, changes, submits, repairs>>

Fail(module) == stage' = "failed" /\ fault' = module

\* Counterexample: the confirmation freezes what it finds now.
ConfirmRefreezes ==
  /\ stage = "ready"
  /\ IF ResolveOk(config, TRUE)
     THEN /\ stage' = "confirming" /\ hashCache' = CachedHashes(config) /\ compatible' = CachedPairs(config)
          /\ config' = Resolved(config)
     ELSE /\ stage' = "rejected" /\ UNCHANGED <<caches, config>>
  /\ UNCHANGED <<files, asked, queue, step, overlay, history, touched, counts>>

(* confirm_workspace resolves again without freezing. *)
ConfirmResolve ==
  /\ stage = "ready"
  /\ IF ResolveOk(config, FALSE)
     THEN /\ stage' = "confirming" /\ hashCache' = CachedHashes(config) /\ compatible' = CachedPairs(config)
          /\ config' = Resolved(config)
     ELSE /\ stage' = "rejected" /\ UNCHANGED <<caches, config>>
  /\ UNCHANGED <<files, asked, queue, step, overlay, history, touched, counts>>

(* The custom files, looked at once more, go into the overlay. *)
CopyIndexOk ==
  /\ Has(custom, "index") /\ InspectOk(custom.index, SourcePlace, hashCache)
  /\ Fingerprint(custom.index.manifest) = config.classify.resourceFingerprint
  /\ ContentDigest(custom.index) = config.classify.customResourceContentSha256
  /\ FreezeOk(custom.index)

CopyCsvOk ==
  InspectCsv /\ custom.csv = config.replace.customIndexSha256
             /\ Len(custom.csv.rows) = config.replace.customIndexRuleCount

FrozenClassify ==
  Set(Restrict(config.classify, DOMAIN config.classify \ {"customResourcePath", "customResourceContentSha256"}),
      [resourceManifestRelativePath |-> CopyPlace])

ConfirmFreeze ==
  LET index == IsCustom(config, "classify")
      csv == IsCustom(config, "replace")
      frozen == IF index THEN [config EXCEPT !.classify = FrozenClassify] ELSE config
  IN /\ stage = "confirming"
     /\ IF (index => CopyIndexOk /\ ConfigOk(frozen)) /\ (csv => CopyCsvOk)
        THEN /\ overlay' = [name \in (IF index THEN {"index"} ELSE {}) \union (IF csv THEN {"csv"} ELSE {}) |->
                              custom[name]]
             /\ config' = frozen /\ stage' = "running"
             /\ queue' = EnabledModules(config) /\ step' = "select"
        ELSE /\ stage' = "rejected" /\ UNCHANGED <<overlay, config, queue, step>>
     /\ UNCHANGED <<files, asked, caches, history, touched, counts>>

-----------------------------------------------------------------------------
(* _run_active_module selects the module's package again.                  *)
Running(module, s) ==
  /\ stage = "running" /\ step = s
  /\ module \in queue /\ \A other \in queue : Turn(module) <= Turn(other)

(* _selected_resource and _selected_catalog_package: the library must      *)
(* still hold, whole and hashed, exactly the frozen package.               *)
Selected(name) ==
  /\ ScanOk(TRUE)
  /\ \E place \in Packages(config, name, TRUE) :
       /\ HashesOk(hashCache, place, library[place])
       /\ Refers(config[name], place)

MetadataAgrees(m) == \A field \in DOMAIN MetadataFields(m) : config.classify[field] = MetadataFields(m)[field]

(* _selected_classify_resource. *)
SelectedIndex ==
  IF IsCustom(config, "classify")
  THEN /\ Has(overlay, "index")
       /\ LoadClassifyResource({}, CopyPlace, FALSE, config.classify.resourceFingerprint, overlay.index)
       /\ MetadataAgrees(overlay.index.manifest)
       /\ config.classify.resourceId = overlay.index.manifest.resourceId
  ELSE /\ Selected("classify")
       /\ config.classify.resourceProfile
            = library[config.classify.resourceManifestRelativePath].manifest.profile

SelectOk(module) ==
  CASE module = "caption" -> Selected("caption") /\ SelectedIndex
    [] module = "classify" -> SelectedIndex
    [] module = "replace" -> IF IsCustom(config, "replace") THEN Has(config.replace, "customIndexSha256")
                             ELSE Selected("replace")
    [] module = "dropout" -> Selected("quality")
    [] module = "ocr" -> Selected("ocr")
    [] OTHER -> TRUE

(* The packages in the library that the selection hashes. *)
SelectedPlaces(module) ==
  {config[name].resourceManifestRelativePath :
     name \in {n \in (CASE module = "caption" -> {"caption", "classify"}
                        [] module = "token_budget" -> {}
                        [] OTHER -> {SectionOf(module)}) : ~IsCustom(config, n)}}

Select(module) ==
  /\ Running(module, "select")
  /\ IF SelectOk(module)
     THEN /\ step' = "check" /\ UNCHANGED <<stage, fault>>
          /\ hashCache' = UNION ({hashCache} \union
               {Hashed(hashCache, place, library[place]) : place \in SelectedPlaces(module)})
     ELSE /\ Fail(module) /\ UNCHANGED <<step, hashCache>>
  /\ UNCHANGED <<files, asked, compatible, config, queue, overlay, accepted, loaded, touched, counts>>

-----------------------------------------------------------------------------
(* The runner's own check, before any work.                                *)
Installed(name) == config[name].resourceManifestRelativePath \in DOMAIN library
Package(name) ==
  IF name = "classify" /\ IsCustom(config, name) THEN overlay.index
  ELSE library[config[name].resourceManifestRelativePath]
Present(name) ==
  IF name = "classify" /\ IsCustom(config, name) THEN Has(overlay, "index") ELSE Installed(name)

Readable(name, role) ==
  LET p == Package(name)
  IN /\ Present(name) /\ p.manifest.schemaVersion = 1 /\ role \in DOMAIN p.manifest.entrypoints
     /\ p.manifest.entrypoints[role] \in DOMAIN p.disk

(* verify_tagger_dictionary_coverage, for an e621 tagger. *)
Coverage ==
  LET labels == Entrypoint(Package("caption"), "tags").data.labels
      entries == Entrypoint(Package("classify"), "dictionary").data.entries
  IN Readable("caption", "tags") /\ Readable("classify", "dictionary")
     /\ labels # {} /\ entries # {} /\ labels \subseteq entries

(* ClassifyRunner._hello reads the whole index and compares it. *)
ClassifyHelloOk ==
  /\ IDENTITY \union REFERENCE \subseteq DOMAIN config.classify /\ Present("classify")
  /\ LoadClassifyResource(IF IsCustom(config, "classify") THEN {} ELSE hashCache,
                          config.classify.resourceManifestRelativePath, FALSE,
                          config.classify.resourceFingerprint, Package("classify"))
  /\ MetadataAgrees(Package("classify").manifest)
  /\ config.classify.resourceId = Package("classify").manifest.resourceId

(* load_replace_resource_from_install. *)
LoadReplaceResource(place, fingerprint) ==
  /\ Installed("replace") /\ LoadOk("replacement-index", place, FALSE, library[place])
  /\ FingerprintAt(place) = fingerprint /\ HashesOk(hashCache, place, library[place])

(* ReplaceRunner._validate_resource. *)
ReplaceResourceOk ==
  IF IsCustom(config, "replace")
  THEN /\ Has(overlay, "csv") /\ ValidateRows(overlay.csv)
       /\ overlay.csv = config.replace.customIndexSha256
       /\ Len(overlay.csv.rows) = config.replace.customIndexRuleCount
  ELSE LoadReplaceResource(config.replace.resourceManifestRelativePath, config.replace.resourceFingerprint)

(* PolicyRunner._config: without quality there is no resource at all. *)
PolicyConfigOk ==
  config.quality.enabled =>
    Installed("quality") /\ Package("quality").manifest.resourceId = config.quality.resourceId

(* TokenBudgetRunner._config. *)
BudgetConfigOk ==
  /\ DOMAIN config.tokenBudget = {"enabled", "maxTokens", "resourceId"} \union FROZEN_BUDGET
  /\ config.tokenBudget.maxTokens \in 1..config.tokenBudget.contextLimit

CheckOk(module) ==
  CASE module = "caption" -> accepted.caption.profile = "e621" => Coverage
    [] module = "classify" -> ClassifyHelloOk
    [] module = "replace" -> ReplaceResourceOk
    [] module = "dropout" -> PolicyConfigOk
    [] module = "token_budget" -> BudgetConfigOk
    [] OTHER -> TRUE

RunnerCheck(module) ==
  /\ Running(module, "check")
  /\ IF CheckOk(module) THEN step' = "load" /\ UNCHANGED <<stage, fault>>
     ELSE Fail(module) /\ UNCHANGED step
  /\ UNCHANGED <<files, asked, caches, config, queue, overlay, accepted, loaded, touched, counts>>

-----------------------------------------------------------------------------
(* The hello of a module with work, and the worker's initialize.           *)
CustomRows(module) == module = "replace" /\ IsCustom(config, module)
UsesPackage(module) == ~CustomRows(module) /\ (module = "dropout" => config.quality.enabled)

WorkerLoads(module) ==
  LET name == SectionOf(module)
      place == config[name].resourceManifestRelativePath
      fingerprint == config[name].resourceFingerprint
      p == Package(name)
  IN IF ~UsesPackage(module)
     THEN CustomRows(module) =>
            Has(overlay, "csv") /\ CustomReplaceLoad(overlay.csv, config.replace.customIndexSha256,
                                                     config.replace.customIndexRuleCount)
     ELSE /\ Present(name)
          /\ CASE module = "caption" ->
                    CaptionInitialize(p, fingerprint, p.manifest.profile, config.caption)
               [] module = "classify" ->
                    ClassifyInitialize(p, fingerprint, config.classify.resourceProfile,
                                       config.classify.wikiDataSourceId)
               [] module = "replace" -> ReplaceLoad(p, fingerprint)
               [] module = "ocr" -> OcrLoad(p, place, fingerprint)
               [] module = "dropout" -> PolicyInitialize(p, fingerprint, config.quality.resourceId)
               [] OTHER -> TokenizerLoad(p, place, config.tokenBudget.resourceId, fingerprint,
                                         config.tokenBudget.contextLimit)

(* What is on disk where a file is not as the manifest records it. *)
Changed(p) == {path \in DOMAIN Files(p.manifest) : p.disk[path].data # Files(p.manifest)[path].sha256}

Content(module) ==
  IF CustomRows(module) THEN [module |-> module, what |-> overlay.csv, changed |-> {}]
  ELSE LET p == Package(SectionOf(module))
       IN [module |-> module, what |-> Fingerprint(p.manifest), changed |-> Changed(p)]

Done(module) ==
  /\ queue' = queue \ {module}
  /\ IF queue' = {} THEN stage' = "reviewing" /\ step' = "none" ELSE step' = "select" /\ UNCHANGED stage

Load(module) ==
  /\ Running(module, "load")
  /\ IF WorkerLoads(module)
     THEN /\ Done(module) /\ UNCHANGED fault
          /\ loaded' = loaded \union (IF UsesPackage(module) \/ CustomRows(module) THEN {Content(module)} ELSE {})
     ELSE Fail(module) /\ UNCHANGED <<queue, step, loaded>>
  /\ UNCHANGED <<files, asked, caches, config, overlay, accepted, touched, counts>>

(* A module without work sends no hello. *)
NoWork(module) ==
  /\ Running(module, "load") /\ Done(module)
  /\ UNCHANGED <<files, asked, caches, config, overlay, history, touched, counts>>

(* A lost worker is started again from the selection. *)
WorkerLost(module) ==
  /\ Running(module, "load") /\ Event /\ step' = "select"
  /\ UNCHANGED <<files, asked, caches, config, stage, queue, overlay, history, touched, changes, submits, repairs>>

(* RepairPreparationService.prepare: the same configuration, a new         *)
(* overlay; the custom index is copied from the parent's, the CSV is not.  *)
Repair ==
  /\ stage \in {"reviewing", "failed"} /\ Event /\ ConfigOk(config)
  /\ IsCustom(config, "classify") =>
       /\ Has(overlay, "index") /\ InspectOk(overlay.index, CopyPlace, {}) /\ FreezeOk(overlay.index)
       /\ Fingerprint(overlay.index.manifest) = config.classify.resourceFingerprint
  /\ overlay' = Restrict(overlay, DOMAIN overlay \intersect {"index"})
  /\ repairs' = repairs + 1 /\ stage' = "running" /\ queue' = EnabledModules(config) /\ step' = "select"
  /\ fault' = "none"
  /\ UNCHANGED <<files, asked, caches, config, accepted, loaded, touched, changes, submits>>

(* A new backend process starts with empty caches. *)
Restart ==
  /\ stage \in {"ready", "reviewing", "failed"} /\ Event
  /\ hashCache' = {} /\ compatible' = {}
  /\ UNCHANGED <<files, asked, config, stage, queue, step, overlay, history, touched, changes, submits, repairs>>

-----------------------------------------------------------------------------
(* What happens to the files meanwhile.                                    *)
Other(role, data) ==
  CASE role = "tags" -> [data EXCEPT !.labels = @ \union {"new"}]
    [] role = "dictionary" -> [data EXCEPT !.entries = @ \union {"new"}]
    [] role = "countDatabase" -> [data EXCEPT !.titles = Append(@, 99)]
    [] role = "thresholds" -> [category \in DOMAIN data |-> data[category] + 1]
    [] role = "index" -> [data EXCEPT !.rows = Append(@, [source |-> "new", action |-> "keep", parts |-> <<"tag">>])]
    [] OTHER -> data + 1

RoleOf(m, path) ==
  IF m.kind = "tokenizer" \/ path \notin Range(m.entrypoints) THEN "none"
  ELSE CHOOSE role \in DOMAIN m.entrypoints : m.entrypoints[role] = path

(* Other content: of the size and stamp of the old, of its size, of neither. *)
Written(p, path, how) ==
  LET file == p.disk[path]
  IN [p EXCEPT !.disk[path] =
        [size |-> IF how = "resized" THEN file.size + 1 ELSE file.size,
         stamp |-> IF how = "unstamped" THEN file.stamp ELSE file.stamp + 1,
         data |-> Other(RoleOf(p.manifest, path), file.data)]]

(* The package as another release: a new version, and so fingerprint. *)
Rebuilt(p) ==
  LET m == [p.manifest EXCEPT !.resourceVersion.bytes = @ + 1]
  IN [p EXCEPT !.manifest = IF m.kind = "tokenizer" THEN [m EXCEPT !.fingerprint = Without(m, {"fingerprint"})] ELSE m]

Variants(p) ==
  {Written(p, path, how) : path \in DOMAIN Files(p.manifest) \intersect DOMAIN p.disk,
                           how \in {"unstamped", "rewritten", "resized"}}
  \union {Rebuilt(p)}

ChangePackage(place) ==
  \/ \E p \in Variants(library[place]) : library' = [library EXCEPT ![place] = p]
  \/ library' = Restrict(library, DOMAIN library \ {place})
  \/ \E moved \in {<<place[1], "other">>} \ DOMAIN library :
       \/ library' = library @@ (moved :> library[place])
       \/ library' = Restrict(library, DOMAIN library \ {place}) @@ (moved :> library[place])

ChangeCustom ==
  \/ Has(custom, "index") /\ \E p \in Variants(custom.index) : custom' = [custom EXCEPT !.index = p]
  \/ /\ Has(custom, "csv")
     /\ custom' = [custom EXCEPT !.csv = Other("index", @)]
  \/ \E name \in DOMAIN custom : custom' = Restrict(custom, DOMAIN custom \ {name})

Change ==
  /\ changes > 0 /\ changes' = changes - 1 /\ touched' = TRUE
  /\ stage \in {"ready", "confirming", "running", "reviewing", "failed"}
  /\ \/ \E place \in DOMAIN library : ChangePackage(place) /\ UNCHANGED <<custom, defaults>>
     \/ ChangeCustom /\ UNCHANGED <<library, defaults>>
     \/ \E key \in DOMAIN defaults : defaults' = [defaults EXCEPT ![key] = "another"] /\ UNCHANGED <<library, custom>>
  /\ UNCHANGED <<caches, asked, config, stage, queue, step, overlay, history, events, submits, repairs>>

Next ==
  \/ Preflight \/ SubmitAgain \/ ConfirmResolve \/ ConfirmFreeze \/ Repair \/ Restart \/ Change
  \/ \E module \in ToSet(Modules) :
       Select(module) \/ RunnerCheck(module) \/ Load(module) \/ NoWork(module) \/ WorkerLost(module)

Spec == Init /\ [][Next]_vars

-----------------------------------------------------------------------------
(* Whatever changes in the library, in the custom files and in the caches, *)
(* and however often a worker is lost or the job is repaired: what a       *)
(* worker works with is what the preflight showed the user for that        *)
(* module, and every file holds what its manifest records.  One file is    *)
(* excepted: the caption worker loads the weights beside its model without *)
(* hashing them (_load_catalog_resource), so that they may differ, but     *)
(* only when something was changed after the preflight or before a later   *)
(* one, which takes a file for the one it hashed by its size and stamp.    *)
LoadedIsFrozen ==
  \A l \in loaded :
    /\ l.what = accepted[SectionOf(l.module)]
    /\ l.changed # {} =>
         /\ l.module = "caption" /\ l.changed \subseteq Weights(l.what)
         /\ touched \/ submits > 1

(* What the core accepts and a worker refuses, and what the preflight does *)
(* not look at.                                                            *)
Documented(p) == p.manifest.documentation # <<>>
Nested(p) == p.dirs # {} \/ \E path \in DOMAIN p.disk : Len(path) > 1

(* The preflight hashes a bundled index and reads no further; a custom one *)
(* it reads in full.                                                       *)
Unread(p) ==
  LET m == p.manifest
      dictionary == Entrypoint(p, "dictionary").data
  IN \/ dictionary.source # m.profile \/ dictionary.count # m.metadata.dictionaryEntryCount
     \/ Cardinality(dictionary.entries) # m.metadata.dictionaryEntryCount
     \/ (m.profile = "danbooru" /\ dictionary.provenance # Restrict(m.metadata, DOMAIN dictionary.provenance))
     \/ ~WikiOk(m, Entrypoint(p, "countDatabase").data)

Gap(module) ==
  LET name == SectionOf(module)
      p == Package(name)
      m == p.manifest
      \* content that changed behind an entry of the hash cache, at the same size and stamp
      hidden == submits > 1 /\ (Changed(p) # {} \/ (module = "caption" /\ Changed(Package("classify")) # {}))
  IN \/ (CustomRows(module) /\ repairs > 0)
     \/ /\ ~CustomRows(module)
        /\ \/ hidden
           \/ CASE module = "caption" ->
                     \/ m.resourceVersion.bytes > 256
                     \/ ~IsInjective(m.documentation) \/ ToSet(m.documentation) \intersect DOMAIN m.files # {}
                     \/ ~TaggerAdapter(p)
                [] module = "classify" ->
                     \/ Documented(p) \/ Nested(p) \/ ~IsInjective(m.entrypoints)
                     \/ m.metadata.wikiApplicationId # WikiApplicationId(m.profile)
                     \/ m.metadata.wikiSchemaVersion # WIKI_SCHEMA_VERSION \/ Unread(p)
                     \/ (m.profile = "e621" /\ m.metadata.dictionaryEntryCount # ENTRY_COUNT)
                     \/ ~Entrypoint(p, "dictionary").data.sound
                     \/ (m.profile = "danbooru" /\ ~CountRulesFit(p))
                [] module = "replace" ->
                     \/ ~CsvRules(Entrypoint(p, "index").data)
                     \/ CsvStatistics(Entrypoint(p, "index").data) # m.metadata
                [] module = "ocr" ->
                     \/ config.ocr.resourceManifestRelativePath[2] # OCR_MODEL.resourceId
                     \/ Documented(p) \/ ~DirectoryLayout(p) \/ ~m.resourceVersion.pinned
                     \/ m.entrypoints # OCR_ENTRYPOINTS \/ ~OcrDistribution(m.distribution)
                [] module = "dropout" -> ~config.quality.enabled /\ Changed(p) # {}
                [] OTHER ->
                     \/ config.tokenBudget.resourceManifestRelativePath # m.rootRelativePath
                     \/ p.disk[<<"tokenizer.json">>].data = 0

(* A job whose files nobody touches after the preflight does not fail on   *)
(* its resources later: neither when a module selects its package again    *)
(* nor in the worker, which validates it by rules of its own.  The points  *)
(* in which this code does not keep that promise are those of Gap, and no  *)
(* others.                                                                 *)
PreflightIsEnough == (fault # "none" /\ ~touched) => Gap(fault)
==============================================================================

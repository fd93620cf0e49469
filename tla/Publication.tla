------------------------------ MODULE Publication ------------------------------
(***************************************************************************)
(* The maintenance scripts of packaging/scripts: each one stages OCR or    *)
(* tokenizer artifacts, probes them offline and publishes them together by *)
(* renaming what stands at a target to a hidden sibling, renaming the       *)
(* staged artifact to the target, and taking both renames back when one     *)
(* fails.  There is no journal: a hidden sibling is known to the process    *)
(* that made it alone.  Any file operation may fail, the ones that undo     *)
(* too, and the process may die between two of them.                        *)
(*                                                                         *)
(* The content of a target is the number of the build that staged it.  All *)
(* builds have the same critical files (the interpreter and the worker's   *)
(* own sources), so the verification tells builds apart by their lock only. *)
(***************************************************************************)
EXTENDS Integers, Sequences, FiniteSets, SequencesExt

CONSTANTS MaxTries, MaxBreaks   \* bounds: scripts started; failing operations and deaths

VARIABLES
  place,      \* what stands at each target
  hidden,     \* the siblings .<name>.ocr-backup-<uuid>, .<name>.tokenizer-backup-<uuid>
  script, at, \* the script, and its step
  staged,     \* its staging tree
  todo, moved, kept, outcome,   \* its pairs to publish, published, set aside; what it will report
  found, failing,   \* histories: the targets when it started, the operations that failed since
  tries, breaks

disk == <<place, hidden>>
process == <<script, staged, todo, moved, kept, outcome>>
vars == <<disk, process, at, found, failing, tries, breaks>>

None == 0
Damaged == -1   \* removed in part, a critical file with it
Hollow == -2    \* removed in part, the critical files still there

Parts(f) == {<<f, p>> : p \in {"lock", "wheels", "runtime", "mirror", "manifest"}}
Ocr == <<"ocr", "package">>
Anima == <<"anima", "package">>   \* the tokenizers
Krea == <<"krea", "package">>
Packages == {Ocr, Anima, Krea}
Targets == Parts("cpu") \cup Parts("gpu") \cup Parts("tokenizer") \cup Packages
\* A rename does not replace a directory, but a file.
Tree(t) == t[2] \in {"wheels", "runtime", "package"}
Frozen == 1     \* the package made of the frozen archives

Scripts == {"import", "model", "component-cpu", "component-gpu", "gpu", "tokenizer", "reset"}
Component == script \in {"component-cpu", "component-gpu"}
Resting == {"idle", "done", "failed", "dead"}

-----------------------------------------------------------------------------
\* verify_files: the mirror of the lock is the manifest's, the critical files are its.
Verified(f) ==
  /\ place[<<f, "mirror">>] = place[<<f, "manifest">>]
  /\ place[<<f, "runtime">>] # Damaged
Installed(f) == {<<f, "runtime">>, <<f, "manifest">>, <<f, "mirror">>}
RuntimeState(f) ==
  IF \A t \in Installed(f) : place[t] = None THEN "absent"
  ELSE IF (\A t \in Installed(f) : place[t] # None) /\ Verified(f) THEN "complete" ELSE "partial"
PackageState ==
  CASE place[Ocr] = None -> "absent"
    [] place[Ocr] = Damaged -> "partial"
    [] OTHER -> "complete"
Inspected ==
  LET cpu == RuntimeState("cpu") gpu == RuntimeState("gpu") IN
  CASE {cpu, gpu, PackageState} = {"absent"} -> "none"
    [] cpu = "complete" /\ PackageState = "complete" /\ gpu = "absent" -> "cpu"
    [] cpu = "complete" /\ PackageState = "complete" /\ gpu = "complete" -> "gpu"
    [] OTHER -> "error"

\* What each script asks for before it stages anything, with the model archives the user has
\* downloaded.  The presence test of the archives knows their names, the resolution their hashes.
Archives == {"absent", "empty", "incomplete", "invalid", "complete"}
ManualInput(archives) ==
  IF place[Ocr] # None THEN IF place[Ocr] = Damaged THEN "error" ELSE "idempotent"
  ELSE CASE archives \in {"absent", "empty"} -> "missing"
         [] archives = "incomplete" -> "error"
         [] OTHER -> "ready"
ArchivesResolve(archives) == archives = "complete"
ComponentReady(archives) ==
  /\ Component /\ archives # "absent"
  /\ Inspected = "gpu" \/ (Inspected = "cpu" /\ script = "component-cpu")
GpuPresent == \E t \in Installed("gpu") \cup {<<"gpu", "lock">>} : place[t] # None
Ready(archives) == ComponentReady(archives) \/ (script = "model" /\ ManualInput(archives) \in {"missing", "idempotent"})
ModelRefused(archives) ==
  ManualInput(archives) = "error" \/ ~ArchivesResolve(archives) \/ place[<<"cpu", "runtime">>] = None
ComponentRefused(archives) ==
  Inspected = "error" \/ archives = "absent" \/ (Inspected = "none" /\ ~ArchivesResolve(archives))
Refused(archives) ==
  \/ script = "import" /\ ~ArchivesResolve(archives)
  \/ script = "model" /\ ModelRefused(archives)
  \/ Component /\ ComponentRefused(archives)
  \/ script = "gpu" /\ GpuPresent

-----------------------------------------------------------------------------
\* The package made of the archives is always the same one.
ModelPackage == Frozen

\* A downloaded component: its payload is exactly what its manifest lists, and its lock, the
\* mirror of the lock and the lock its runtime manifest names are one.
ComponentOffers ==
  [listed : {[f \in {"python", "worker"} |-> 1]}, payload : UNION {[S -> {1, 2}] : S \in SUBSET {"python", "worker", "extra"}},
   lock : {1, 2}, mirror : {1, 2}, named : {1, 2}]
ComponentLoads(offer) == offer.listed = offer.payload
ComponentStages(offer) == ComponentLoads(offer) /\ offer.lock = offer.mirror /\ offer.named = offer.mirror
ComponentOffered == \E offer \in ComponentOffers : ComponentStages(offer)

\* The wheels of the GPU runtime: each for this platform, each project once, the CUDA build of
\* paddle and not the other.
Wheel(name, fits) == [name |-> name, fits |-> fits]
GpuWheels == {Wheel(n, f) : n \in {"paddle-gpu", "paddle", "paddleocr"}, f \in BOOLEAN}
WheelInventory(wheels) ==
  /\ \A w \in wheels : w.fits
  /\ {w.name : w \in wheels} = {"paddle-gpu", "paddleocr"}
GpuWheelsFound == \E wheels \in SUBSET GpuWheels : WheelInventory(wheels)
\* Its probe loads the published package, of the fingerprint the script was written for.
GpuProbed == place[Ocr] = Frozen

\* The official files of a tokenizer: all of one commit, the two required ones among them, and
\* one context limit in the whole configuration.
Moving == 0
OfficialOffers ==
  [heads : UNION {[S -> {Moving, 1, 2}] : S \in {{"config"}, {"config", "tokenizer"}}},
   limits : {<<>>, <<40>>, <<40, 32>>}]
RequiredFiles(files) == {"config", "tokenizer"} \subseteq files
OfficialRevision(heads) ==
  IF RequiredFiles(DOMAIN heads) /\ Cardinality(Range(heads)) = 1
  THEN CHOOSE r \in Range(heads) : TRUE ELSE Moving
ContextLimit(limits) == Len(limits) = 1
TokenizerStages(offer) == OfficialRevision(offer.heads) # Moving /\ ContextLimit(offer.limits)
OfficialRevisions == {OfficialRevision(o.heads) : o \in {o \in OfficialOffers : TokenizerStages(o)}}

\* The order in which each script publishes.
ImportPairs ==
  [i \in 1..5 |-> <<"cpu", <<"lock", "wheels", "runtime", "mirror", "manifest">>[i]>>]
    \o IF place[Ocr] = None THEN <<Ocr>> ELSE <<>>
ComponentPairs ==
  LET need == IF Inspected = "cpu" THEN <<"gpu">>
              ELSE IF script = "component-gpu" THEN <<"cpu", "gpu">> ELSE <<"cpu">>
      Of(part) == [i \in DOMAIN need |-> <<need[i], part>>]
  IN Of("runtime") \o Of("manifest") \o Of("mirror") \o IF Inspected = "none" THEN <<Ocr>> ELSE <<>>
GpuPairs == [i \in 1..4 |-> <<"gpu", <<"runtime", "manifest", "mirror", "lock">>[i]>>]
TokenizerPairs ==
  [i \in 1..5 |-> <<"tokenizer", <<"lock", "wheels", "runtime", "mirror", "manifest">>[i]>>]
    \o (IF place[Anima] = None THEN <<Anima>> ELSE <<>>) \o IF place[Krea] = None THEN <<Krea>> ELSE <<>>

\* A manifest names the lock it was generated with, and the mirror is a copy of that lock.
BuildOf(t) == tries + 1

-----------------------------------------------------------------------------
Break == breaks < MaxBreaks /\ breaks' = breaks + 1 /\ failing' = failing \cup {<<at, breaks>>}
Calm == UNCHANGED <<breaks, failing>>
\* Those that stage outside the kept cache remove their staging tree at the end.
Tidies == script \in {"model", "component-cpu", "component-gpu", "tokenizer"}
Conclude(report) ==
  /\ outcome' = report
  /\ at' = IF Tidies THEN "tidy" ELSE report

Found(f, parts, build) == [t \in Parts(f) |-> IF t[2] \in parts THEN build ELSE None]
All == {"lock", "wheels", "runtime", "mirror", "manifest"}
Init ==
  /\ \E cpu \in {{"lock", "wheels"}, All}, gpu \in {{}, All \ {"wheels"}}, tb \in {{}, All},
        ocr \in {None, Frozen, 2}, anima \in {None, 1} :
       /\ tb # {} => anima # None
       /\ gpu # {} => cpu = All /\ ocr # None
       /\ place = [t \in Targets |->
                     CASE t \in Parts("cpu") -> Found("cpu", cpu, 1)[t]
                       [] t \in Parts("gpu") -> Found("gpu", gpu, 1)[t]
                       [] t \in Parts("tokenizer") -> Found("tokenizer", tb, 1)[t]
                       [] t = Ocr -> ocr
                       [] OTHER -> anima]
  /\ hidden = {} /\ script = "none" /\ at = "idle" /\ staged = [t \in Targets |-> None]
  /\ todo = <<>> /\ moved = <<>> /\ kept = <<>> /\ outcome = "none"
  /\ found = place /\ failing = {} /\ tries = 0 /\ breaks = 0

Start(s) ==
  /\ at \in Resting /\ tries < MaxTries /\ tries' = tries + 1
  /\ script' = s /\ at' = (IF s = "reset" THEN "reset" ELSE "check") /\ outcome' = "none"
  /\ staged' = [t \in Targets |-> None] /\ todo' = <<>> /\ moved' = <<>> /\ kept' = <<>>
  /\ found' = place /\ failing' = {}
  /\ UNCHANGED <<disk, breaks>>

Check ==
  /\ at = "check"
  /\ \E archives \in Archives :
       \/ Ready(archives) /\ at' = "done"
       \/ ~Ready(archives) /\ Refused(archives) /\ at' = "failed"
       \/ ~Ready(archives) /\ ~Refused(archives) /\ at' = "stage"
  /\ Calm /\ UNCHANGED <<disk, process, found, tries>>

\* Building, downloading and probing touch the staging tree only, and may fail without a fault.
StagingFails ==
  /\ at = "stage" /\ Conclude("failed")
  /\ Calm /\ UNCHANGED <<disk, script, staged, todo, moved, kept, found, tries>>
StageFor(pairs, Content(_)) ==
  /\ at = "stage" /\ at' = "setAside" /\ todo' = pairs
  /\ staged' = [t \in Targets |-> IF t \in Range(pairs) THEN Content(t) ELSE None]
  /\ Calm /\ UNCHANGED <<hidden, script, moved, kept, outcome, found, tries>>
CpuContent(t) == IF t = Ocr THEN ModelPackage ELSE BuildOf(t)
GpuContent(t) == BuildOf(t)
TokenizerContent(t, revision) == IF t \in Packages THEN revision[t] ELSE BuildOf(t)

\* The wheels come from the published wheelhouse; a package that stands already must be the
\* staged one.
ImportStage ==
  /\ script = "import" /\ place[<<"cpu", "wheels">>] # None /\ place[Ocr] \in {None, ModelPackage}
  /\ StageFor(ImportPairs, CpuContent) /\ UNCHANGED place
ModelStage ==
  /\ script = "model" /\ place[Ocr] = None
  /\ StageFor(<<Ocr>>, CpuContent) /\ UNCHANGED place
ComponentStage ==
  /\ Component /\ ComponentOffered
  /\ StageFor(ComponentPairs, CpuContent) /\ UNCHANGED place
\* The wheels the lock was resolved from are removed before the publication.
GpuStage ==
  /\ script = "gpu" /\ GpuProbed /\ GpuWheelsFound
  /\ StageFor(GpuPairs, GpuContent) /\ place' = [place EXCEPT ![<<"gpu", "wheels">>] = None]
\* A tokenizer that stands already is left alone when it is the staged one, else it is a conflict.
TokenizerStage ==
  /\ script = "tokenizer"
  /\ \E revision \in [{Anima, Krea} -> OfficialRevisions] :
       /\ \A t \in {Anima, Krea} : place[t] \in {None, revision[t]}
       /\ StageFor(TokenizerPairs, LAMBDA t : TokenizerContent(t, revision))
  /\ UNCHANGED place

-----------------------------------------------------------------------------
\* The publication: the GPU script, whose targets were all absent, sets nothing aside.
Discarded(t) == hidden   \* a mutant
Siblings(t) == hidden \cup {[target |-> t, content |-> place[t], by |-> tries]}
SetAside ==
  /\ at = "setAside"
  /\ LET t == Head(todo) IN
     \/ /\ place[t] = None \/ script = "gpu"
        /\ at' = "putIn" /\ Calm /\ UNCHANGED <<place, hidden, kept>>
     \/ /\ place[t] # None /\ script # "gpu"
        /\ hidden' = Siblings(t)
        /\ place' = [place EXCEPT ![t] = None]
        /\ kept' = Append(kept, t) /\ at' = "putIn" /\ Calm
     \/ Break /\ at' = "undo" /\ UNCHANGED <<place, hidden, kept>>
  /\ UNCHANGED <<script, staged, todo, moved, outcome, found, tries>>

PutIn ==
  /\ at = "putIn"
  /\ LET t == Head(todo) IN
     \/ /\ place' = [place EXCEPT ![t] = staged[t]] /\ staged' = [staged EXCEPT ![t] = None]
        /\ moved' = Append(moved, t) /\ todo' = Tail(todo) /\ Calm
        /\ at' = IF todo' # <<>> THEN "setAside" ELSE IF Component THEN "inspect" ELSE "dropKept"
     \/ Break /\ at' = "undo" /\ UNCHANGED <<place, staged, moved, todo>>
  /\ UNCHANGED <<hidden, script, kept, outcome, found, tries>>

\* The last published first, each back to the staging tree.  A failing rename is passed over,
\* but for the GPU script, which stops there.
UndoMoved ==
  /\ at = "undo" /\ moved # <<>>
  /\ LET t == Last(moved) IN
     \/ /\ staged' = [staged EXCEPT ![t] = place[t]] /\ place' = [place EXCEPT ![t] = None]
        /\ moved' = Front(moved) /\ Calm /\ UNCHANGED <<at, outcome>>
     \/ /\ Break /\ UNCHANGED <<place, staged>>
        /\ moved' = (IF script = "gpu" THEN <<>> ELSE Front(moved))
        /\ IF script = "gpu" THEN Conclude("failed") ELSE UNCHANGED <<at, outcome>>
  /\ UNCHANGED <<hidden, script, todo, kept, found, tries>>

\* Then what was set aside, back to its target; a directory does not replace what still stands.
Forgotten(t) == UNCHANGED <<place, hidden>>   \* a mutant
Restored(t) ==
  LET h == CHOOSE x \in hidden : x.target = t /\ x.by = tries
  IN /\ place' = [place EXCEPT ![t] = h.content] /\ hidden' = hidden \ {h}
UndoKept ==
  /\ at = "undo" /\ moved = <<>> /\ kept # <<>>
  /\ LET t == Last(kept) IN
     \/ (~Tree(t) \/ place[t] = None) /\ Restored(t) /\ Calm
     \/ Tree(t) /\ place[t] # None /\ Calm /\ UNCHANGED <<place, hidden>>
     \/ Break /\ UNCHANGED <<place, hidden>>
  /\ kept' = Front(kept)
  /\ UNCHANGED <<script, at, staged, todo, moved, outcome, found, tries>>
Undone ==
  /\ at = "undo" /\ moved = <<>> /\ kept = <<>> /\ Conclude("failed")
  /\ Calm /\ UNCHANGED <<disk, script, staged, todo, moved, kept, found, tries>>

\* install_optional_ocr reads back what it published.
Inspect ==
  /\ at = "inspect"
  /\ \/ Inspected = (IF script = "component-cpu" THEN "cpu" ELSE "gpu") /\ at' = "dropKept" /\ Calm
     \/ Break /\ at' = "undo"
  /\ UNCHANGED <<disk, process, found, tries>>

\* The siblings are removed when all is published: a failure is reported, nothing is undone.
DropKept ==
  /\ at = "dropKept" /\ kept # <<>>
  /\ LET h == CHOOSE x \in hidden : x.target = Head(kept) /\ x.by = tries IN
     \/ /\ hidden' = hidden \ {h} /\ kept' = Tail(kept) /\ Calm /\ UNCHANGED <<at, outcome>>
     \/ /\ Break /\ hidden' \in {hidden, (hidden \ {h}) \cup {[h EXCEPT !.content = Damaged]}}
        /\ Conclude("failed") /\ UNCHANGED kept
  /\ UNCHANGED <<place, script, staged, todo, moved, found, tries>>
Dropped ==
  /\ at = "dropKept" /\ kept = <<>> /\ Conclude("done")
  /\ Calm /\ UNCHANGED <<disk, script, staged, todo, moved, kept, found, tries>>

\* The finally of those that remove their staging tree.
Tidy ==
  /\ at = "tidy"
  /\ (at' = outcome /\ Calm) \/ (Break /\ at' = "failed")
  /\ UNCHANGED <<disk, process, found, tries>>

\* reset --apply removes the CPU runtime, and not its manifest or its lock.
Reset ==
  /\ at = "reset"
  /\ \/ place' = [place EXCEPT ![<<"cpu", "runtime">>] = None] /\ at' = "done" /\ Calm
     \/ /\ Break /\ at' \in {"failed", "dead"} /\ place[<<"cpu", "runtime">>] # None
        /\ \E left \in {place[<<"cpu", "runtime">>], Damaged, Hollow} :
             place' = [place EXCEPT ![<<"cpu", "runtime">>] = left]
  /\ UNCHANGED <<hidden, process, found, tries>>

Die ==
  /\ at \notin Resting /\ Break /\ at' = "dead"
  /\ UNCHANGED <<disk, process, found, tries>>

Next ==
  \/ \E s \in Scripts : Start(s)
  \/ Check \/ StagingFails \/ ImportStage \/ ModelStage \/ ComponentStage \/ GpuStage \/ TokenizerStage
  \/ SetAside \/ PutIn \/ UndoMoved \/ UndoKept \/ Undone
  \/ Inspect \/ DropKept \/ Dropped \/ Tidy \/ Reset \/ Die

Spec == Init /\ [][Next]_vars

-----------------------------------------------------------------------------
Transient == {<<"gpu", "wheels">>}

\* A script that reports an error leaves every target as it found it, unless a second operation
\* failed while the first was undone, or the failing one was a removal.
FailureRestores ==
  (at = "failed" /\ Cardinality(failing) <= 1 /\ \A x \in failing : x[1] \notin {"dropKept", "tidy", "reset"})
    => \A t \in Targets \ Transient : place[t] = found[t]

\* What stood at a target is given up only when everything the script publishes is in place:
\* until then it stands there or in a sibling, whatever fails and wherever the process dies.
OldUntilAllIsNew ==
  (script # "reset" /\ at # "idle"
     /\ \E t \in Targets \ Transient :
          /\ found[t] > None /\ place[t] # found[t]
          /\ [target |-> t, content |-> found[t], by |-> tries] \notin hidden)
    => (todo = <<>> /\ \A i \in DOMAIN moved : place[moved[i]] # None)
================================================================================

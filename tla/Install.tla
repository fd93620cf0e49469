-------------------------------- MODULE Install --------------------------------
(***************************************************************************)
(* The installer (packaging/installer): it skips the components that are   *)
(* recorded and verified, assembles the others in a private staging tree,  *)
(* probes them, falls back from CUDA to CPU or drops the OCR GPU runtime,  *)
(* publishes the staged trees under a journal, writes the runtime manifests *)
(* and at last the install state.  A file operation may fail and the       *)
(* process may die at every step; the next run starts with the recovery of *)
(* the journal.                                                            *)
(*                                                                         *)
(* A tree is known by what made it: the previous release, or a variant of  *)
(* this one; "torn" is a tree that was removed in part.  An artifact is    *)
(* fetched verified or the fetch raises (module Download).                 *)
(***************************************************************************)
EXTENDS Integers, Sequences, FiniteSets

CONSTANTS
  Plan,        \* the components of the manifest, in its order
  Runtimes,    \* those with a runtime manifest
  Companion,   \* a runtime with a CUDA variant -> the resource it is probed with
  KeepsCuda,   \* those that keep the CUDA tree when its probe fails
  GpuOnly,     \* the OCR GPU runtime: CUDA or nothing
  OcrProbed,   \* those whose probe may stay without a verdict
  MaxRuns, MaxFaults   \* bounds: runs of the installer, failing operations and crashes

Components == {Plan[i] : i \in 1..Len(Plan)}
Accelerators == {"nvidia", "cpu"}

ASSUME InstallAssumption ==
  /\ Plan \in Seq(Components)
  /\ Companion \in [DOMAIN Companion -> Components] /\ DOMAIN Companion \subseteq Runtimes /\ Runtimes \subseteq Components
  /\ KeepsCuda \subseteq DOMAIN Companion /\ GpuOnly \subseteq OcrProbed
  /\ GpuOnly \cap DOMAIN Companion = {}
  /\ MaxRuns \in Nat /\ MaxFaults \in Nat

VARIABLES
  target, manifests,   \* what stands at each component's path, and its manifest with its lock
  state,               \* install-state.json: the accelerator and the variant of each component
  journal, backup,     \* the transaction directory
  pc, accelerator, final, pending, left,   \* the run: its step, its plan, what is still to do
  entries,             \* publish_directories' records in memory
  before, faultsAt,    \* histories: the targets after the recovery, the steps that failed
  runs, faults         \* bounds

disk == <<target, manifests, state, journal, backup>>
process == <<accelerator, final, pending, left, entries>>
history == <<before, faultsAt>>
vars == <<disk, pc, process, history, runs, faults>>

NoJournal == [open |-> FALSE, of |-> {}, moved |-> {}, promoted |-> {}]
NoState == [accelerator |-> "none", components |-> <<>>]
None == "none"

Index(c) == CHOOSE i \in 1..Len(Plan) : Plan[i] = c
FirstOf(S) == CHOOSE c \in S : \A d \in S : Index(c) <= Index(d)
LastOf(S) == CHOOSE c \in S : \A d \in S : Index(c) >= Index(d)

\* The variant the accelerator selects: CUDA before CPU before shared.
Variant(c, acc) ==
  IF c \in GpuOnly THEN IF acc = "nvidia" THEN "cuda" ELSE None
  ELSE IF c \in DOMAIN Companion THEN IF acc = "nvidia" THEN "cuda" ELSE "cpu"
  ELSE "shared"

Planned == {c \in Components : final[c] # None}

\* The record names this release's variant, and every file of the tree and the manifest with
\* its lock are still what they were; a state of another release or accelerator counts for nothing.
Recorded(c, variant, acc) ==
  state.accelerator = acc /\ c \in DOMAIN state.components /\ state.components[c] = variant
IsCurrent(c, variant, acc) ==
  /\ Recorded(c, variant, acc) /\ target[c] = variant
  /\ (c \in Runtimes) => (manifests[c] = variant)

-----------------------------------------------------------------------------
\* What an exception does at each step: inside the publication's try the journal is recovered
\* before the cleanup, everywhere else the cleanup is next.
InTry == {"move", "noteMove", "promote", "notePromote", "dropBackups", "dropJournal"}
Handler(step) == IF step \in InTry THEN "rollback" ELSE "cleanup"

Spend == faults < MaxFaults /\ faults' = faults + 1 /\ faultsAt' = faultsAt \cup {pc}
Raise == /\ Spend /\ pc' = Handler(pc)
         /\ left' = IF pc \in InTry THEN journal.of ELSE {}
Die == Spend /\ pc' = "killed" /\ left' = {}

At(step) == pc = step
Resting == {"idle", "installed", "failed", "killed"}
Goto(step) == pc' = step
Calm == UNCHANGED <<faults, faultsAt, before, runs>>
SamePlan == UNCHANGED <<accelerator, final, pending>>

-----------------------------------------------------------------------------
\* Nothing installed, the previous release, or a finished installation of this one.
Fresh == [tree |-> [c \in Components |-> None], state |-> NoState]
Previous == [tree |-> [c \in Components |-> "old"], state |-> [NoState EXCEPT !.accelerator = "old"]]
Complete(acc) ==
  LET selected == {c \in Components : Variant(c, acc) # None}
  IN [tree |-> [c \in Components |-> Variant(c, acc)],
      state |-> [accelerator |-> acc, components |-> [c \in selected |-> Variant(c, acc)]]]

Init ==
  /\ \E start \in {Fresh, Previous} \cup {Complete(acc) : acc \in Accelerators} :
       /\ target = start.tree /\ state = start.state
       /\ manifests = [c \in Components |-> IF c \in Runtimes THEN start.tree[c] ELSE None]
  /\ journal = NoJournal /\ backup = [c \in Components |-> None]
  /\ pc = "idle" /\ accelerator = "none" /\ final = [c \in Components |-> None]
  /\ pending = {} /\ left = {} /\ entries = NoJournal
  /\ before = <<>> /\ faultsAt = {} /\ runs = 0 /\ faults = 0

\* install_project: recover_transactions comes before everything else.
Start(acc) ==
  /\ pc \in Resting /\ runs < MaxRuns /\ runs' = runs + 1
  /\ Goto("recover") /\ accelerator' = acc /\ left' = journal.of
  /\ final' = [c \in Components |-> Variant(c, acc)]
  /\ pending' = {} /\ entries' = NoJournal /\ faultsAt' = {}
  /\ before' = <<>> /\ UNCHANGED <<disk, faults>>

Recovering == pc \in {"recover", "rollback"}

\* recover_transactions, one entry: a promoted tree is removed, a moved one is put back; the
\* rename refuses when something still stands at the target.
RecoverTargetKept(c) == target[c]   \* a mutant
RecoverTarget(c) == IF c \in journal.promoted THEN None ELSE target[c]
RecoverEntry ==
  /\ Recovering /\ left # {}
  /\ LET c == LastOf(left)
         cleared == RecoverTarget(c)
         putBack == c \in journal.moved /\ backup[c] # None
     IN \/ /\ ~(putBack /\ cleared # None)
           /\ target' = [target EXCEPT ![c] = IF putBack THEN backup[c] ELSE cleared]
           /\ backup' = [backup EXCEPT ![c] = IF putBack THEN None ELSE @]
           /\ left' = left \ {c} /\ UNCHANGED <<pc, faults, faultsAt>>
        \/ /\ putBack /\ cleared # None
           /\ pc' = "cleanup" /\ left' = {} /\ UNCHANGED <<target, backup, faults, faultsAt>>
        \/ /\ Raise \/ Die
           /\ target' \in {target, [target EXCEPT ![c] = cleared],
                           [target EXCEPT ![c] = IF cleared = @ THEN @ ELSE "torn"]}
           /\ UNCHANGED backup
  /\ UNCHANGED <<manifests, state, journal, entries, before, runs>> /\ SamePlan

\* The journal goes, and then every backup.
RecoverDone ==
  /\ Recovering /\ left = {}
  /\ \/ /\ journal' = NoJournal /\ backup' = [c \in Components |-> None]
        /\ pc' = (IF pc = "recover" THEN "check" ELSE "cleanup")
        /\ before' = IF pc = "recover" THEN target ELSE before
        /\ UNCHANGED <<faults, faultsAt, left>>
     \/ /\ Raise \/ Die
        /\ journal' \in {journal, NoJournal} /\ UNCHANGED <<backup, before>>
  /\ UNCHANGED <<target, manifests, state, entries, runs>> /\ SamePlan

\* Only what is recorded and verified is skipped.
Check ==
  /\ At("check") /\ Goto("prepare")
  /\ pending' = {c \in Planned : ~IsCurrent(c, final[c], accelerator)}
  /\ UNCHANGED <<disk, accelerator, final, left, entries>> /\ Calm

\* Fetching and assembling touches the staging tree only; it may fail without any fault.
Prepare ==
  /\ At("prepare") /\ (Goto("probe") \/ Goto("cleanup"))
  /\ UNCHANGED <<disk, left, entries>> /\ SamePlan /\ Calm

\* _classify_probe_failures: a CUDA runtime falls back and defers its companion, a failing OCR
\* GPU is dropped, an OCR probe without verdict passes, anything else is fatal.
FallsBack(verdict) ==
  {c \in pending \cap DOMAIN Companion : final[c] = "cuda" /\ verdict[c] # "ok"}
Deferred(verdict) == FallsBack(verdict) \cup {Companion[c] : c \in FallsBack(verdict)}
Dropped(verdict) == {c \in pending \cap GpuOnly : verdict[c] = "bad"}
Fatal(verdict) ==
  {c \in pending : /\ verdict[c] # "ok" /\ ~(c \in OcrProbed /\ verdict[c] = "unknown")
                   /\ c \notin Deferred(verdict) \cup Dropped(verdict)}
Rebuilt(verdict) == FallsBack(verdict) \ KeepsCuda
\* A runtime and its companion are probed as one.
Verdicts == {v \in [Components -> {"ok", "bad", "unknown"}] :
               /\ \A c \in Components : v[c] = "unknown" => c \in OcrProbed
               /\ \A c \in DOMAIN Companion : v[Companion[c]] = v[c]}

\* After the probe the CPU variants are assembled, and probed once more with their companions.
Probe(verdict) ==
  /\ At("probe")
  /\ IF Fatal(verdict) # {} THEN Goto("cleanup") /\ UNCHANGED <<final, pending>>
     ELSE /\ final' = [c \in Components |-> IF c \in Rebuilt(verdict) THEN "cpu"
                                            ELSE IF c \in Dropped(verdict) THEN None ELSE final[c]]
          /\ pending' = pending \ Dropped(verdict)
          /\ Goto("begin") \/ (Rebuilt(verdict) # {} /\ Goto("cleanup"))
  /\ UNCHANGED <<disk, accelerator, left, entries>> /\ Calm

-----------------------------------------------------------------------------
\* publish_directories: the journal of all entries is written before the try.
PublishBegin ==
  /\ At("begin")
  /\ \/ /\ entries' = [NoJournal EXCEPT !.open = pending # {}, !.of = pending]
        /\ journal' = IF pending # {} THEN entries' ELSE journal
        /\ left' = pending /\ Goto(IF pending # {} THEN "move" ELSE "manifests")
        /\ UNCHANGED <<faults, faultsAt>>
     \/ (Raise \/ Die) /\ UNCHANGED <<entries, journal>>
  /\ UNCHANGED <<target, manifests, state, backup, before, runs>> /\ SamePlan

\* The previous tree, if there is one, moves to the backups.
MoveOut ==
  /\ At("move")
  /\ LET c == FirstOf(left)
     IN \/ /\ target[c] = None /\ Goto("promote") /\ UNCHANGED <<target, backup, entries, left, faults, faultsAt>>
        \/ /\ target[c] # None /\ Goto("noteMove")
           /\ backup' = [backup EXCEPT ![c] = target[c]] /\ target' = [target EXCEPT ![c] = None]
           /\ entries' = [entries EXCEPT !.moved = @ \cup {c}] /\ UNCHANGED <<left, faults, faultsAt>>
        \/ (Raise \/ Die) /\ UNCHANGED <<target, backup, entries>>
  /\ UNCHANGED <<manifests, state, journal, before, runs>> /\ SamePlan

\* The records are written to the journal after each rename.
NoteUnwritten == journal' = journal   \* a mutant
Note == journal' = entries
NoteMove ==
  /\ At("noteMove")
  /\ \/ Note /\ Goto("promote") /\ UNCHANGED <<left, faults, faultsAt>>
     \/ (Raise \/ Die) /\ UNCHANGED journal
  /\ UNCHANGED <<target, manifests, state, backup, entries, before, runs>> /\ SamePlan

\* The staged tree takes the place.
Promote ==
  /\ At("promote")
  /\ \/ /\ LET c == FirstOf(left)
           IN target' = [target EXCEPT ![c] = final[c]] /\ entries' = [entries EXCEPT !.promoted = @ \cup {c}]
        /\ Goto("notePromote") /\ UNCHANGED <<left, faults, faultsAt>>
     \/ (Raise \/ Die) /\ UNCHANGED <<target, entries>>
  /\ UNCHANGED <<manifests, state, journal, backup, before, runs>> /\ SamePlan

NotePromote ==
  /\ At("notePromote")
  /\ \/ /\ Note /\ left' = left \ {FirstOf(left)}
        /\ Goto(IF left' = {} THEN "dropBackups" ELSE "move") /\ UNCHANGED <<faults, faultsAt>>
     \/ (Raise \/ Die) /\ UNCHANGED journal
  /\ UNCHANGED <<target, manifests, state, backup, entries, before, runs>> /\ SamePlan

\* All backups are removed, some of them when it fails, and then the journal.
DropBackups ==
  /\ At("dropBackups")
  /\ \/ backup' = [c \in Components |-> None] /\ Goto("dropJournal") /\ UNCHANGED <<left, faults, faultsAt>>
     \/ /\ Raise \/ Die
        /\ \E gone \in SUBSET Components, how \in {None, "torn"} :
             backup' = [c \in Components |-> IF c \in gone /\ backup[c] # None THEN how ELSE backup[c]]
  /\ UNCHANGED <<target, manifests, state, journal, entries, before, runs>> /\ SamePlan
DropJournal ==
  /\ At("dropJournal")
  /\ \/ journal' = NoJournal /\ Goto("manifests") /\ left' = pending \cap Runtimes /\ UNCHANGED <<faults, faultsAt>>
     \/ (Raise \/ Die) /\ UNCHANGED journal
  /\ UNCHANGED <<target, manifests, state, backup, entries, before, runs>> /\ SamePlan

\* _write_runtime_manifest_at for each published runtime: the manifest, then its lock.
WriteManifest ==
  /\ At("manifests") /\ left # {}
  /\ \/ /\ manifests' = [manifests EXCEPT ![FirstOf(left)] = final[FirstOf(left)]]
        /\ left' = left \ {FirstOf(left)} /\ UNCHANGED <<pc, faults, faultsAt>>
     \/ (Raise \/ Die) /\ manifests' \in {manifests, [manifests EXCEPT ![FirstOf(left)] = "torn"]}
  /\ UNCHANGED <<target, state, journal, backup, entries, before, runs>> /\ SamePlan

\* The records are taken from what stands there now, and the state replaces the old one at once.
WriteState ==
  /\ At("manifests") /\ left = {}
  /\ \/ /\ state' = [accelerator |-> accelerator, components |-> [c \in Planned |-> final[c]]]
        /\ Goto("tidy") /\ UNCHANGED <<left, faults, faultsAt>>
     \/ (Raise \/ Die) /\ UNCHANGED state
  /\ UNCHANGED <<target, manifests, journal, backup, entries, before, runs>> /\ SamePlan

-----------------------------------------------------------------------------
\* cleanup_success and cleanup_failure both remove the transaction directory, in part when
\* they fail themselves; the cleanup of a success that fails is followed by the other.
EmptyTransactions == journal' = NoJournal /\ backup' = [c \in Components |-> None]
SomeTransactions ==
  /\ journal' \in {journal, NoJournal}
  /\ \E gone \in SUBSET Components :
       backup' = [c \in Components |-> IF c \in gone THEN None ELSE backup[c]]
CleanupSuccess ==
  /\ At("tidy")
  /\ \/ EmptyTransactions /\ Goto("installed") /\ UNCHANGED <<left, faults, faultsAt>>
     \/ (Raise \/ Die) /\ SomeTransactions
  /\ UNCHANGED <<target, manifests, state, entries, before, runs>> /\ SamePlan
CleanupFailure ==
  /\ At("cleanup")
  /\ \/ EmptyTransactions /\ Goto("failed") /\ UNCHANGED <<left, faults, faultsAt>>
     \/ Die /\ SomeTransactions
  /\ UNCHANGED <<target, manifests, state, entries, before, runs>> /\ SamePlan

Next ==
  \/ \E acc \in Accelerators : Start(acc)
  \/ RecoverEntry \/ RecoverDone \/ Check \/ Prepare
  \/ \E verdict \in Verdicts : Probe(verdict)
  \/ PublishBegin \/ MoveOut \/ NoteMove \/ Promote \/ NotePromote \/ DropBackups \/ DropJournal
  \/ WriteManifest \/ WriteState \/ CleanupSuccess \/ CleanupFailure

Spec == Init /\ [][Next]_vars

-----------------------------------------------------------------------------
\* A run that reports success leaves every recorded component whole, of the recorded variant,
\* with the manifest of that variant: a skip never trusts what an earlier run broke.
InstalledIsWhole ==
  pc = "installed" =>
    /\ state.accelerator = accelerator /\ DOMAIN state.components = Planned
    /\ \A c \in Planned : /\ target[c] = state.components[c]
                          /\ (c \in Runtimes) => (manifests[c] = state.components[c])

\* A run that fails before the publication, or on a rename in it, leaves every target as it
\* was after the recovery: the journal takes back what was already published.
FailedRunRestores ==
  (pc = "failed" /\ DOMAIN before # {} /\ faultsAt \subseteq {"begin", "move", "promote"})
    => (target = before)

\* A journal write that fails leaves the journal one rename behind the disk, and the undo
\* cannot take that rename back: the tree that had moved out is lost with the backups, or new
\* trees stay where they were promoted.  No more is lost: one tree at most, and what stands is
\* the old tree or the new one, never a part of either (publish_directories, recover_transactions).
OneWriteBehind ==
  (pc = "failed" /\ DOMAIN before # {}) =>
    /\ (faultsAt = {"noteMove"}) => (\E c \in Components : target = [before EXCEPT ![c] = None])
    /\ (faultsAt = {"notePromote"}) => (\A c \in Components : target[c] \in {before[c], final[c]})

\* What does not hold: every target as before for the first failing operation of a run, whichever.
RollbackRestores ==
  (pc = "failed" /\ DOMAIN before # {} /\ faults = 1 /\ faultsAt \subseteq InTry) => (target = before)
================================================================================

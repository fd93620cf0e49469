----------------------------- MODULE MCModelRuns -----------------------------
(***************************************************************************)
(* The modules whose worker asks a model, for TLC: OCR, for the parents    *)
(* and leftovers of MCOcrRun, and natural language (NlRequests).  The one  *)
(* or the other runs.                                                      *)
(***************************************************************************)
EXTENDS MCOcrRun

CONSTANTS PerItem, Budget, MaxExtra, StreakLimit, WindowMin, WindowSize

VARIABLES
  status, resume, summary, restarts, nlSample, nlStaged, nlOverlay, attempts, extra, window, streak, nlPc, nlHeld,
  nlTodo, requests, maximum, outcomes, one, code, update, api, unknown, nlFaults

N == INSTANCE NlRequests WITH
       sample <- nlSample, staged <- nlStaged, overlay <- nlOverlay, pc <- nlPc, held <- nlHeld, todo <- nlTodo,
       batch <- requests, faults <- nlFaults
nlVars ==
  <<status, resume, summary, restarts, nlSample, nlStaged, nlOverlay, attempts, extra, window, streak, nlPc, nlHeld,
    nlTodo, requests, maximum, outcomes, one, code, update, api, unknown, nlFaults>>

ASSUME PolicyAssumption == N!NlAssumption

\* What the module that does not run has.
NoNl ==
  /\ status = "running" /\ resume = N!NoStatus /\ summary = "none" /\ restarts = 0
  /\ nlSample = [s \in Samples |-> "pending"] /\ nlStaged = {} /\ nlOverlay = {}
  /\ attempts = 0 /\ extra = 0 /\ window = <<>> /\ streak = 0 /\ nlPc = "off" /\ nlHeld = {} /\ nlTodo = {}
  /\ requests = {} /\ maximum = 0 /\ outcomes = <<>> /\ one = 0 /\ code = "none"
  /\ update = N!NoUpdate /\ api = "none" /\ unknown = {} /\ nlFaults = 0
NoOcr ==
  /\ device = "none" /\ request = Automatic /\ force = FALSE /\ parent = NoParent /\ dataset = <<>>
  /\ machine = <<>> /\ binding = None /\ job = "none" /\ sample = [s \in Samples |-> "pending"]
  /\ prepared = <<>> /\ staged = <<>> /\ overlay = [s \in Samples |-> None] /\ issues = {} /\ completed = 0
  /\ exits = 0 /\ pc = "off" /\ selection = None /\ limit = 0 /\ worker = None /\ held = {} /\ todo = {} /\ work = {}
  /\ reply = NoReply /\ faults = 0 /\ changes = 0 /\ pauses = 0

OcrInit == Init /\ NoNl
OcrSpec == OcrInit /\ [][Next /\ UNCHANGED nlVars]_<<vars, nlVars>>
NlInit == N!Init /\ NoOcr
NlSpec == NlInit /\ [][N!Next /\ UNCHANGED vars]_<<vars, nlVars>>

-----------------------------------------------------------------------------
(* Properties                                                              *)

\* A request whose outcome the core has not seen keeps its mark, whatever dies, fails, is
\* paused, cancelled or recovered, until the user confirms it: mark_nl_request_started,
\* pending_api_decisions, recover.  So no batch ever holds it again before.
UnknownKept == N!UnknownKept

\* The attempts that were counted stay within the budget, extended or not, although the
\* budget is read once and a batch has many requests (httpAttemptAllowance).
BudgetKept == N!BudgetKept

\* An answer that was paid for is kept through crashes, exits, errors and recoveries: its row
\* leaves staged_nl only when the overlay has the text, its sample is never asked for again
\* while the answer is staged, and a sample completes only with its text in the overlay
\* (commit_staged, recover).
AnswersKept == N!AnswersKept

\* db_nl_export.py:155: "Return only crash-uncertain API requests after explicit user
\* confirmation."  A request whose exchange is still going on is not uncertain.
ConfirmsOnlyUncertain ==
  [][(api = "confirm" /\ nlPc = "exchange" => \A s \in requests : nlSample'[s] = nlSample[s])]_nlVars
=============================================================================

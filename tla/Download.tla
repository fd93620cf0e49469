-------------------------------- MODULE Download --------------------------------
(***************************************************************************)
(* download_verified (packaging/installer/download.py): one artifact is    *)
(* fetched into a .partial file, resumed with a Range request, and renamed *)
(* once its size and digest are the artifact's.  Attempts that make no     *)
(* progress are counted.                                                   *)
(*                                                                         *)
(* Content is a number of blocks and whether they are the artifact's.  The *)
(* server answers every request as it likes.                               *)
(***************************************************************************)
EXTENDS Integers

CONSTANTS
  Size,        \* blocks of the artifact, at least one
  Attempts     \* attempts without progress, at least one

VARIABLES
  partial, sound,   \* blocks of the .partial file (0: there is none), and whether they are right
  complete,         \* the file named by its digest: none, right or wrong
  failures,         \* attempts without progress in a row
  pc                \* the place in download_verified

vars == <<partial, sound, complete, failures, pc>>

\* What the directory may hold when the installer begins, damaged files included.
Init ==
  /\ partial \in 0..Size /\ sound \in BOOLEAN /\ (partial = 0 => sound)
  /\ complete \in {"none", "right", "wrong"}
  /\ failures = 0 /\ pc = "begin"

\* A verified file is used; a wrong one and a partial that is already too long are removed.
Begin ==
  /\ pc = "begin"
  /\ pc' = IF complete = "right" THEN "done" ELSE "loop"
  /\ complete' = IF complete = "wrong" THEN "none" ELSE complete
  /\ LET kept == complete = "right" \/ partial < Size
     IN partial' = (IF kept THEN partial ELSE 0) /\ sound' = (kept => sound)
  /\ UNCHANGED failures

More == pc = "loop" /\ failures < Attempts
Progress(grown) == failures' = IF grown THEN 0 ELSE failures + 1
Manual == pc' = "manual" /\ UNCHANGED <<complete, failures>>
RemovePartial == partial' = 0 /\ sound' = TRUE

\* 401, 403, 404 or a redirect to an unknown host ends the download.
TerminalAnswer == More /\ Manual /\ UNCHANGED <<partial, sound>>

\* No connection, another HTTP error, or an answer that does not fit the request.
UselessAnswer == More /\ Progress(FALSE) /\ UNCHANGED <<partial, sound, complete, pc>>

\* A server that ignores the Range request: the partial is removed and the loop goes on.
RangeIgnored ==
  /\ More /\ partial > 0 /\ RemovePartial /\ UNCHANGED <<complete, failures, pc>>

\* The body of a 200 without an offset, or of a fitting 206: n blocks, right or wrong.
Received(n, right) == partial' = partial + n /\ sound' = (sound /\ (right \/ n = 0))

\* The connection ends early: with an error, which publishes a partial that is complete all
\* the same, or as if it were the end.
CutShort(n, right) ==
  /\ More /\ partial + n < Size
  /\ Received(n, right) /\ Progress(n > 0) /\ UNCHANGED <<complete, pc>>

\* All blocks are there: they are the artifact's, or the partial is removed.
Filled(n, right) ==
  /\ More /\ n > 0 /\ partial + n = Size
  /\ IF sound /\ right THEN /\ complete' = "right" /\ pc' = "done" /\ UNCHANGED failures
                            /\ RemovePartial
     ELSE Manual /\ RemovePartial

\* The error strikes after the last block of a wrong content: it is not published, and the
\* next request starts behind the end.
FilledWithError(n, right) ==
  /\ More /\ n > 0 /\ partial + n = Size /\ ~(sound /\ right)
  /\ Received(n, right) /\ Progress(TRUE) /\ UNCHANGED <<complete, pc>>

\* More than the artifact's size, or any unfitting answer to a request behind its end.
Overlong == More /\ Manual /\ RemovePartial

GiveUp == /\ pc = "loop" /\ failures >= Attempts /\ pc' = "manual"
          /\ UNCHANGED <<partial, sound, complete, failures>>

Next ==
  \/ Begin \/ TerminalAnswer \/ UselessAnswer \/ RangeIgnored \/ Overlong \/ GiveUp
  \/ \E n \in 0..Size, right \in BOOLEAN :
       CutShort(n, right) \/ Filled(n, right) \/ FilledWithError(n, right)

\* Every read ends with an answer or its timeout, so the loop goes on.
Spec == Init /\ [][Next]_vars /\ WF_vars(Next)

-----------------------------------------------------------------------------
\* The retries are bounded: the download ends with the file or with ManualDownloadRequired.
DownloadEnds == <>(pc \in {"done", "manual"})
================================================================================

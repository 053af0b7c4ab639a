----------------------------- MODULE LoopContract -----------------------------
(***************************************************************************)
(* What delegate_verified promises its caller, without processes, files or *)
(* crashes: rounds follow one another only on a rejection, the number of   *)
(* rounds is bounded, an answer is signed off only by a verdict on that    *)
(* very answer, and the outcome, once known, does not change.              *)
(***************************************************************************)
EXTENDS Naturals

CONSTANTS Words, MaxIters

VARIABLES
  waivable, \* the caller gave no criteria
  outcome,  \* "none", "open", "passed", "unverified" or "failed"
  round,    \* the round under way
  judged,   \* the verdicts given: round, the text judged, the verdict
  answer    \* the signed-off answer

cvars == <<waivable, outcome, round, judged, answer>>

CInit ==
  /\ waivable \in BOOLEAN
  /\ outcome = "none" /\ round = 1 /\ judged = {} /\ answer = ""

Opens ==
  /\ outcome = "none"
  /\ outcome' = "open"
  /\ UNCHANGED <<waivable, round, judged, answer>>

\* A checker reports.  One that was given up may still report, to nobody.
Judges(i, text, verdict) ==
  /\ judged' = judged \cup {<<i, text, verdict>>}
  /\ UNCHANGED <<waivable, outcome, round, answer>>

\* A new round answers the rejection of the one before it.
NextRound ==
  /\ outcome = "open" /\ round < MaxIters
  /\ \E j \in judged : j[1] = round /\ j[3] # "PASS"
  /\ round' = round + 1
  /\ UNCHANGED <<waivable, outcome, judged, answer>>

Passes(text) ==
  /\ outcome = "open"
  /\ <<round, text, "PASS">> \in judged
  /\ outcome' = "passed" /\ answer' = text
  /\ UNCHANGED <<waivable, round, judged>>

\* Without criteria the answer may be returned as it is, and is marked so.
Waives(text) ==
  /\ outcome = "open" /\ waivable
  /\ outcome' = "unverified" /\ answer' = text
  /\ UNCHANGED <<waivable, round, judged>>

\* The loop fails, possibly while it is starting the next round.
Fails ==
  /\ outcome = "open"
  /\ outcome' = "failed"
  /\ round' \in {round, round + 1} /\ round' <= MaxIters
  /\ UNCHANGED <<waivable, judged, answer>>

CNext ==
  \/ Opens
  \/ \E i \in 1 .. MaxIters, text \in Words, verdict \in Words : Judges(i, text, verdict)
  \/ NextRound
  \/ \E text \in Words : Passes(text) \/ Waives(text)
  \/ Fails

CSpec == CInit /\ [][CNext]_cvars
=============================================================================

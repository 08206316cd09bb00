---------------------------- MODULE BackupPromise ---------------------------
(***************************************************************************)
(* What a backup run promises whoever resumes or reads it, with processes, *)
(* retries, crashes and the workspace left out: the steps are captured in  *)
(* order, each once and for good; the bundle is sealed once, when all are  *)
(* captured, with exactly what was captured; and no step is sealed that    *)
(* was not captured.                                                       *)
(***************************************************************************)
EXTENDS Naturals

CONSTANTS NSteps, Captures   \* Captures: what a step may have captured

VARIABLES
  done,      \* the steps captured so far
  captured,  \* what each captured
  bundle     \* the sealed bundle: the empty set, or the set of its content

Steps == 1..NSteps

Init ==
  /\ done = {}
  /\ captured \in [Steps -> Captures]
  /\ bundle = {}

Capture(s) ==
  /\ bundle = {}
  /\ done = 1..s-1
  /\ done' = 1..s
  /\ \E c \in Captures : captured' = [captured EXCEPT ![s] = c]
  /\ UNCHANGED bundle

Seal ==
  /\ bundle = {} /\ done = Steps
  /\ bundle' = {captured}
  /\ UNCHANGED <<done, captured>>

Next == (\E s \in Steps : Capture(s)) \/ Seal

Spec == Init /\ [][Next]_<<done, captured, bundle>>
=============================================================================

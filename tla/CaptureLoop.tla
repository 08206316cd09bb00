------------------------------ MODULE CaptureLoop -----------------------------
(***************************************************************************)
(* runConsistentCopy (core/backup/consistency.ts) around a capture whose    *)
(* copy uses mapBounded: snapshot, copy, snapshot, and what becomes of the  *)
(* errors on the way.  The captures themselves are EdgeCapture and          *)
(* ObjectCapture; ConsistentCopy is the protocol on its own.                *)
(***************************************************************************)
EXTENDS BoundedMap

CONSTANTS
  Modes,       \* consistency modes
  MaxRetries,  \* drift retries
  MaxFaults    \* bound: calls that fail

ASSUME LoopAssumption ==
  /\ Modes \subseteq {"verified", "best-effort", "quiesced"}
  /\ MaxRetries \in Nat /\ MaxFaults \in Nat
  /\ MapErrors = {"drift", "error"}

VARIABLES
  mode,     \* the consistency mode
  faults,
  phase,    \* "before", "copy" or "after": what this capture is for
  pc,       \* "list", "map", "partial" or "completed" (the two cleanups),
            \* "stable", "unstable" or "threw"
  attempt,  \* the loop counter
  drift,    \* driftDetected
  exc       \* the error on its way, "none" without one

loopVars == <<mode, phase, pc, attempt, drift, exc>>

-----------------------------------------------------------------------------

Fault == faults < MaxFaults /\ faults' = faults + 1

StartCapture(p) == phase' = p /\ pc' = "list"

End(how, e) == pc' = how /\ exc' = e /\ UNCHANGED <<phase, attempt>>

\* driftAction, and the way to the next attempt.
DriftAction ==
  /\ drift' = TRUE
  /\ \/ mode = "quiesced" /\ End("threw", "changed")
     \/ mode = "verified" /\ attempt > MaxRetries /\ End("threw", "unsettled")
     \/ mode = "verified" /\ attempt <= MaxRetries /\ cancelled /\ End("threw", "aborted")
     \/ /\ mode = "verified" /\ attempt <= MaxRetries /\ ~cancelled
        /\ attempt' = attempt + 1 /\ exc' = "none"
        /\ StartCapture("before")

\* What is left to do once an error needs no cleanup, or none any more.
Rethrow(e) ==
  IF e \in {"drift", "differs"} /\ mode # "best-effort"
    THEN DriftAction
    ELSE End("threw", e) /\ UNCHANGED drift

\* A capture throws: its error is the abort once the signal is aborted.
Caught(thrown) ==
  LET e == IF cancelled THEN "aborted" ELSE thrown IN
  /\ \/ /\ phase = "before" /\ Rethrow(e)
     \/ phase = "copy" /\ End("partial", e) /\ UNCHANGED drift
     \/ /\ phase = "after"
        /\ IF e = "drift" /\ mode = "best-effort"
             THEN End("unstable", "none") /\ drift' = TRUE
             ELSE End("completed", e) /\ UNCHANGED drift
  /\ UNCHANGED mode

\* A capture ends well; the abort is looked for in between.
Taken ==
  /\ \/ /\ phase = "before" /\ cancelled /\ End("threw", "aborted")
     \/ phase = "before" /\ ~cancelled /\ StartCapture("copy") /\ UNCHANGED <<attempt, exc>>
     \/ phase = "copy" /\ cancelled /\ End("completed", "aborted")
     \/ phase = "copy" /\ ~cancelled /\ StartCapture("after") /\ UNCHANGED <<attempt, exc>>
  /\ UNCHANGED <<mode, drift>>

\* The second snapshot is there, and equals the first one or not.
Compared(equal) ==
  /\ phase = "after"
  /\ \/ cancelled /\ End("completed", "aborted") /\ UNCHANGED drift
     \/ ~cancelled /\ equal /\ End("stable", "none") /\ UNCHANGED drift
     \/ /\ ~cancelled /\ ~equal /\ drift' = TRUE
        /\ IF mode = "best-effort" THEN End("unstable", "none")
                                   ELSE End("completed", "differs")
  /\ UNCHANGED mode

\* A removal throws, for a reason of its own or for an abort that arrives meanwhile.
CleanupThrows ==
  /\ (Fault \/ (cancelled /\ exc # "aborted" /\ UNCHANGED faults))
  /\ End("threw", "cleanup_failed") /\ UNCHANGED <<mode, drift>>

\* The error takes its way; except after a comparison an abort is looked for first.
AfterCleanup ==
  /\ IF cancelled /\ exc # "differs"
       THEN End("threw", "aborted") /\ UNCHANGED drift
       ELSE Rethrow(exc)
  /\ UNCHANGED <<mode, faults>>

Ended == pc \in {"stable", "unstable", "threw"}

\* What the caller sees of it.
Ending ==
  CASE pc \in {"stable", "unstable"} -> "returned"
    [] pc = "threw" /\ exc = "cleanup_failed" -> "spoiled"
    [] pc = "threw" /\ exc \in {"changed", "unsettled"} -> "drifted"
    [] pc = "threw" /\ exc \notin {"cleanup_failed", "changed", "unsettled"} -> "failed"
    [] ~Ended -> "working"

LoopInit ==
  /\ MapInit
  /\ mode \in Modes /\ faults = 0
  /\ phase = "before" /\ pc = "list"
  /\ attempt = 1 /\ drift = FALSE /\ exc = "none"

LoopTypeOK ==
  /\ MapTypeOK
  /\ mode \in Modes /\ faults \in 0..MaxFaults
  /\ phase \in {"before", "copy", "after"}
  /\ pc \in {"list", "map", "partial", "completed", "stable", "unstable", "threw"}
  /\ attempt \in 1..(MaxRetries + 1) /\ drift \in BOOLEAN
  /\ exc \in {"none", "drift", "differs", "error", "aborted", "changed",
              "unsettled", "cleanup_failed"}

=============================================================================

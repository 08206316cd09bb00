---------------------------- MODULE CapturePromise --------------------------
(***************************************************************************)
(* What runConsistentCopy promises the step that calls it, with snapshots, *)
(* files, workers, aborts and cleanups left out: nothing but drift of a    *)
(* verified run makes it try again, at most MaxRetries times and never     *)
(* over what an attempt left; what it returns is one version of the        *)
(* source, or reports drift in best-effort mode; what it throws leaves     *)
(* nothing, unless nothing could be removed; and its end is final.         *)
(***************************************************************************)
EXTENDS Naturals

CONSTANT MaxRetries

VARIABLES
  mode, attempt,
  drift,       \* drift has been met
  bare,        \* the workspace holds nothing of the step
  consistent,  \* it holds what the source was at one moment
  state        \* "working", "returned", "drifted" or "failed" (it threw),
               \* "spoiled" (it threw and its files could not be removed)

promiseVars == <<mode, attempt, drift, bare, consistent, state>>

Init ==
  /\ mode \in {"verified", "best-effort", "quiesced"}
  /\ attempt = 1 /\ drift = FALSE /\ bare = TRUE /\ state = "working"

Work ==
  /\ state' = "working"
  /\ drift => drift'
  /\ UNCHANGED <<mode, attempt>>

Retry ==
  /\ mode = "verified" /\ attempt <= MaxRetries
  /\ attempt' = attempt + 1
  /\ drift' /\ bare'
  /\ state' = "working"
  /\ UNCHANGED mode

Return ==
  /\ state' = "returned"
  /\ consistent' \/ (mode = "best-effort" /\ drift')
  /\ drift => drift'
  /\ UNCHANGED <<mode, attempt>>

Throw ==
  /\ state' \in {"drifted", "failed"} /\ bare'
  /\ state' = "drifted" =>
       drift' /\ (mode = "quiesced" \/ (mode = "verified" /\ attempt = MaxRetries + 1))
  /\ drift => drift'
  /\ UNCHANGED <<mode, attempt>>

Spoil ==
  /\ state' = "spoiled"
  /\ drift => drift'
  /\ UNCHANGED <<mode, attempt>>

Next == state = "working" /\ (Work \/ Retry \/ Return \/ Throw \/ Spoil)

Spec == Init /\ [][Next]_promiseVars
=============================================================================

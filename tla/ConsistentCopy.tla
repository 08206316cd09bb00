--------------------------- MODULE ConsistentCopy ---------------------------
(***************************************************************************)
(* The optimistic copy protocol of core/backup/consistency.ts: snapshot    *)
(* the surfaces a backup step reads, copy them into the workspace,         *)
(* snapshot again, and return, retry or throw according to the consistency *)
(* mode.  The source changes under the copy, the copy may fail or be       *)
(* cancelled, and everything a failed attempt wrote must go before the     *)
(* next one starts.  A copy of several branches (Promise.all) fails with   *)
(* the first of them, and nobody waits for the others: they go on writing. *)
(*                                                                         *)
(* An artifact is a file of the workspace.  files[a] is the version of the *)
(* surface Surface[a] that the file holds, Absent when there is no file.   *)
(* Versions only grow: two equal snapshots mean nothing changed between.   *)
(***************************************************************************)
EXTENDS Naturals, FiniteSets

CONSTANTS
  NSteps,         \* the steps are 1..NSteps, in the order executeBackup runs them
  Artifacts,      \* files a bundle may hold
  Owns,           \* Owns[s]: the files step s writes, the scope of its cleanup
  Surface,        \* Surface[a]: the step whose source surface a is a copy of
  Mandatory,      \* files their step writes whatever the source holds
  Configs,        \* the configurations of a run: its mode and its steps
  MaxRetries,     \* drift retries of one step
  Restless,       \* the source may report drift without end, not only MaxFaults times
  MaxVersion,     \* bound: versions of a surface
  MaxFaults       \* bound: failures, aborts, crashes and damage in one behaviour

Steps == 1..NSteps
Absent == 0
Contents == 0..MaxVersion

ASSUME CopyAssumption ==
  /\ NSteps \in Nat \ {0}
  /\ MaxRetries \in Nat
  /\ MaxVersion \in Nat \ {0}
  /\ MaxFaults \in Nat
  /\ Owns \in [Steps -> SUBSET Artifacts]
  /\ \A s, t \in Steps : s # t => Owns[s] \cap Owns[t] = {}
  /\ Surface \in [Artifacts -> Steps]
  /\ Mandatory \subseteq Artifacts
  /\ \A c \in Configs : c.cleaned \subseteq c.adapted
  /\ Configs \subseteq [mode : {"verified", "best-effort", "quiesced"},
                       adapted : SUBSET Steps, cleaned : SUBSET Steps,
                       parallel : SUBSET Steps]
  /\ Restless \in BOOLEAN

ASSUME FilesAssumption == IsFiniteSet(Artifacts)

VARIABLES
  config,   \* the configuration of this run
  src,      \* src[s]: version of the surface step s copies, at Supabase
  files,    \* the workspace directory
  late,     \* files that branches of a failed copy still set out to write
  stray,    \* files such a branch wrote, and nobody has removed since
  temps,    \* writer temporaries ("*.partial-<uuid>") a crash left behind
  aborted,  \* signal.aborted
  faults,   \* faults so far
  cur,      \* the step being copied
  cp,       \* where runConsistentCopy stands
  attempt,  \* its loop counter
  before,   \* the snapshot taken before the copy
  drift,    \* its driftDetected
  plan,     \* files the running copy still has to write
  made,     \* files it has written: result.artifacts, without the shared ones
  exc       \* the error being handled or thrown

Mode == config.mode               \* the consistency mode
Adapted == config.adapted         \* steps with a consistency adapter
PartialCleanup == config.cleaned  \* steps whose adapter has a cleanupPartial
Parallel == config.parallel       \* steps that write in branches side by side

workspace == <<files, stray>>
environment == <<config, src, workspace, late, temps, aborted, faults>>
copyVars == <<config, src, workspace, late, temps, aborted, faults,
              cur, cp, attempt, before, drift, plan, made, exc>>

ControlPoints == {"idle", "snapshot", "copying", "partial", "compare",
                  "cleanup", "returned", "threw"}
Errors == {"none", "error", "drift", "differs", "aborted", "unsafe",
           "cleanup_failed", "unstable", "quiesced_changed"}

CopyTypeOK ==
  /\ config \in Configs
  /\ src \in [Steps -> 1..MaxVersion]
  /\ files \in [Artifacts -> Contents]
  /\ late \subseteq Artifacts /\ stray \subseteq Artifacts
  /\ temps \subseteq Artifacts \cup {"index"}
  /\ aborted \in BOOLEAN
  /\ faults \in 0..MaxFaults
  /\ cur \in Steps
  /\ cp \in ControlPoints
  /\ attempt \in 1..MaxRetries + 1
  /\ before \in [Steps -> 1..MaxVersion]
  /\ drift \in BOOLEAN
  /\ plan \subseteq Owns[cur]
  /\ made \subseteq Owns[cur]
  /\ exc \in Errors

-----------------------------------------------------------------------------

\* What a snapshot of step s looks at, and whether it moved since `before`.
Observed(s) == {Surface[a] : a \in Owns[s]}
ChangedOwnSurface == src[cur] # before[cur]   \* mutant: one surface is forgotten
Changed == \E t \in Observed(cur) : src[t] # before[t]

\* The files a copy of step s sets out to write: which ones depends on the
\* inventory it reads (objects, functions, schemas), the mandatory ones do not.
CopyPlans(s) == {W \in SUBSET Owns[s] : W # {} /\ Owns[s] \cap Mandatory \subseteq W}

\* What an adapter's cleanupPartial removes.
ScopeTooWide(s) == Artifacts                 \* mutant: the whole workspace
Scope(s) == Owns[s]

Fault == faults < MaxFaults /\ faults' = faults + 1
ReportsDrift == IF Restless THEN UNCHANGED faults ELSE Fault
Without(R) == [a \in Artifacts |-> IF a \in R THEN Absent ELSE files[a]]
Remove(R) == files' = Without(R) /\ stray' = stray \ R

Throw(e) == cp' = "threw" /\ exc' = e /\ UNCHANGED <<attempt, drift>>

\* driftAction and the `continue` after it.
MayRetry == Mode = "verified" /\ attempt <= MaxRetries

SameAttempt == attempt   \* mutant: the counter is not advanced
NextAttempt == attempt + 1

Retry ==
  /\ drift' = TRUE
  /\ \/ MayRetry /\ cp' = "snapshot" /\ exc' = "none" /\ attempt' = NextAttempt
     \/ /\ ~MayRetry /\ Mode = "verified"
        /\ cp' = "threw" /\ exc' = "unstable" /\ UNCHANGED attempt
     \/ /\ Mode = "quiesced"
        /\ cp' = "threw" /\ exc' = "quiesced_changed" /\ UNCHANGED attempt

Return(d) == cp' = "returned" /\ drift' = d /\ UNCHANGED <<attempt, exc>>

\* The snapshot before the copy; the copy then starts.
SnapshotBefore ==
  /\ cp = "snapshot" /\ ~aborted
  /\ before' = src
  /\ plan' \in CopyPlans(cur)
  /\ made' = {}
  /\ cp' = "copying"
  /\ UNCHANGED <<environment, cur, attempt, drift, exc>>

\* A drift error of the snapshot itself is retried unless the mode is
\* best-effort; any other error, and a cancellation, leaves the loop.
SnapshotBeforeFails ==
  /\ cp = "snapshot"
  /\ \/ aborted /\ Throw("aborted") /\ UNCHANGED faults
     \/ ~aborted /\ Fault /\ Throw("error")
     \/ ~aborted /\ ReportsDrift /\ Mode = "best-effort" /\ Throw("drift")
     \/ ~aborted /\ ReportsDrift /\ Mode # "best-effort" /\ Retry
  /\ UNCHANGED <<config, src, workspace, late, temps, aborted, cur, before, plan, made>>

\* One file, linked into place: the writers never replace an existing file.
WriteArtifact(a) ==
  /\ cp = "copying" /\ ~aborted
  /\ a \in plan /\ files[a] = Absent
  /\ files' = [files EXCEPT ![a] = src[Surface[a]]]
  /\ plan' = plan \ {a}
  /\ made' = made \cup {a}
  /\ UNCHANGED <<config, src, stray, late, temps, aborted, faults,
                 cur, cp, attempt, before, drift, exc>>

CopyDone ==
  /\ cp = "copying" /\ plan = {}
  /\ cp' = "compare"
  /\ UNCHANGED <<environment, cur, attempt, before, drift, plan, made, exc>>

\* The copy throws: cancelled, blocked by a file that is already there, told
\* of drift by the source (an ETag that moved), or for any other reason.
CopyError(e) ==
  /\ cp = "copying"
  /\ \/ e = "error" /\ Fault
     \/ e = "error" /\ (aborted \/ \E a \in plan : files[a] # Absent) /\ UNCHANGED faults
     \/ e = "drift" /\ ~aborted /\ Changed /\ UNCHANGED faults

\* The other branches of the copy go on; what they return is dropped.
LeaveBranches ==
  IF cur \in Parallel THEN \E W \in SUBSET plan : late' = late \cup W
                     ELSE UNCHANGED late

CopyFails ==
  /\ \E e \in {"error", "drift"} : CopyError(e) /\ exc' = e
  /\ LeaveBranches
  /\ cp' = "partial"
  /\ UNCHANGED <<config, src, workspace, temps, aborted, cur, attempt, before,
                 drift, plan, made>>

\* Mutant: a late branch replaces the file it finds in place.
LateBranchReplaces ==
  /\ late # {}
  /\ \E a \in late : /\ files' = [files EXCEPT ![a] = src[Surface[a]]]
                     /\ stray' = stray \cup {a} /\ late' = late \ {a}
  /\ UNCHANGED <<config, src, temps, aborted, faults,
                 cur, cp, attempt, before, drift, plan, made, exc>>

\* Such a branch writes its next file, or ends: done, aborted, failing, or meeting
\* a file that is already there.
LateBranch ==
  /\ late # {}
  /\ \/ \E a \in late : /\ files[a] = Absent
                        /\ files' = [files EXCEPT ![a] = src[Surface[a]]]
                        /\ stray' = stray \cup {a} /\ late' = late \ {a}
     \/ \E W \in SUBSET late : W # late /\ late' = W /\ UNCHANGED workspace
  /\ UNCHANGED <<config, src, temps, aborted, faults,
                 cur, cp, attempt, before, drift, plan, made, exc>>

\* After cleanupAfterCopyFailure: rethrow or retry.
AfterPartial ==
  \/ aborted /\ Throw("aborted")
  \/ ~aborted /\ (exc = "error" \/ Mode = "best-effort") /\ Throw(exc)
  \/ ~aborted /\ exc = "drift" /\ Mode # "best-effort" /\ Retry

\* cleanupPartial removes the step's whole scope; scopes that are directories
\* take the writer temporaries along, scopes that are file names do not.
CleanPartial ==
  /\ cp = "partial" /\ cur \in PartialCleanup
  /\ Remove(Scope(cur))
  /\ temps' \in {temps, temps \ Owns[cur]}
  /\ AfterPartial
  /\ UNCHANGED <<config, src, late, aborted, faults, cur, before, plan, made>>

CleanPartialFails ==
  /\ cp = "partial" /\ cur \in PartialCleanup /\ Fault
  /\ \E R \in SUBSET Scope(cur) : Remove(R)
  /\ Throw("cleanup_failed")
  /\ UNCHANGED <<config, src, late, temps, aborted, cur, before, plan, made>>

\* Without a cleanupPartial a drift retry is refused, other errors pass.
NoPartialCleanup ==
  /\ cp = "partial" /\ cur \notin PartialCleanup
  /\ \/ exc = "drift" /\ Mode # "best-effort" /\ Throw("unsafe")
     \/ ~(exc = "drift" /\ Mode # "best-effort") /\ AfterPartial
  /\ UNCHANGED <<environment, cur, before, plan, made>>

\* The snapshot after the copy, and its comparison with the first.
Compare ==
  /\ cp = "compare" /\ ~aborted
  /\ \/ ~Changed /\ Return(drift)
     \/ Changed /\ Mode = "best-effort" /\ Return(TRUE)
     \/ /\ Changed /\ Mode # "best-effort"
        /\ cp' = "cleanup" /\ exc' = "differs" /\ UNCHANGED <<attempt, drift>>
  /\ UNCHANGED <<environment, cur, before, plan, made>>

CompareFails ==
  /\ cp = "compare"
  /\ \/ /\ aborted /\ UNCHANGED faults
        /\ cp' = "cleanup" /\ exc' = "aborted" /\ UNCHANGED <<attempt, drift>>
     \/ /\ ~aborted /\ Fault
        /\ cp' = "cleanup" /\ exc' = "error" /\ UNCHANGED <<attempt, drift>>
     \/ ~aborted /\ ReportsDrift /\ Mode = "best-effort" /\ Return(TRUE)
     \/ /\ ~aborted /\ ReportsDrift /\ Mode # "best-effort"
        /\ cp' = "cleanup" /\ exc' = "drift" /\ UNCHANGED <<attempt, drift>>
  /\ UNCHANGED <<config, src, workspace, late, temps, aborted, cur, before, plan, made>>

\* After cleanupCompletedCopy.  A difference the comparison found goes to
\* driftAction without another look at the signal.
AfterCleanup ==
  \/ aborted /\ exc # "differs" /\ Throw("aborted")
  \/ ~aborted /\ exc = "error" /\ Throw("error")
  \/ ~aborted /\ exc = "drift" /\ Retry
  \/ exc = "differs" /\ Retry

\* Mutant: the copy is retried over the files of the discarded one.
CleanCopySkipped ==
  /\ cp = "cleanup"
  /\ AfterCleanup
  /\ UNCHANGED <<environment, cur, before, plan, made>>

\* cleanup removes exactly what the copy returned.
CleanCopy ==
  /\ cp = "cleanup"
  /\ Remove(made)
  /\ AfterCleanup
  /\ UNCHANGED <<config, src, late, temps, aborted, faults, cur, before, plan, made>>

CleanCopyFails ==
  /\ cp = "cleanup" /\ Fault
  /\ \E R \in SUBSET made : Remove(R)
  /\ Throw("cleanup_failed")
  /\ UNCHANGED <<config, src, late, temps, aborted, cur, before, plan, made>>

Copying ==
  \/ SnapshotBefore \/ SnapshotBeforeFails
  \/ \E a \in Artifacts : WriteArtifact(a)
  \/ CopyDone \/ CopyFails
  \/ CleanPartial \/ CleanPartialFails \/ NoPartialCleanup
  \/ Compare \/ CompareFails
  \/ CleanCopy \/ CleanCopyFails

-----------------------------------------------------------------------------

\* The world: users write to the project, the caller aborts its signal.
SourceChanges ==
  /\ \E s \in Steps : src[s] < MaxVersion /\ src' = [src EXCEPT ![s] = @ + 1]
  /\ UNCHANGED <<config, workspace, late, temps, aborted, faults,
                 cur, cp, attempt, before, drift, plan, made, exc>>

Abort ==
  /\ ~aborted /\ Fault /\ aborted' = TRUE
  /\ UNCHANGED <<config, src, workspace, late, temps,
                 cur, cp, attempt, before, drift, plan, made, exc>>

CopyInit ==
  /\ config \in Configs
  /\ src = [s \in Steps |-> 1]
  /\ files = [a \in Artifacts |-> Absent]
  /\ stray = {} /\ late = {}
  /\ temps = {} /\ aborted = FALSE /\ faults = 0
  /\ cur \in Adapted /\ cp = "snapshot" /\ attempt = 1
  /\ before = src /\ drift = FALSE
  /\ plan = {} /\ made = {} /\ exc = "none"

CopyNext == Copying \/ LateBranch \/ SourceChanges \/ Abort

CopySpec == CopyInit /\ [][CopyNext]_copyVars /\ WF_copyVars(Copying)

-----------------------------------------------------------------------------

\* What is there of the step a branch wrote that nobody waits for.
Bare == \A a \in Owns[cur] : files[a] = Absent \/ a \in stray

\* What is listed is of one version, and nothing else is there.
OneVersion ==
  /\ plan = {}
  /\ \A a \in Owns[cur] :
       IF a \in made THEN files[a] = before[Surface[a]]
                     ELSE files[a] = Absent \/ a \in stray

(* What runConsistentCopy returns without reporting drift is one version of *)
(* every surface it observed, complete, although branches of an earlier     *)
(* attempt may still be writing: no listed file is of an attempt before or  *)
(* taken after a change, and whatever else is there such a branch wrote     *)
(* (consistency.ts, runConsistentCopy).                                     *)
ReturnedCopyIsConsistent ==
  cp = "returned" /\ (Mode # "best-effort" \/ ~drift) => OneVersion

\* What the caller sees of the loop.
Ending ==
  CASE cp = "returned" -> "returned"
    [] cp = "threw" /\ exc \in {"unstable", "quiesced_changed"} -> "drifted"
    [] /\ cp = "threw" /\ exc \notin {"unstable", "quiesced_changed"}
       /\ exc = "cleanup_failed" \/ cur \notin PartialCleanup -> "spoiled"
    [] /\ cp = "threw" /\ exc \notin {"unstable", "quiesced_changed", "cleanup_failed"}
       /\ cur \in PartialCleanup -> "failed"
    [] cp \notin {"returned", "threw"} -> "working"

(* The protocol keeps its promise for any adapter: it tries again only over *)
(* a scope without files of the attempt before, at most MaxRetries times    *)
(* and in verified mode; it gives up with nothing left but for a cleanup    *)
(* that failed or is missing; and branches that go on do not take back what *)
(* was returned or removed (consistency.ts).                                *)
Loop == INSTANCE CapturePromise WITH
  mode <- Mode, bare <- Bare, consistent <- cp = "returned" /\ OneVersion, state <- Ending

CopyKeepsPromise == Loop!Spec

(* An attempt that throws leaves none of the step's files in the workspace, *)
(* however many attempts drift discarded before it, unless the cleanup      *)
(* itself failed, but for what a branch nobody waits for wrote after it     *)
(* (cleanupCompletedCopy, cleanupAfterCopyFailure).                         *)
NothingLeftBehind ==
  cp = "threw" /\ exc # "cleanup_failed" /\ cur \in PartialCleanup => Bare

(* Drift never goes unnoticed and never costs more than the retry bound: a  *)
(* verified copy gives up with SOURCE_DID_NOT_STABILIZE exactly after       *)
(* MaxRetries + 1 attempts, and a quiesced one at its first drift           *)
(* (driftAction).                                                           *)
RetryBound ==
  /\ exc = "unstable" => attempt = MaxRetries + 1 /\ Mode = "verified"
  /\ exc = "quiesced_changed" => attempt = 1
  /\ attempt > 1 => drift /\ Mode = "verified"

(* The loop ends, by returning or by throwing, whatever the source does     *)
(* and however often it fails (runConsistentCopy).                          *)
CopyTerminates == <>(cp \in {"returned", "threw"})

=============================================================================

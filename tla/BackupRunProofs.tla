-------------------------- MODULE BackupRunProofs ---------------------------
(***************************************************************************)
(* Theorems about the copy protocol and about a backup run, for any number *)
(* of steps, files, retries, versions and faults.                          *)
(*                                                                         *)
(* CopyTypeCorrect: types, stated both for CopySpec and for the single     *)
(* step that BackupRun takes from it.                                      *)
(* DriftNeverUnnoticed, AttemptsLeaveNothing, RetriesAreBounded: what the  *)
(* protocol is for, from one inductive invariant (CopyInv).                *)
(* CopyRefinesPromise: the protocol implements CapturePromise.             *)
(*                                                                         *)
(* Of the run:                                                             *)
(* TypeCorrect: RunTypeOK is invariant.                                    *)
(* CapturesStayIntact, ResumeStaysPossible: what a completed step captured *)
(* is not touched by anything the program does afterwards, so that only    *)
(* damage from outside makes a checkpoint unusable.                        *)
(* FinishedIsExact, LabelStaysHonest: what a finished bundle is, from      *)
(* BundleInv, which follows files and checkpoint through copies, cleanups  *)
(* and finalization.                                                       *)
(* RunKeepsPromise: a backup run implements BackupPromise.                 *)
(*                                                                         *)
(* CopyStepsAreBounded, ProcessStepsAreBounded: the copy, and a process of *)
(* the run, have only so many steps before them, and every step of theirs  *)
(* is one less.  RunStops: none of them fails for nothing.                 *)
(***************************************************************************)
EXTENDS BackupRun, FiniteSetTheorems, TLAPS

USE DEF Mode, Adapted, PartialCleanup, Parallel, workspace, Remove

(* Leaving the loop or going round it keeps the loop's own variables typed; *)
(* a retry is taken only while the bound allows one more attempt.           *)
LoopTypeOK ==
  cp \in ControlPoints /\ exc \in Errors /\ drift \in BOOLEAN
    /\ attempt \in 1..MaxRetries + 1

LEMMA RetryKeepsTypes ==
  ASSUME LoopTypeOK, Retry PROVE LoopTypeOK'
<1>1. cp' \in ControlPoints /\ exc' \in Errors
  BY DEF Retry, MayRetry, ControlPoints, Errors
<1>2. drift' \in BOOLEAN
  BY DEF Retry
<1>3. attempt' = attempt \/ (attempt <= MaxRetries /\ attempt' = attempt + 1)
  BY DEF Retry, MayRetry, NextAttempt
<1>4. attempt' \in 1..MaxRetries + 1
  BY <1>3, CopyAssumption DEF LoopTypeOK
<1>. QED
  BY <1>1, <1>2, <1>4 DEF LoopTypeOK

LEMMA ThrowKeepsTypes ==
  ASSUME LoopTypeOK, NEW e \in Errors, Throw(e) PROVE LoopTypeOK'
BY DEF LoopTypeOK, Throw, ControlPoints

(* Every action of the copy keeps its variables in their types.             *)
LEMMA CopyingKeepsTypes ==
  ASSUME CopyTypeOK, Copying
  PROVE  CopyTypeOK'
<1> USE CopyAssumption
<1>a. LoopTypeOK
  BY DEF CopyTypeOK, LoopTypeOK
<1>b. ASSUME Fault \/ ReportsDrift PROVE faults' \in 0..MaxFaults
  BY <1>b DEF CopyTypeOK, Fault, ReportsDrift
<1>c. ASSUME NEW R PROVE Without(R) \in [Artifacts -> Contents]
  BY DEF CopyTypeOK, Without, Contents, Absent
<1>d. {"error", "drift", "aborted", "unsafe", "cleanup_failed"} \subseteq Errors
  BY DEF Errors
<1> USE DEF CopyTypeOK
<1>1. CASE SnapshotBefore
  BY <1>1 DEF SnapshotBefore, CopyPlans, environment, ControlPoints
<1>2. CASE SnapshotBeforeFails
  <2>1. LoopTypeOK'
    BY <1>2, <1>a, <1>d, RetryKeepsTypes, ThrowKeepsTypes DEF SnapshotBeforeFails
  <2>2. faults' \in 0..MaxFaults
    BY <1>2, <1>b DEF SnapshotBeforeFails
  <2>. QED
    BY <1>2, <2>1, <2>2 DEF SnapshotBeforeFails, LoopTypeOK
<1>3. CASE \E a \in Artifacts : WriteArtifact(a)
  <2>1. PICK a \in Artifacts : WriteArtifact(a)
    BY <1>3
  <2>2. src[Surface[a]] \in Contents
    BY DEF Contents
  <2>3. files' \in [Artifacts -> Contents]
    BY <2>1, <2>2 DEF WriteArtifact
  <2>. QED
    BY <2>1, <2>3 DEF WriteArtifact
<1>4. CASE CopyDone
  BY <1>4 DEF CopyDone, environment, ControlPoints
<1>5. CASE CopyFails
  <2>1. late' \subseteq Artifacts
    BY <1>5 DEF CopyFails, LeaveBranches
  <2>. QED
    BY <1>5, <2>1, <1>b, <1>d DEF CopyFails, CopyError, ControlPoints
<1>6. CASE CleanPartial
  <2>1. LoopTypeOK'
    BY <1>6, <1>a, <1>d, RetryKeepsTypes, ThrowKeepsTypes DEF CleanPartial, AfterPartial
  <2>2. files' \in [Artifacts -> Contents] /\ temps' \subseteq Artifacts \cup {"index"}
    BY <1>6, <1>c DEF CleanPartial
  <2>. QED
    BY <1>6, <2>1, <2>2 DEF CleanPartial, LoopTypeOK
<1>7. CASE CleanPartialFails
  <2>1. LoopTypeOK'
    BY <1>7, <1>a, <1>d, ThrowKeepsTypes DEF CleanPartialFails
  <2>2. files' \in [Artifacts -> Contents] /\ faults' \in 0..MaxFaults
    BY <1>7, <1>b, <1>c DEF CleanPartialFails
  <2>. QED
    BY <1>7, <2>1, <2>2 DEF CleanPartialFails, LoopTypeOK
<1>8. CASE NoPartialCleanup
  <2>1. LoopTypeOK'
    BY <1>8, <1>a, <1>d, RetryKeepsTypes, ThrowKeepsTypes DEF NoPartialCleanup, AfterPartial
  <2>. QED
    BY <1>8, <2>1 DEF NoPartialCleanup, LoopTypeOK, environment
<1>9. CASE Compare
  BY <1>9 DEF Compare, Return, environment, ControlPoints, Errors
<1>10. CASE CompareFails
  <2>1. LoopTypeOK'
    BY <1>10, <1>a DEF CompareFails, Return, LoopTypeOK, ControlPoints, Errors
  <2>2. faults' \in 0..MaxFaults
    BY <1>10, <1>b DEF CompareFails
  <2>. QED
    BY <1>10, <2>1, <2>2 DEF CompareFails, LoopTypeOK
<1>11. CASE CleanCopy
  <2>1. LoopTypeOK'
    BY <1>11, <1>a, <1>d, RetryKeepsTypes, ThrowKeepsTypes DEF CleanCopy, AfterCleanup
  <2>2. files' \in [Artifacts -> Contents]
    BY <1>11, <1>c DEF CleanCopy
  <2>. QED
    BY <1>11, <2>1, <2>2 DEF CleanCopy, LoopTypeOK
<1>12. CASE CleanCopyFails
  <2>1. LoopTypeOK'
    BY <1>12, <1>a, <1>d, ThrowKeepsTypes DEF CleanCopyFails
  <2>2. files' \in [Artifacts -> Contents] /\ faults' \in 0..MaxFaults
    BY <1>12, <1>b, <1>c DEF CleanCopyFails
  <2>. QED
    BY <1>12, <2>1, <2>2 DEF CleanCopyFails, LoopTypeOK
<1>. QED
  BY <1>1, <1>2, <1>3, <1>4, <1>5, <1>6, <1>7, <1>8, <1>9, <1>10, <1>11, <1>12
  DEF Copying

(* A branch that outlived its copy writes a version of the source.          *)
LEMMA LateBranchKeepsTypes ==
  ASSUME CopyTypeOK, LateBranch
  PROVE  CopyTypeOK'
<1> USE CopyAssumption DEF CopyTypeOK
<1>1. ASSUME NEW a \in late, files' = [files EXCEPT ![a] = src[Surface[a]]]
      PROVE  files' \in [Artifacts -> Contents]
  <2>1. src[Surface[a]] \in Contents
    BY DEF Contents
  <2>. QED
    BY <1>1, <2>1
<1>2. files' \in [Artifacts -> Contents]
  BY <1>1 DEF LateBranch
<1>3. late' \subseteq Artifacts /\ stray' \subseteq Artifacts
  BY DEF LateBranch
<1>. QED
  BY <1>2, <1>3 DEF LateBranch

(* The source moves and the signal is aborted within their types.           *)
LEMMA WorldKeepsTypes ==
  ASSUME CopyTypeOK, SourceChanges \/ Abort
  PROVE  CopyTypeOK'
<1>1. CASE SourceChanges
  BY <1>1, CopyAssumption DEF CopyTypeOK, SourceChanges
<1>2. CASE Abort
  BY <1>2, CopyAssumption DEF CopyTypeOK, Abort, Fault
<1>. QED
  BY <1>1, <1>2

(* CopyTypeOK is an invariant of the copy protocol (consistency.ts,         *)
(* runConsistentCopy): the loop counter never passes MaxRetries + 1.        *)
THEOREM CopyTypeCorrect == CopySpec => []CopyTypeOK
<1>1. CopyInit => CopyTypeOK
  <2> SUFFICES ASSUME CopyInit PROVE CopyTypeOK
    OBVIOUS
  <2> USE CopyAssumption DEF CopyInit
  <2>1. src \in [Steps -> 1..MaxVersion] /\ before \in [Steps -> 1..MaxVersion]
    OBVIOUS
  <2>2. files \in [Artifacts -> Contents]
    BY DEF Contents, Absent
  <2>3. cur \in Steps /\ attempt \in 1..MaxRetries + 1 /\ faults \in 0..MaxFaults
    OBVIOUS
  <2>4. temps = {} /\ stray = {} /\ late = {} /\ plan = {} /\ made = {} /\ aborted \in BOOLEAN /\ drift \in BOOLEAN
    OBVIOUS
  <2>5. cp \in ControlPoints /\ exc \in Errors
    BY DEF ControlPoints, Errors
  <2>. QED
    BY <2>1, <2>2, <2>3, <2>4, <2>5 DEF CopyTypeOK
<1>2. CopyTypeOK /\ [CopyNext]_copyVars => CopyTypeOK'
  <2> SUFFICES ASSUME CopyTypeOK, [CopyNext]_copyVars PROVE CopyTypeOK'
    OBVIOUS
  <2>1. CASE CopyNext
    BY <2>1, CopyingKeepsTypes, LateBranchKeepsTypes, WorldKeepsTypes DEF CopyNext
  <2>2. CASE UNCHANGED copyVars
    BY <2>2 DEF copyVars, CopyTypeOK
  <2>. QED
    BY <2>1, <2>2
<1>. QED
  BY <1>1, <1>2, PTL DEF CopySpec

-----------------------------------------------------------------------------
\* What the attempts leave, and what a returned copy is worth.

(* What a copy made holds versions between the snapshot and now, and it     *)
(* made everything it had to.  If the scope was tidy at first, empty but    *)
(* for what late branches wrote, it is so at every snapshot, and nothing    *)
(* else is ever beside the files of the copy.                               *)
NothingElse == \A a \in Owns[cur] \ made : files[a] = Absent \/ a \in stray
MadeIsRecent ==
  \A a \in made : before[Surface[a]] <= files[a] /\ files[a] <= src[Surface[a]]

MadeIsOneVersion ==
  cp = "returned" /\ cur \in Adapted /\ (Mode # "best-effort" \/ ~drift) =>
    \A a \in made : files[a] = before[Surface[a]]

CopyInv(tidy) ==
  /\ \A s \in Steps : before[s] <= src[s]
  /\ cp = "snapshot" /\ tidy => Bare
  /\ cp \in {"copying", "partial", "compare", "cleanup", "returned"} =>
       /\ MadeIsRecent /\ Owns[cur] \cap Mandatory \subseteq plan \cup made
       /\ tidy => NothingElse
  /\ cp \in {"compare", "cleanup", "returned"} => plan = {}
  /\ cp = "partial" => exc \in {"error", "drift"}
  /\ exc \in {"unstable", "quiesced_changed"} => cp = "threw"
  /\ MadeIsOneVersion /\ NothingLeftBehind /\ RetryBound

(* A retry needs an empty scope, whichever way it goes.                     *)
LEMMA RetryKeepsInv ==
  ASSUME NEW tidy \in BOOLEAN, cur \in PartialCleanup => tidy,
         CopyTypeOK, CopyInv(tidy), Retry, cp # "threw",
         UNCHANGED <<config, src, cur, before, plan, made>>, tidy => Bare'
  PROVE  CopyInv(tidy)'
<1>1. cp' \in {"threw", "snapshot"}
  BY DEF Retry
<1>2. RetryBound'
  BY CopyAssumption DEF Retry, MayRetry, NextAttempt, CopyInv, RetryBound, CopyTypeOK
<1>3. exc' \in {"unstable", "quiesced_changed"} => cp' = "threw"
  BY DEF Retry
<1>4. NothingLeftBehind' /\ MadeIsOneVersion'
  BY <1>1 DEF Bare, NothingLeftBehind, MadeIsOneVersion
<1>. QED
  BY <1>1, <1>2, <1>3, <1>4 DEF CopyInv

(* Throwing needs one too, unless the step has no cleanup or it failed.     *)
LEMMA ThrowKeepsInv ==
  ASSUME NEW tidy \in BOOLEAN,
         CopyTypeOK, CopyInv(tidy),
         NEW e \in Errors \ {"unstable", "quiesced_changed"}, Throw(e),
         UNCHANGED <<config, src, cur, before, plan, made>>,
         e = "cleanup_failed" \/ cur \notin PartialCleanup \/ Bare'
  PROVE  CopyInv(tidy)'
<1>1. RetryBound'
  BY DEF Throw, CopyInv, RetryBound
<1>2. NothingLeftBehind' /\ MadeIsOneVersion'
  BY DEF Throw, Bare, NothingLeftBehind, MadeIsOneVersion
<1>. QED
  BY <1>1, <1>2 DEF Throw, CopyInv

LEMMA CopyingKeepsInv ==
  ASSUME NEW tidy \in BOOLEAN, cur \in PartialCleanup => tidy,
         CopyTypeOK, CopyInv(tidy), Copying
  PROVE  CopyInv(tidy)'
<1> USE CopyAssumption
<1>a. /\ cur \in Steps /\ plan \subseteq Owns[cur] /\ made \subseteq Owns[cur]
      /\ Owns[cur] \subseteq Artifacts
      /\ files \in [Artifacts -> Contents] /\ src \in [Steps -> Nat] /\ before \in [Steps -> Nat]
  BY DEF CopyTypeOK
<1>b. {"error", "drift", "aborted", "unsafe", "cleanup_failed"}
        \subseteq Errors \ {"unstable", "quiesced_changed"}
  BY DEF Errors
<1>c. ASSUME NEW R, Owns[cur] \subseteq R, Remove(R), cur' = cur PROVE Bare'
  BY <1>a, <1>c DEF Bare, Without
<1>d. ASSUME cp' \notin {"returned", "threw"} PROVE MadeIsOneVersion' /\ NothingLeftBehind'
  BY <1>d DEF MadeIsOneVersion, NothingLeftBehind
<1>1. CASE SnapshotBefore
  <2>1. MadeIsRecent' /\ (tidy => NothingElse')
    BY <1>1 DEF SnapshotBefore, CopyInv, Bare, NothingElse, MadeIsRecent, environment
  <2>2. \A s \in Steps : before'[s] <= src'[s]
    BY <1>1, <1>a DEF SnapshotBefore, environment
  <2>3. Owns[cur'] \cap Mandatory \subseteq plan' \cup made'
    BY <1>1 DEF SnapshotBefore, CopyPlans
  <2>. QED
    BY <1>1, <1>d, <2>1, <2>2, <2>3 DEF SnapshotBefore, CopyInv, RetryBound, environment
<1>2. CASE SnapshotBeforeFails
  <2>1. (tidy => Bare') /\ cp # "threw"
    BY <1>2 DEF SnapshotBeforeFails, CopyInv, Bare
  <2>. QED
    BY <1>2, <1>b, <2>1, RetryKeepsInv, ThrowKeepsInv DEF SnapshotBeforeFails
<1>3. CASE \E a \in Artifacts : WriteArtifact(a)
  <2>1. PICK a \in Artifacts : WriteArtifact(a)
    BY <1>3
  <2>2. MadeIsRecent /\ before[Surface[a]] <= src[Surface[a]] /\ (tidy => NothingElse)
    BY <2>1 DEF CopyInv, WriteArtifact
  <2>3. /\ files' = [files EXCEPT ![a] = src[Surface[a]]] /\ made' = made \cup {a}
        /\ UNCHANGED <<cur, before, src, stray>> /\ src[Surface[a]] \in Nat
        /\ a \in Owns[cur]
    BY <2>1, <1>a DEF WriteArtifact
  <2>4. \A b \in Artifacts \ {a} : files'[b] = files[b]
    BY <2>3, <1>a
  <2>5. MadeIsRecent'
    <3> SUFFICES ASSUME NEW b \in made'
                 PROVE  before[Surface[b]] <= files'[b] /\ files'[b] <= src[Surface[b]]
      BY <2>3 DEF MadeIsRecent
    <3>1. CASE b = a
      BY <2>2, <2>3, <3>1, <1>a
    <3>2. CASE b # a
      <4>1. files'[b] = files[b] /\ b \in made
        BY <2>3, <2>4, <3>2, <1>a
      <4>. QED
        BY <2>2, <4>1 DEF MadeIsRecent
    <3>. QED
      BY <3>1, <3>2
  <2>6. tidy => NothingElse'
    BY <2>2, <2>3, <2>4, <1>a DEF NothingElse
  <2>7. Owns[cur'] \cap Mandatory \subseteq plan' \cup made'
    BY <2>1 DEF WriteArtifact, CopyInv
  <2>. QED
    BY <2>1, <2>5, <2>6, <2>7, <1>d DEF WriteArtifact, CopyInv, RetryBound
<1>4. CASE CopyDone
  BY <1>4, <1>d DEF CopyDone, CopyInv, MadeIsRecent, NothingElse, RetryBound, environment
<1>5. CASE CopyFails
  BY <1>5, <1>d DEF CopyFails, CopyError, CopyInv, MadeIsRecent, NothingElse, RetryBound
<1>6. CASE CleanPartial
  <2>1. Bare'
    BY <1>6, <1>c DEF CleanPartial, Scope
  <2>2. exc \in {"error", "drift"}
    BY <1>6 DEF CleanPartial, CopyInv
  <2>. QED
    BY <1>6, <1>b, <2>1, <2>2, RetryKeepsInv, ThrowKeepsInv DEF CleanPartial, AfterPartial
<1>7. CASE CleanPartialFails
  BY <1>7, <1>b, ThrowKeepsInv DEF CleanPartialFails
<1>8. CASE NoPartialCleanup
  <2>1. \E e \in {"unsafe", "aborted", "error", "drift"} : Throw(e)
    BY <1>8 DEF NoPartialCleanup, AfterPartial, CopyInv
  <2>. QED
    BY <1>8, <1>b, <2>1, ThrowKeepsInv DEF NoPartialCleanup, environment
<1>9. CASE Compare
  <2>1. MadeIsRecent /\ plan = {}
    BY <1>9 DEF Compare, CopyInv
  <2>2. ASSUME ~Changed, NEW a \in made PROVE files[a] = before[Surface[a]]
    <3>1. Surface[a] \in Observed(cur) /\ Surface[a] \in Steps /\ a \in Owns[cur]
      BY <1>a DEF Observed
    <3>2. src[Surface[a]] = before[Surface[a]]
      BY <2>2, <3>1 DEF Changed
    <3>3. before[Surface[a]] <= files[a] /\ files[a] <= src[Surface[a]]
      BY <2>1, <2>2 DEF MadeIsRecent
    <3>4. files[a] \in Nat /\ src[Surface[a]] \in Nat
      BY <3>1, <1>a DEF Contents
    <3>. QED
      BY <3>2, <3>3, <3>4
  <2>3. MadeIsOneVersion'
    BY <1>9, <2>2 DEF Compare, Return, MadeIsOneVersion, environment
  <2>4. NothingLeftBehind'
    BY <1>9 DEF Compare, Return, NothingLeftBehind
  <2>. QED
    BY <1>9, <2>1, <2>3, <2>4 DEF Compare, Return, CopyInv, MadeIsRecent, NothingElse,
       RetryBound, environment
<1>10. CASE CompareFails
  <2>1. MadeIsRecent /\ plan = {}
    BY <1>10 DEF CompareFails, CopyInv
  <2>2. MadeIsOneVersion' /\ NothingLeftBehind'
    BY <1>10 DEF CompareFails, Return, MadeIsOneVersion, NothingLeftBehind
  <2>. QED
    BY <1>10, <2>1, <2>2 DEF CompareFails, Return, CopyInv, MadeIsRecent, NothingElse,
       RetryBound
<1>11. CASE CleanCopy
  <2>1. tidy => Bare'
    BY <1>11, <1>a DEF CleanCopy, CopyInv, NothingElse, Bare, Without
  <2>. QED
    BY <1>11, <1>b, <2>1, RetryKeepsInv, ThrowKeepsInv DEF CleanCopy, AfterCleanup
<1>12. CASE CleanCopyFails
  BY <1>12, <1>b, ThrowKeepsInv DEF CleanCopyFails
<1>. QED
  BY <1>1, <1>2, <1>3, <1>4, <1>5, <1>6, <1>7, <1>8, <1>9, <1>10, <1>11, <1>12
  DEF Copying

(* Other changes keep the invariant when they leave the files of the copy   *)
(* as they are, put strays beside them only, and let the source go forward. *)
LEMMA BystanderKeepsInv ==
  ASSUME NEW tidy \in BOOLEAN, CopyTypeOK, CopyInv(tidy), src' \in [Steps -> Nat],
         UNCHANGED <<config, cur, cp, attempt, before, drift, plan, made, exc>>,
         \A s \in Steps : src[s] <= src'[s],
         \A a \in Owns[cur] : \/ files'[a] = files[a] /\ (a \in stray => a \in stray')
                              \/ files[a] = Absent /\ a \in stray'
  PROVE  CopyInv(tidy)'
<1> USE CopyAssumption
<1>1. /\ \A a \in made : a \in Owns[cur] /\ a \in Artifacts /\ Surface[a] \in Steps
      /\ before \in [Steps -> 1..MaxVersion] /\ src \in [Steps -> Nat]
      /\ files \in [Artifacts -> Nat]
  BY DEF CopyTypeOK, Contents
<1>2. (cp = "snapshot" /\ tidy => Bare) => (cp = "snapshot" /\ tidy => Bare')
  BY DEF Bare
<1>3. NothingElse => NothingElse'
  BY DEF NothingElse
<1>4. ASSUME MadeIsRecent, NEW a \in made PROVE files'[a] = files[a]
  <2>1. before[Surface[a]] <= files[a] /\ before[Surface[a]] \in 1..MaxVersion
    BY <1>1, <1>4 DEF MadeIsRecent
  <2>2. files[a] # Absent
    BY <2>1 DEF Absent
  <2>. QED
    BY <1>1, <2>2
<1>5. MadeIsRecent => MadeIsRecent'
  <2> SUFFICES ASSUME MadeIsRecent, NEW a \in made
               PROVE  before[Surface[a]] <= files'[a] /\ files'[a] <= src'[Surface[a]]
    BY DEF MadeIsRecent
  <2>1. before[Surface[a]] <= files[a] /\ files[a] <= src[Surface[a]] /\ files'[a] = files[a]
    BY <1>4 DEF MadeIsRecent
  <2>2. src[Surface[a]] <= src'[Surface[a]] /\ src'[Surface[a]] \in Nat
        /\ src[Surface[a]] \in Nat /\ files[a] \in Nat
    BY <1>1
  <2>. QED
    BY <2>1, <2>2
<1>6. ASSUME cp = "returned" PROVE MadeIsOneVersion => MadeIsOneVersion'
  BY <1>4, <1>6 DEF MadeIsOneVersion, CopyInv
<1>7. MadeIsOneVersion'
  BY <1>6 DEF CopyInv, MadeIsOneVersion
<1>8. NothingLeftBehind => NothingLeftBehind'
  BY DEF NothingLeftBehind, Bare
<1>9. \A s \in Steps : before'[s] <= src'[s]
  <2> SUFFICES ASSUME NEW s \in Steps PROVE before[s] <= src'[s]
    OBVIOUS
  <2>1. before[s] <= src[s] /\ src[s] <= src'[s]
    BY DEF CopyInv
  <2>. QED
    BY <2>1, <1>1
<1>10. RetryBound'
  BY DEF CopyInv, RetryBound
<1>. QED
  BY <1>2, <1>3, <1>5, <1>7, <1>8, <1>9, <1>10 DEF CopyInv

(* A late branch writes no file that is there, so none that the copy made.  *)
LEMMA LateBranchKeepsInv ==
  ASSUME NEW tidy \in BOOLEAN, CopyTypeOK, CopyInv(tidy), LateBranch
  PROVE  CopyInv(tidy)'
<1> USE CopyAssumption
<1>1. /\ UNCHANGED <<config, src, cur, cp, attempt, before, drift, plan, made, exc>>
      /\ src \in [Steps -> Nat] /\ Owns[cur] \subseteq Artifacts
  BY DEF LateBranch, CopyTypeOK
<1>2. \A a \in Artifacts :
        \/ files'[a] = files[a] /\ (a \in stray => a \in stray')
        \/ files[a] = Absent /\ a \in stray'
  <2>1. CASE files' = files /\ stray' = stray
    BY <2>1
  <2>2. CASE ~(files' = files /\ stray' = stray)
    <3>1. PICK b \in late : /\ files[b] = Absent /\ stray' = stray \cup {b}
                           /\ files' = [files EXCEPT ![b] = src[Surface[b]]]
      BY <2>2 DEF LateBranch
    <3>. QED
      BY <3>1 DEF CopyTypeOK
  <2>. QED
    BY <2>1, <2>2 DEF LateBranch
<1>3. \A s \in Steps : src[s] <= src'[s]
  BY <1>1
<1>. QED
  BY <1>1, <1>2, <1>3, BystanderKeepsInv

(* The source only moves forward, so the snapshot stays a lower bound.      *)
LEMMA WorldKeepsInv ==
  ASSUME NEW tidy \in BOOLEAN, CopyTypeOK, CopyInv(tidy), SourceChanges \/ Abort
  PROVE  CopyInv(tidy)'
<1>1. CASE SourceChanges
  <2>1. src' \in [Steps -> Nat] /\ \A s \in Steps : src[s] <= src'[s]
    BY <1>1, CopyAssumption DEF SourceChanges, CopyTypeOK
  <2>. QED
    BY <1>1, <2>1, BystanderKeepsInv DEF SourceChanges
<1>2. CASE Abort
  <2>1. src' \in [Steps -> Nat] /\ \A s \in Steps : src[s] <= src'[s]
    BY <1>2, CopyAssumption DEF Abort, CopyTypeOK
  <2>. QED
    BY <1>2, <2>1, BystanderKeepsInv DEF Abort
<1>. QED
  BY <1>1, <1>2

(* The protocol on its own starts with a tidy scope.                        *)
THEOREM CopyInvariant == CopySpec => [](CopyTypeOK /\ CopyInv(TRUE))
<1>1. CopyInit => CopyInv(TRUE)
  BY CopyAssumption DEF CopyInit, CopyInv, Bare, RetryBound, MadeIsOneVersion,
     NothingLeftBehind
<1>2. CopyTypeOK /\ CopyInv(TRUE) /\ [CopyNext]_copyVars => CopyInv(TRUE)'
  <2>1. ASSUME CopyInv(TRUE), UNCHANGED copyVars PROVE CopyInv(TRUE)'
    BY <2>1 DEF copyVars, CopyInv, Bare, NothingElse, MadeIsRecent, RetryBound,
       MadeIsOneVersion, NothingLeftBehind
  <2>. QED
    BY <2>1, CopyingKeepsInv, LateBranchKeepsInv, WorldKeepsInv DEF CopyNext
<1>. QED
  BY <1>1, <1>2, CopyTypeCorrect, PTL DEF CopySpec

(* A copy that returns without reporting drift is one version of every      *)
(* surface it observed, whatever late branches do (runConsistentCopy).      *)
THEOREM DriftNeverUnnoticed == CopySpec => []ReturnedCopyIsConsistent
<1>1. CopyTypeOK /\ CopyInv(TRUE) /\ cur \in Adapted => ReturnedCopyIsConsistent
  BY DEF CopyTypeOK, CopyInv, MadeIsOneVersion, NothingElse, OneVersion,
     ReturnedCopyIsConsistent
<1>2. CopyInit => cur \in Adapted
  BY DEF CopyInit
<1>3. cur \in Adapted /\ [CopyNext]_copyVars => (cur \in Adapted)'
  BY DEF CopyNext, copyVars, environment, SourceChanges, Abort, LateBranch, Copying,
     SnapshotBefore, SnapshotBeforeFails, WriteArtifact, CopyDone, CopyFails, CleanPartial,
     CleanPartialFails, NoPartialCleanup, Compare, CompareFails, CleanCopy, CleanCopyFails
<1>. QED
  BY <1>1, <1>2, <1>3, CopyInvariant, PTL DEF CopySpec

(* A copy that throws leaves nothing of its step behind, late branches may  *)
(* (cleanupCompletedCopy, cleanupAfterCopyFailure).                         *)
THEOREM AttemptsLeaveNothing == CopySpec => []NothingLeftBehind
<1>1. CopyInv(TRUE) => NothingLeftBehind
  BY DEF CopyInv
<1>. QED
  BY <1>1, CopyInvariant, PTL

(* The loop gives up exactly at its bound (driftAction).                    *)
THEOREM RetriesAreBounded == CopySpec => []RetryBound
<1>1. CopyInv(TRUE) => RetryBound
  BY DEF CopyInv
<1>. QED
  BY <1>1, CopyInvariant, PTL

(* The steps the copy can still take: those of the attempts it has left, and  *)
(* those of the present one, a file each and four around them.              *)
AttemptSteps == Cardinality(Artifacts) + 4
LeftOfAttempt ==
  CASE cp = "snapshot" -> Cardinality(Artifacts) + 4
    [] cp = "copying" -> Cardinality(plan) + 3
    [] cp = "compare" -> 2
    [] cp \in {"partial", "cleanup"} -> 1
    [] cp \in {"idle", "returned", "threw"} -> 0
StepsLeft == (MaxRetries + 1 - attempt) * AttemptSteps + LeftOfAttempt

StepsAreCounted ==
  [][Copying => StepsLeft' \in Nat /\ StepsLeft' < StepsLeft]_copyVars

LEMMA FewerAttemptsLeft ==
  ASSUME NEW n \in Nat, NEW w \in Nat, n > 0
  PROVE  (n - 1) * w = n * w - w /\ n * w - w \in Nat
OBVIOUS

LEMMA PlansAreCounted ==
  ASSUME CopyTypeOK
  PROVE  /\ IsFiniteSet(plan)
         /\ Cardinality(plan) \in Nat /\ Cardinality(Artifacts) \in Nat
         /\ Cardinality(plan) <= Cardinality(Artifacts)
<1>1. plan \in SUBSET Artifacts
  BY CopyAssumption DEF CopyTypeOK
<1>. QED
  BY <1>1, FilesAssumption, FS_Subset, FS_CardinalityType

(* A step that stays in its attempt leaves less of it.                      *)
LEMMA AttemptGoesOn ==
  ASSUME CopyTypeOK, CopyTypeOK', UNCHANGED attempt,
         LeftOfAttempt \in Nat, LeftOfAttempt' \in Nat, LeftOfAttempt' < LeftOfAttempt
  PROVE  StepsLeft' \in Nat /\ StepsLeft' < StepsLeft
<1>1. AttemptSteps \in Nat /\ MaxRetries + 1 - attempt \in Nat
  BY PlansAreCounted, CopyAssumption DEF AttemptSteps, CopyTypeOK
<1>2. (MaxRetries + 1 - attempt) * AttemptSteps \in Nat
  BY <1>1
<1>3. (MaxRetries + 1 - attempt') * AttemptSteps = (MaxRetries + 1 - attempt) * AttemptSteps
  OBVIOUS
<1>. QED
  BY <1>2, <1>3 DEF StepsLeft, AttemptSteps

(* A new attempt is paid for by the old one.                                *)
LEMMA AttemptIsLost ==
  ASSUME CopyTypeOK, CopyTypeOK', attempt' = attempt + 1, cp' = "snapshot",
         LeftOfAttempt \in Nat \ {0}
  PROVE  StepsLeft' \in Nat /\ StepsLeft' < StepsLeft
<1> DEFINE n == MaxRetries + 1 - attempt
<1>1. AttemptSteps \in Nat /\ n \in Nat /\ n > 0 /\ MaxRetries + 1 - attempt' = n - 1
  BY PlansAreCounted, CopyAssumption DEF AttemptSteps, CopyTypeOK
<1>2. LeftOfAttempt' = AttemptSteps
  BY DEF LeftOfAttempt, AttemptSteps
<1>3. n * AttemptSteps \in Nat
  BY <1>1
<1>4. (n - 1) * AttemptSteps = n * AttemptSteps - AttemptSteps
      /\ n * AttemptSteps - AttemptSteps \in Nat
  BY <1>1, FewerAttemptsLeft
<1>5. StepsLeft' = (n - 1) * AttemptSteps + AttemptSteps
  BY <1>1, <1>2 DEF StepsLeft, AttemptSteps
<1>6. StepsLeft = n * AttemptSteps + LeftOfAttempt
  BY DEF StepsLeft
<1> HIDE DEF n
<1>. QED
  BY <1>1, <1>3, <1>4, <1>5, <1>6

(* Every step of the copy itself is counted.                                *)
LEMMA CopyingIsCounted ==
  ASSUME CopyTypeOK, CopyTypeOK', Copying
  PROVE  StepsLeft' \in Nat /\ StepsLeft' < StepsLeft
<1>1. /\ Cardinality(plan) \in Nat /\ Cardinality(Artifacts) \in Nat
      /\ IsFiniteSet(plan) /\ Cardinality(plan)' \in Nat
      /\ Cardinality(plan)' <= Cardinality(Artifacts)
  <2>1. IsFiniteSet(plan') /\ plan' \in SUBSET Artifacts
    BY FilesAssumption, FS_Subset, CopyAssumption DEF CopyTypeOK
  <2>2. Cardinality(plan') \in Nat /\ Cardinality(plan') <= Cardinality(Artifacts)
    BY <2>1, FilesAssumption, FS_Subset, FS_CardinalityType
  <2>. QED
    BY <2>2, PlansAreCounted
<1>2. LeftOfAttempt \in Nat /\ LeftOfAttempt' \in Nat
  BY <1>1 DEF LeftOfAttempt, CopyTypeOK, ControlPoints
<1>3. CASE UNCHANGED attempt /\ cp' \in {"returned", "threw"}
  <2>1. cp \in {"snapshot", "copying", "partial", "compare", "cleanup"}
    <3>1. CASE SnapshotBefore \/ SnapshotBeforeFails \/ CopyDone \/ CopyFails
      BY <3>1 DEF SnapshotBefore, SnapshotBeforeFails, CopyDone, CopyFails, CopyError
    <3>2. CASE CleanPartial \/ CleanPartialFails \/ NoPartialCleanup
      BY <3>2 DEF CleanPartial, CleanPartialFails, NoPartialCleanup
    <3>3. CASE Compare \/ CompareFails \/ CleanCopy \/ CleanCopyFails
      BY <3>3 DEF Compare, CompareFails, CleanCopy, CleanCopyFails
    <3>4. CASE \E a \in Artifacts : WriteArtifact(a)
      BY <3>4 DEF WriteArtifact
    <3>. QED
      BY <3>1, <3>2, <3>3, <3>4 DEF Copying
  <2>2. LeftOfAttempt' = 0 /\ LeftOfAttempt > 0
    BY <1>1, <1>3, <2>1 DEF LeftOfAttempt, CopyTypeOK, ControlPoints
  <2>. QED
    BY <1>2, <1>3, <2>2, AttemptGoesOn
<1>4. CASE attempt' = attempt + 1 /\ cp' = "snapshot" /\ cp \in {"snapshot", "partial", "cleanup"}
  <2>1. LeftOfAttempt \in Nat \ {0}
    BY <1>1, <1>4 DEF LeftOfAttempt
  <2>. QED
    BY <1>4, <2>1, AttemptIsLost
<1>5. CASE \E a \in Artifacts : WriteArtifact(a)
  <2>1. PICK a \in Artifacts : WriteArtifact(a)
    BY <1>5
  <2>2. Cardinality(plan)' = Cardinality(plan) - 1
    <3>1. a \in plan /\ plan' = plan \ {a}
      BY <2>1 DEF WriteArtifact
    <3>2. Cardinality(plan \ {a}) = Cardinality(plan) - 1
      BY <1>1, <3>1, FS_RemoveElement
    <3>. QED
      BY <3>1, <3>2
  <2>3. LeftOfAttempt' < LeftOfAttempt /\ attempt' = attempt
    BY <1>1, <2>1, <2>2 DEF WriteArtifact, LeftOfAttempt
  <2>. QED
    BY <1>2, <2>3, AttemptGoesOn
<1>6. CASE SnapshotBefore \/ CopyDone \/ CopyFails
  <2>1. /\ UNCHANGED attempt
        /\ \/ cp = "snapshot" /\ cp' = "copying"
           \/ cp = "copying" /\ cp' \in {"compare", "partial"}
    BY <1>6 DEF SnapshotBefore, CopyDone, CopyFails, CopyError
  <2>2. LeftOfAttempt' < LeftOfAttempt
    BY <1>1, <2>1 DEF LeftOfAttempt
  <2>. QED
    BY <1>2, <2>1, <2>2, AttemptGoesOn
<1>7. CASE (Compare \/ CompareFails) /\ cp' = "cleanup"
  <2>1. LeftOfAttempt' < LeftOfAttempt /\ attempt' = attempt
    BY <1>7 DEF Compare, CompareFails, Return, LeftOfAttempt
  <2>. QED
    BY <1>2, <2>1, AttemptGoesOn
<1>8. CASE (Compare \/ CompareFails) /\ cp' # "cleanup"
  <2>1. UNCHANGED attempt /\ cp' = "returned"
    BY <1>8 DEF Compare, CompareFails, Return
  <2>. QED
    BY <1>3, <2>1
<1>9. CASE SnapshotBeforeFails \/ CleanPartial \/ CleanPartialFails \/ NoPartialCleanup
           \/ CleanCopy \/ CleanCopyFails
  <2>1. cp \in {"snapshot", "partial", "cleanup"}
    BY <1>9 DEF SnapshotBeforeFails, CleanPartial, CleanPartialFails, NoPartialCleanup,
       CleanCopy, CleanCopyFails
  <2>2. (\E e \in Errors : Throw(e)) \/ Retry
    BY <1>9 DEF SnapshotBeforeFails, CleanPartial, CleanPartialFails, NoPartialCleanup,
       CleanCopy, CleanCopyFails, AfterPartial, AfterCleanup, Errors, CopyTypeOK
  <2>3. \/ UNCHANGED attempt /\ cp' \in {"returned", "threw"}
        \/ attempt' = attempt + 1 /\ cp' = "snapshot"
    BY <2>2 DEF Throw, Retry, NextAttempt
  <2>. QED
    BY <1>3, <1>4, <2>1, <2>3
<1>. QED
  BY <1>5, <1>6, <1>7, <1>8, <1>9 DEF Copying

(* Whatever the source does and whatever fails: a copy takes no more than   *)
(* (MaxRetries + 1) * (|Artifacts| + 4) steps of its own, so that           *)
(* CopyTerminates only asks that awaited calls are answered                 *)
(* (runConsistentCopy).                                                     *)
THEOREM CopyStepsAreBounded == CopySpec => StepsAreCounted
BY CopyingIsCounted, CopyTypeCorrect, PTL DEF CopySpec, StepsAreCounted

(* How a step of the loop goes round or ends; it goes round, or gives up,   *)
(* over a scope with nothing in it.                                         *)
LoopEnds == {"returned", "threw"}
DriftErrors == {"unstable", "quiesced_changed"}

CopyTurn ==
  /\ UNCHANGED <<config, cur>> /\ (drift => drift')
  /\ \/ attempt' = attempt /\ cp' \notin LoopEnds
     \/ MayRetry /\ attempt' = attempt + 1 /\ drift' /\ Bare' /\ cp' = "snapshot"
     \/ attempt' = attempt /\ cp' = "returned"
     \/ attempt' = attempt /\ cp' = "threw" /\ exc' \notin DriftErrors
     \/ /\ attempt' = attempt /\ cp' = "threw" /\ exc' \in DriftErrors /\ drift' /\ Bare'
        /\ Mode = "quiesced" \/ (Mode = "verified" /\ attempt = MaxRetries + 1)

LEMMA RetryTurns ==
  ASSUME CopyTypeOK, Retry, Bare', UNCHANGED <<config, cur>>
  PROVE  CopyTurn
<1>1. drift'
  BY DEF Retry
<1>2. CASE MayRetry /\ cp' = "snapshot" /\ attempt' = NextAttempt
  BY <1>1, <1>2 DEF CopyTurn, NextAttempt
<1>3. CASE ~MayRetry /\ Mode = "verified" /\ cp' = "threw" /\ exc' = "unstable" /\ UNCHANGED attempt
  <2>1. attempt = MaxRetries + 1
    BY <1>3, CopyAssumption DEF MayRetry, CopyTypeOK
  <2>. QED
    BY <1>1, <1>3, <2>1 DEF CopyTurn, DriftErrors
<1>4. CASE Mode = "quiesced" /\ cp' = "threw" /\ exc' = "quiesced_changed" /\ UNCHANGED attempt
  BY <1>1, <1>4 DEF CopyTurn, DriftErrors
<1>. QED
  BY <1>2, <1>3, <1>4 DEF Retry

LEMMA ThrowTurns ==
  ASSUME NEW e, e \notin DriftErrors, Throw(e), UNCHANGED <<config, cur>>
  PROVE  CopyTurn
BY DEF Throw, CopyTurn

LEMMA CopyingGoesOn == Copying => cp \notin LoopEnds
BY DEF Copying, SnapshotBefore, SnapshotBeforeFails, WriteArtifact, CopyDone, CopyFails,
   CopyError, CleanPartial, CleanPartialFails, NoPartialCleanup, Compare, CompareFails,
   CleanCopy, CleanCopyFails, LoopEnds

LEMMA CopyingTurns ==
  ASSUME CopyTypeOK, CopyInv(TRUE), Copying
  PROVE  CopyTurn
<1>a. /\ Owns[cur] \subseteq Artifacts /\ made \subseteq Owns[cur]
      /\ files \in [Artifacts -> Contents]
  BY CopyAssumption DEF CopyTypeOK
<1>b. \A e \in {"error", "drift", "aborted", "unsafe", "cleanup_failed"} : e \notin DriftErrors
  BY DEF DriftErrors
<1>1. CASE SnapshotBefore \/ CopyDone \/ CopyFails \/ \E a \in Artifacts : WriteArtifact(a)
  BY <1>1 DEF SnapshotBefore, CopyDone, CopyFails, WriteArtifact, environment, CopyTurn, LoopEnds
<1>2. CASE SnapshotBeforeFails
  <2>1. Bare' /\ UNCHANGED <<config, cur>>
    BY <1>2 DEF SnapshotBeforeFails, CopyInv, Bare
  <2>. QED
    BY <1>2, <1>b, <2>1, RetryTurns, ThrowTurns DEF SnapshotBeforeFails
<1>3. CASE CleanPartial
  <2>1. Bare' /\ UNCHANGED <<config, cur>> /\ exc \in {"error", "drift"}
    BY <1>3, <1>a DEF CleanPartial, CopyInv, Scope, Without, Bare
  <2>. QED
    BY <1>3, <1>b, <2>1, RetryTurns, ThrowTurns DEF CleanPartial, AfterPartial
<1>4. CASE CleanPartialFails \/ CleanCopyFails
  BY <1>4, <1>b, ThrowTurns DEF CleanPartialFails, CleanCopyFails
<1>5. CASE NoPartialCleanup
  <2>1. \E e \in {"unsafe", "aborted", "error", "drift"} : Throw(e)
    BY <1>5 DEF NoPartialCleanup, AfterPartial, CopyInv
  <2>. QED
    BY <1>5, <1>b, <2>1, ThrowTurns DEF NoPartialCleanup, environment
<1>6. CASE Compare \/ CompareFails
  BY <1>6 DEF Compare, CompareFails, Return, environment, CopyTurn, LoopEnds
<1>7. CASE CleanCopy
  <2>1. Bare' /\ UNCHANGED <<config, cur>>
    BY <1>7, <1>a DEF CleanCopy, CopyInv, NothingElse, Without, Bare
  <2>. QED
    BY <1>7, <1>b, <2>1, RetryTurns, ThrowTurns DEF CleanCopy, AfterCleanup
<1>. QED
  BY <1>1, <1>2, <1>3, <1>4, <1>5, <1>6, <1>7 DEF Copying

(* A branch nobody waits for changes nothing of what was promised: what it  *)
(* writes was not there, and does not count as the step's.                  *)
LEMMA LateBranchKeepsPromise ==
  ASSUME CopyTypeOK, CopyInv(TRUE), LateBranch
  PROVE  (Bare' <=> Bare) /\ (cp = "returned" => (OneVersion' <=> OneVersion))
<1> USE CopyAssumption
<1>1. /\ UNCHANGED <<cur, cp, before, plan, made>> /\ Owns[cur] \subseteq Artifacts
      /\ made \subseteq Owns[cur]
  BY DEF LateBranch, CopyTypeOK
<1>2. \A a \in Artifacts :
        \/ files'[a] = files[a] /\ (a \in stray <=> a \in stray')
        \/ files[a] = Absent /\ a \in stray'
  <2>1. CASE files' = files /\ stray' = stray
    BY <2>1
  <2>2. CASE ~(files' = files /\ stray' = stray)
    <3>1. PICK b \in late : /\ files[b] = Absent /\ stray' = stray \cup {b}
                           /\ files' = [files EXCEPT ![b] = src[Surface[b]]]
      BY <2>2 DEF LateBranch
    <3>. QED
      BY <3>1 DEF CopyTypeOK
  <2>. QED
    BY <2>1, <2>2 DEF LateBranch
<1>3. Bare' <=> Bare
  BY <1>1, <1>2 DEF Bare
<1>4. ASSUME cp = "returned", NEW a \in made PROVE files'[a] = files[a]
  <2>1. before[Surface[a]] <= files[a] /\ before[Surface[a]] \in 1..MaxVersion
    BY <1>1, <1>4 DEF CopyInv, MadeIsRecent, CopyTypeOK
  <2>2. files[a] # Absent
    BY <2>1 DEF Absent
  <2>. QED
    BY <1>1, <1>2, <2>2
<1>5. cp = "returned" => (OneVersion' <=> OneVersion)
  BY <1>1, <1>2, <1>4 DEF OneVersion
<1>. QED
  BY <1>3, <1>5

(* The protocol implements CapturePromise, whatever its adapter: it goes    *)
(* round for drift alone, within the bound and over an empty scope; what it *)
(* returns in silence is one version; what it throws leaves nothing unless  *)
(* a cleanup failed or is missing; and late branches change none of it      *)
(* (runConsistentCopy).                                                     *)
THEOREM CopyRefinesPromise == CopySpec => CopyKeepsPromise
<1>1. CopyInit => Loop!Init
  BY CopyAssumption DEF CopyInit, Loop!Init, Bare, Ending
<1>2. ASSUME CopyTypeOK, CopyTypeOK', CopyInv(TRUE), ReturnedCopyIsConsistent', NothingLeftBehind',
             [CopyNext]_copyVars
      PROVE  [Loop!Next]_(Loop!promiseVars)
  <2>1. CASE UNCHANGED copyVars
    <3>1. UNCHANGED <<Mode, attempt, drift, Bare, cp = "returned" /\ OneVersion, Ending>>
      BY <2>1 DEF copyVars, Bare, OneVersion, Ending
    <3>. QED
      BY <3>1 DEF Loop!promiseVars
  <2>2. CASE cp \in LoopEnds /\ (LateBranch \/ SourceChanges \/ Abort)
    <3>1. UNCHANGED <<config, cur, cp, attempt, drift, exc>> /\ (Bare' <=> Bare)
          /\ ((cp' = "returned" /\ OneVersion') <=> (cp = "returned" /\ OneVersion))
      BY <1>2, <2>2, LateBranchKeepsPromise
      DEF LateBranch, SourceChanges, Abort, Bare, OneVersion
    <3>2. Ending' = Ending
      BY <3>1 DEF Ending
    <3>3. Bare' = Bare /\ (cp = "returned" /\ OneVersion)' = (cp = "returned" /\ OneVersion)
      BY <3>1, Zenon DEF Bare, OneVersion
    <3>. QED
      BY <3>1, <3>2, <3>3 DEF Loop!promiseVars
  <2>3. CASE cp \notin LoopEnds /\ (LateBranch \/ SourceChanges \/ Abort)
    <3>1. UNCHANGED <<config, cur, cp, attempt, drift, exc>>
      BY <2>3 DEF LateBranch, SourceChanges, Abort
    <3>2. Ending = "working" /\ Ending' = "working"
      BY <2>3, <3>1 DEF Ending, LoopEnds
    <3>. QED
      BY <3>1, <3>2 DEF Loop!Next, Loop!Work
  <2>4. CASE Copying
    <3>1. CopyTurn /\ cp \notin LoopEnds /\ cp' \in ControlPoints
      BY <1>2, <2>4, CopyingTurns, CopyingGoesOn DEF CopyTypeOK
    <3>2. Ending = "working" /\ Mode' = Mode /\ (drift => drift')
      BY <3>1 DEF Ending, LoopEnds, CopyTurn
    <3>3. CASE attempt' = attempt /\ cp' \notin LoopEnds
      <4>1. Ending' = "working"
        BY <3>3 DEF Ending, LoopEnds
      <4>. QED
        BY <3>2, <3>3, <4>1 DEF Loop!Next, Loop!Work
    <3>4. CASE MayRetry /\ attempt' = attempt + 1 /\ drift' /\ Bare' /\ cp' = "snapshot"
      <4>1. Ending' = "working"
        BY <3>4 DEF Ending
      <4>. QED
        BY <3>2, <3>4, <4>1 DEF Loop!Next, Loop!Retry, MayRetry
    <3>5. CASE attempt' = attempt /\ cp' = "returned"
      <4>1. Ending' = "returned"
        BY <3>5 DEF Ending
      <4>2. OneVersion' \/ (Mode = "best-effort" /\ drift')
        BY <1>2, <3>2, <3>5 DEF ReturnedCopyIsConsistent
      <4>. QED
        BY <3>2, <3>5, <4>1, <4>2 DEF Loop!Next, Loop!Return
    <3>6. CASE attempt' = attempt /\ cp' = "threw" /\ exc' \notin DriftErrors
      <4>1. CASE exc' = "cleanup_failed" \/ cur' \notin PartialCleanup'
        <5>1. Ending' = "spoiled"
          BY <3>6, <4>1 DEF Ending, DriftErrors
        <5>. QED
          BY <3>2, <3>6, <5>1 DEF Loop!Next, Loop!Spoil
      <4>2. CASE exc' # "cleanup_failed" /\ cur' \in PartialCleanup'
        <5>1. Ending' = "failed" /\ Bare'
          BY <1>2, <3>6, <4>2 DEF Ending, DriftErrors, NothingLeftBehind
        <5>. QED
          BY <3>2, <3>6, <5>1 DEF Loop!Next, Loop!Throw
      <4>. QED
        BY <4>1, <4>2
    <3>7. CASE /\ attempt' = attempt /\ cp' = "threw" /\ exc' \in DriftErrors /\ drift' /\ Bare'
               /\ Mode = "quiesced" \/ (Mode = "verified" /\ attempt = MaxRetries + 1)
      <4>1. Ending' = "drifted"
        BY <3>7 DEF Ending, DriftErrors
      <4>. QED
        BY <3>2, <3>7, <4>1 DEF Loop!Next, Loop!Throw
    <3>. QED
      BY <3>1, <3>3, <3>4, <3>5, <3>6, <3>7 DEF CopyTurn
  <2>. QED
    BY <1>2, <2>1, <2>2, <2>3, <2>4 DEF CopyNext
<1>. QED
  BY <1>1, <1>2, CopyInvariant, DriftNeverUnnoticed, AttemptsLeaveNothing, PTL
  DEF CopySpec, CopyKeepsPromise, Loop!Spec

-----------------------------------------------------------------------------
\* The run.

USE DEF gone

-----------------------------------------------------------------------------
\* Types.

CkptType == [Steps -> StepRecord]

LEMMA FreshStepsType == FreshSteps \in CkptType
BY CopyAssumption DEF FreshSteps, CkptType, StepRecord, Statuses, NoFiles, Contents, Absent

LEMMA TransitionType ==
  ASSUME NEW m \in CkptType, NEW s \in Steps, NEW st \in Statuses
  PROVE  Transition(m, s, st) \in CkptType
BY DEF Transition, CkptType, StepRecord

(* A process that ends leaves every variable it clears in its type.         *)
LEMMA EndsType ==
  ASSUME NEW o \in Outcomes, Ends(o), RunTypeOK, config' = config,
         src' \in [Steps -> 1..MaxVersion], files' \in [Artifacts -> Contents],
         late' \subseteq Artifacts, stray' \subseteq Artifacts,
         temps' \subseteq Artifacts \cup {"index"}, faults' \in 0..MaxFaults,
         hasCkpt' \in BOOLEAN, ckpt' \in CkptType,
         UNCHANGED <<index, sealed, manifest>>
  PROVE  RunTypeOK'
<1> USE CopyAssumption
<1>1. cur' \in Steps /\ attempt' \in 1..MaxRetries + 1 /\ before' \in [Steps -> 1..MaxVersion]
  BY DEF Ends, Steps
<1>2. aborted' \in BOOLEAN /\ drift' \in BOOLEAN /\ plan' \subseteq Owns[cur'] /\ made' \subseteq Owns[cur']
  BY DEF Ends
<1>3. cp' \in ControlPoints /\ exc' \in Errors /\ pc' \in PCs /\ outcome' \in Outcomes
  BY DEF Ends, ControlPoints, Errors, PCs
<1>4. mem' \in CkptType
  BY FreshStepsType DEF Ends
<1>5. CopyTypeOK'
  BY <1>1, <1>2, <1>3 DEF RunTypeOK, CopyTypeOK
<1>. QED
  BY <1>3, <1>4, <1>5 DEF RunTypeOK, CkptType

LEMMA FaultType ==
  ASSUME faults \in 0..MaxFaults, Fault \/ WriteFails PROVE faults' \in 0..MaxFaults
BY CopyAssumption DEF Fault, WriteFails

LEMMA WithoutType ==
  ASSUME files \in [Artifacts -> Contents], NEW R PROVE Without(R) \in [Artifacts -> Contents]
BY CopyAssumption DEF Without, Contents, Absent

LEMMA AbortedOrType == AbortedOr("failed") \in Outcomes
BY DEF AbortedOr, Outcomes

(* Every step of a run keeps the variables in their types.                  *)
LEMMA NextKeepsTypes ==
  ASSUME RunTypeOK, Next PROVE RunTypeOK'
<1> USE CopyAssumption, BackupAssumption
<1>a. CopyTypeOK /\ src \in [Steps -> 1..MaxVersion] /\ files \in [Artifacts -> Contents]
      /\ temps \subseteq Artifacts \cup {"index"} /\ faults \in 0..MaxFaults
      /\ cur \in Steps /\ plan \subseteq Artifacts /\ made \subseteq Artifacts
      /\ late \subseteq Artifacts /\ stray \subseteq Artifacts
  BY DEF RunTypeOK, CopyTypeOK
<1>b. mem \in CkptType /\ ckpt \in CkptType /\ hasCkpt \in BOOLEAN
  BY DEF RunTypeOK, CkptType
<1>c. ASSUME UNCHANGED copyVars PROVE CopyTypeOK'
  BY <1>a, <1>c DEF copyVars, CopyTypeOK
<1>d. ASSUME UNCHANGED copyControl, config' = config, src' = src, aborted' = aborted,
             files' \in [Artifacts -> Contents], faults' \in 0..MaxFaults,
             late' \subseteq Artifacts, stray' \subseteq Artifacts,
             temps' \subseteq Artifacts \cup {"index"}
      PROVE  CopyTypeOK'
  BY <1>a, <1>d DEF copyControl, CopyTypeOK
<1>e. NoFiles \in [Artifacts -> Contents] /\ FreshSteps \in CkptType
  BY FreshStepsType DEF NoFiles, Contents, Absent
<1>1. CASE Start
  BY <1>1, <1>c DEF Start, RunTypeOK, disk, PCs
<1>2. CASE CreateCheckpoint
  BY <1>2, <1>c, <1>e DEF CreateCheckpoint, RunTypeOK, PCs, CkptType
<1>3. CASE CreateCheckpointFails
  BY <1>3, <1>a, <1>b, EndsType, FaultType, AbortedOrType DEF CreateCheckpointFails, disk
<1>4. CASE \E s \in Steps : CleanInterrupted(s)
  <2>1. PICK s \in Steps : CleanInterrupted(s)
    BY <1>4
  <2>2. files' \in [Artifacts -> Contents] /\ temps' \subseteq Artifacts \cup {"index"}
    BY <2>1, <1>a, WithoutType DEF CleanInterrupted
  <2>3. CopyTypeOK'
    BY <2>1, <2>2, <1>a, <1>d DEF CleanInterrupted
  <2>. QED
    BY <2>1, <2>3 DEF CleanInterrupted, RunTypeOK, disk, PCs
<1>5. CASE \E s \in Steps : CleanInterruptedFails(s)
  <2>1. PICK s \in Steps : CleanInterruptedFails(s)
    BY <1>5
  <2>2. files' \in [Artifacts -> Contents] /\ faults' \in 0..MaxFaults
    BY <2>1, <1>a, WithoutType, FaultType DEF CleanInterruptedFails
  <2>. QED
    BY <2>1, <2>2, <1>a, <1>b, EndsType, AbortedOrType DEF CleanInterruptedFails, disk
<1>6. CASE \E s \in Steps : EnterStep(s)
  <2>1. PICK s \in Steps : EnterStep(s)
    BY <1>6
  <2>2. mem' \in CkptType /\ ckpt' \in CkptType
    BY <2>1, <1>b, TransitionType DEF EnterStep, Statuses
  <2>3. plan' \subseteq Owns[cur'] /\ cp' \in ControlPoints
    BY <2>1 DEF EnterStep, CopyPlans, ControlPoints
  <2>4. cur' \in Steps /\ attempt' \in 1..MaxRetries + 1
    BY <2>1 DEF EnterStep
  <2>5. drift' \in BOOLEAN /\ made' \subseteq Owns[cur']
    BY <2>1 DEF EnterStep
  <2>6. CopyTypeOK'
    BY <2>1, <2>3, <2>4, <2>5, <1>a DEF EnterStep, CopyTypeOK, environment
  <2>. QED
    BY <2>1, <2>2, <2>6 DEF EnterStep, RunTypeOK, PCs, CkptType
<1>7. CASE \E s \in Steps : EnterStepFails(s)
  BY <1>7, <1>a, <1>b, EndsType, FaultType, AbortedOrType DEF EnterStepFails, disk
<1>8. CASE RunStep
  <2>1. CASE Copying
    <3>1. CopyTypeOK'
      BY <2>1, <1>a, CopyingKeepsTypes
    <3>. QED
      BY <3>1, <1>8 DEF RunStep, RunTypeOK, runVars
  <2>2. CASE \E a \in Artifacts : WriteArtifact(a)
    <3>1. CopyTypeOK'
      BY <2>2, <1>a, CopyingKeepsTypes DEF Copying
    <3>. QED
      BY <3>1, <1>8 DEF RunStep, RunTypeOK, runVars
  <2>3. CASE BareStepReturns
    <3>1. CopyTypeOK'
      BY <2>3, <1>a DEF BareStepReturns, CopyTypeOK, environment, ControlPoints
    <3>. QED
      BY <3>1, <1>8 DEF RunStep, RunTypeOK, runVars
  <2>4. CASE BareStepFails
    <3>1. faults' \in 0..MaxFaults /\ late' \subseteq Artifacts
      BY <2>4, <1>a, FaultType DEF BareStepFails, CopyError, LeaveBranches
    <3>2. CopyTypeOK'
      BY <2>4, <3>1, <1>a DEF BareStepFails, CopyTypeOK, ControlPoints, Errors
    <3>. QED
      BY <3>2, <1>8 DEF RunStep, RunTypeOK, runVars
  <2>. QED
    BY <1>8, <2>1, <2>2, <2>3, <2>4 DEF RunStep
<1>9. CASE CompleteStep
  <2>1. Described \in [Artifacts -> Contents]
    BY <1>a, <1>e DEF Described, Contents, Absent
  <2>2. [status |-> "completed", art |-> Described, drift |-> drift] \in StepRecord
    BY <2>1, <1>a DEF StepRecord, Statuses, CopyTypeOK
  <2>3. mem' \in CkptType
    BY <1>9, <2>2, <1>b DEF CompleteStep, CkptType
  <2>. QED
    BY <1>9, <2>3, <1>c DEF CompleteStep, RunTypeOK, disk, PCs, CkptType
<1>10. CASE CompleteStepFails
  <2>1. faults' \in 0..MaxFaults
    BY <1>10, <1>a, FaultType DEF CompleteStepFails
  <2>2. mem' \in CkptType
    BY <1>10, <1>a, <1>b, TransitionType DEF CompleteStepFails, Statuses
  <2>3. CopyTypeOK'
    BY <1>10, <2>1, <1>a, <1>d DEF CompleteStepFails
  <2>. QED
    BY <1>10, <2>2, <2>3 DEF CompleteStepFails, RunTypeOK, disk, PCs, CkptType
<1>11. CASE RecordCompleted
  <2>1. CopyTypeOK'
    BY <1>11, <1>a DEF RecordCompleted, CopyTypeOK, environment, ControlPoints
  <2>. QED
    BY <1>11, <2>1 DEF RecordCompleted, RunTypeOK, PCs
<1>12. CASE RecordCompletedFails
  BY <1>12, <1>a, <1>b, EndsType, FaultType DEF RecordCompletedFails, disk, Outcomes
<1>13. CASE StepThrew
  <2>1. mem' \in CkptType
    BY <1>13, <1>a, <1>b, TransitionType DEF StepThrew, Statuses
  <2>. QED
    BY <1>13, <2>1, <1>c DEF StepThrew, RunTypeOK, disk, PCs, CkptType
<1>14. CASE RecordFailed
  BY <1>14, <1>a, <1>b, EndsType DEF RecordFailed, Outcomes
<1>15. CASE RecordFailedFails
  BY <1>15, <1>a, <1>b, EndsType, FaultType DEF RecordFailedFails, disk, Outcomes
<1>16. CASE WriteCoverage \/ VerifyBundle
  BY <1>16, <1>c DEF WriteCoverage, VerifyBundle, RunTypeOK, disk, PCs
<1>17. CASE WriteIndex
  <2>1. CopyTypeOK'
    BY <1>17, <1>a, <1>d DEF WriteIndex
  <2>. QED
    BY <1>17, <2>1, <1>a DEF WriteIndex, RunTypeOK, PCs
<1>18. CASE WriteManifest
  <2>1. Label(mem) \in Labels
    BY <1>a, CopyAssumption DEF CopyTypeOK, Label, Labels
  <2>2. [s \in Steps |-> mem[s].art] \in [Steps -> [Artifacts -> Contents]]
    BY <1>b DEF CkptType, StepRecord
  <2>3. manifest' \in [art : [Steps -> [Artifacts -> Contents]],
                       index : [Artifacts -> Contents], label : Labels]
    BY <1>18, <2>1, <2>2 DEF WriteManifest, RunTypeOK
  <2>. QED
    BY <1>18, <2>3, <1>c DEF WriteManifest, RunTypeOK, PCs
<1>19. CASE FinalizeFails
  <2>1. faults' \in 0..MaxFaults
    BY <1>19, <1>a, FaultType DEF FinalizeFails
  <2>. QED
    BY <1>19, <2>1, <1>a, <1>b, EndsType, AbortedOrType DEF FinalizeFails, disk
<1>20. CASE Publish
  BY <1>20, <1>c DEF Publish, RunTypeOK, PCs, Outcomes
<1>21. CASE Resume \/ ResumeRefused
  BY <1>21, <1>c DEF Resume, ResumeRefused, RunTypeOK, disk, PCs, Outcomes
<1>22. CASE Crash
  <2>1. /\ temps' \subseteq Artifacts \cup {"index"} /\ faults' \in 0..MaxFaults
        /\ late' \subseteq Artifacts
    BY <1>22, <1>a, FaultType DEF Crash
  <2>. QED
    BY <1>22, <2>1, <1>a, <1>b, EndsType DEF Crash, disk, Outcomes
<1>23. CASE Damage
  <2>1. files' \in [Artifacts -> Contents] /\ faults' \in 0..MaxFaults
    BY <1>23, <1>a, FaultType DEF Damage
  <2>2. CopyTypeOK'
    BY <1>23, <2>1, <1>a, <1>d DEF Damage
  <2>. QED
    BY <1>23, <2>2 DEF Damage, RunTypeOK, runVars
<1>24. CASE SourceMoves \/ AbortRun \/ BranchGoesOn
  <2>1. CopyTypeOK'
    BY <1>24, <1>a, WorldKeepsTypes, LateBranchKeepsTypes
    DEF SourceMoves, AbortRun, BranchGoesOn
  <2>. QED
    BY <1>24, <2>1 DEF SourceMoves, AbortRun, BranchGoesOn, RunTypeOK, runVars
<1>. QED
  BY <1>1, <1>2, <1>3, <1>4, <1>5, <1>6, <1>7, <1>8, <1>9, <1>10, <1>11, <1>12,
     <1>13, <1>14, <1>15, <1>16, <1>17, <1>18, <1>19, <1>20, <1>21, <1>22, <1>23, <1>24
  DEF Next, Process

LEMMA InitTypes == Init => RunTypeOK
<1> SUFFICES ASSUME Init PROVE RunTypeOK
  OBVIOUS
<1> USE CopyAssumption DEF Init
<1>1. NoFiles \in [Artifacts -> Contents] /\ FreshSteps \in CkptType
  BY FreshStepsType DEF NoFiles, Contents, Absent
<1>2. src \in [Steps -> 1..MaxVersion] /\ before \in [Steps -> 1..MaxVersion]
  OBVIOUS
<1>3. cur \in Steps /\ attempt \in 1..MaxRetries + 1 /\ faults \in 0..MaxFaults
  BY DEF Steps
<1>4. aborted \in BOOLEAN /\ drift \in BOOLEAN /\ hasCkpt \in BOOLEAN /\ sealed \in BOOLEAN
  OBVIOUS
<1>5. temps = {} /\ stray = {} /\ late = {} /\ plan = {} /\ made = {}
  OBVIOUS
<1>6. cp \in ControlPoints /\ exc \in Errors /\ pc \in PCs /\ outcome \in Outcomes
  BY DEF ControlPoints, Errors, PCs, Outcomes
<1>7. Label(FreshSteps) \in Labels
  BY DEF Label, Labels
<1>8. manifest \in [art : [Steps -> [Artifacts -> Contents]],
                    index : [Artifacts -> Contents], label : Labels]
  BY <1>1, <1>7
<1>9. CopyTypeOK
  BY <1>1, <1>2, <1>3, <1>4, <1>5, <1>6 DEF CopyTypeOK
<1>. QED
  BY <1>1, <1>4, <1>6, <1>8, <1>9 DEF RunTypeOK, CkptType

(* Type correctness of a backup run (coordinator.ts, executeBackup).        *)
THEOREM TypeCorrect == Spec => []RunTypeOK
<1>1. RunTypeOK /\ [Next]_vars => RunTypeOK'
  <2>1. ASSUME RunTypeOK, UNCHANGED vars PROVE RunTypeOK'
    BY <2>1 DEF vars, copyVars, runVars, RunTypeOK, CopyTypeOK
  <2>. QED
    BY <2>1, NextKeepsTypes
<1>. QED
  BY <1>1, InitTypes, PTL DEF Spec
-----------------------------------------------------------------------------
\* Captured files.

(* Steps complete in order, and list only files of their own or files that  *)
(* an earlier step wrote: so a file captured by a completed step is in the  *)
(* scope of no later step.                                                  *)
InOrder(m) == \A s, t \in Steps : t < s /\ Completed(m, s) => Completed(m, t)
ListsInScope(m) ==
  \A s \in Steps : Completed(m, s) =>
    \A a \in Artifacts : m[s].art[a] # Absent => a \in Owns[s] \cup Shared[s]

(* While a process works, what the checkpoint claims it believes too.       *)
Working == pc \notin {"down", "create", "done"}
Covers(m, n) == \A s \in Steps : Completed(n, s) => m[s] = n[s]

(* The inductive invariant behind CapturesIntact.                           *)
CapturesInv ==
  /\ InOrder(mem) /\ InOrder(ckpt)
  /\ ListsInScope(mem) /\ ListsInScope(ckpt)
  /\ IF pc = "down" THEN mem = FreshSteps ELSE Intact(mem)
  /\ Working => Covers(mem, ckpt)
  /\ pc = "run" => NextStep(mem, cur)

(* What the step in its turn owns, no completed step has captured.          *)
LEMMA ScopesApart ==
  ASSUME NEW m, NEW s \in Steps, NextStep(m, s), InOrder(m), ListsInScope(m),
         NEW t \in Steps, Completed(m, t), NEW a \in Owns[s], a \in Artifacts
  PROVE  m[t].art[a] = Absent
<1> USE CopyAssumption, BackupAssumption
<1>1. t # s
  BY DEF NextStep
<1>2. t < s
  <2>1. ~(s < t)
    BY DEF NextStep, InOrder
  <2>. QED
    BY <1>1, <2>1 DEF Steps
<1>3. a \notin Owns[t]
  BY <1>1
<1>4. a \notin Shared[t]
  <2> SUFFICES ASSUME a \in Shared[t] PROVE FALSE
    OBVIOUS
  <2>1. PICK u \in Steps : u < t /\ a \in Owns[u]
    OBVIOUS
  <2>2. u # s
    BY <1>2, <2>1 DEF Steps
  <2>. QED
    BY <2>1, <2>2
<1>. QED
  BY <1>3, <1>4 DEF ListsInScope

(* So files that only change within that scope leave all captures intact.   *)
LEMMA ScopeChangeKeepsIntact ==
  ASSUME NEW m, NEW s \in Steps, NextStep(m, s), InOrder(m), ListsInScope(m), Intact(m),
         \A a \in Artifacts \ Owns[s] : files'[a] = files[a]
  PROVE  \A t \in Steps : Completed(m, t) =>
           \A a \in Artifacts : m[t].art[a] # Absent => files'[a] = m[t].art[a]
<1> SUFFICES ASSUME NEW t \in Steps, Completed(m, t),
                    NEW a \in Artifacts, m[t].art[a] # Absent
             PROVE  files'[a] = m[t].art[a]
  OBVIOUS
<1>1. a \notin Owns[s]
  BY ScopesApart
<1>. QED
  BY <1>1 DEF Intact

LEMMA WithoutOutside ==
  ASSUME NEW R, NEW a \in Artifacts, a \notin R PROVE Without(R)[a] = files[a]
BY DEF Without

(* One step of the copy touches only files its backup step owns.            *)
LEMMA CopyStaysInScope ==
  ASSUME CopyTypeOK, RunStep
  PROVE  /\ UNCHANGED runVars /\ cur' = cur
         /\ \A a \in Artifacts \ Owns[cur] : files'[a] = files[a]
<1> SUFFICES ASSUME NEW a \in Artifacts \ Owns[cur]
             PROVE  UNCHANGED runVars /\ cur' = cur /\ files'[a] = files[a]
  BY DEF RunStep, runVars, Copying, BareStepReturns, BareStepFails, SnapshotBefore,
         SnapshotBeforeFails, WriteArtifact, CopyDone, CopyFails, CleanPartial,
         CleanPartialFails, NoPartialCleanup, Compare, CompareFails, CleanCopy, CleanCopyFails
<1>1. made \subseteq Owns[cur] /\ plan \subseteq Owns[cur] /\ files \in [Artifacts -> Contents]
  BY DEF CopyTypeOK
<1>2. UNCHANGED runVars
  BY DEF RunStep
<1>3. CASE \E b \in Artifacts : WriteArtifact(b)
  BY <1>1, <1>2, <1>3 DEF WriteArtifact
<1>4. CASE SnapshotBefore \/ SnapshotBeforeFails \/ CopyDone \/ CopyFails
           \/ NoPartialCleanup \/ Compare \/ CompareFails \/ BareStepReturns \/ BareStepFails
  BY <1>2, <1>4 DEF SnapshotBefore, SnapshotBeforeFails, CopyDone, CopyFails,
     NoPartialCleanup, Compare, CompareFails, BareStepReturns, BareStepFails, environment
<1>5. CASE CleanPartial \/ CleanPartialFails
  BY <1>2, <1>5, WithoutOutside DEF CleanPartial, CleanPartialFails, Scope
<1>6. CASE CleanCopy \/ CleanCopyFails
  BY <1>1, <1>2, <1>6, WithoutOutside DEF CleanCopy, CleanCopyFails
<1>. QED
  BY <1>3, <1>4, <1>5, <1>6 DEF RunStep, Copying

(* The only way a step changes a file a working process has captured would  *)
(* be to write outside the scope of the step in its turn.                   *)
LEMMA FilesKept ==
  ASSUME RunTypeOK, CapturesInv, Next, pc # "down"
  PROVE  \A t \in Steps : Completed(mem, t) =>
           \A a \in Artifacts : mem[t].art[a] # Absent => files'[a] = mem[t].art[a]
<1>1. Intact(mem) /\ InOrder(mem) /\ ListsInScope(mem)
  BY DEF CapturesInv
<1>2. CASE UNCHANGED files
  BY <1>1, <1>2 DEF Intact
<1>3. ASSUME NEW s \in Steps, CleanInterrupted(s) \/ CleanInterruptedFails(s)
      PROVE  NextStep(mem, s) /\ \A a \in Artifacts \ Owns[s] : files'[a] = files[a]
  BY <1>3, WithoutOutside DEF CleanInterrupted, CleanInterruptedFails, Scope
<1>4. CASE \E s \in Steps : CleanInterrupted(s) \/ CleanInterruptedFails(s)
  BY <1>1, <1>3, <1>4, ScopeChangeKeepsIntact
<1>5. CASE RunStep
  <2>1. NextStep(mem, cur) /\ cur \in Steps
    BY <1>5 DEF RunStep, CapturesInv, RunTypeOK, CopyTypeOK
  <2>2. \A a \in Artifacts \ Owns[cur] : files'[a] = files[a]
    BY <1>5, CopyStaysInScope DEF RunTypeOK
  <2>. QED
    BY <1>1, <2>1, <2>2, ScopeChangeKeepsIntact
<1>6. CASE Start \/ CreateCheckpoint \/ CreateCheckpointFails \/ Resume \/ ResumeRefused
           \/ (\E s \in Steps : EnterStep(s) \/ EnterStepFails(s))
  BY <1>2, <1>6 DEF Start, CreateCheckpoint, CreateCheckpointFails, Resume, ResumeRefused,
     EnterStep, EnterStepFails, copyVars, environment
<1>7. CASE CompleteStep \/ CompleteStepFails \/ RecordCompleted \/ RecordCompletedFails
           \/ StepThrew \/ RecordFailed \/ RecordFailedFails
  BY <1>2, <1>7 DEF CompleteStep, CompleteStepFails, RecordCompleted, RecordCompletedFails,
     StepThrew, RecordFailed, RecordFailedFails, copyVars, environment
<1>8. CASE WriteCoverage \/ WriteIndex \/ WriteManifest \/ VerifyBundle
           \/ FinalizeFails \/ Publish \/ Crash \/ SourceMoves \/ AbortRun
  BY <1>2, <1>8 DEF WriteCoverage, WriteIndex, WriteManifest, VerifyBundle, FinalizeFails,
     Publish, Crash, SourceMoves, AbortRun, SourceChanges, Abort, copyVars
<1>9. ~Damage
  BY DEF Damage
<1>10. CASE BranchGoesOn
  <2>1. \A a \in Artifacts : files[a] # Absent => files'[a] = files[a]
    BY <1>10 DEF BranchGoesOn, LateBranch, RunTypeOK, CopyTypeOK
  <2>. QED
    BY <1>1, <2>1 DEF Intact
<1>. QED
  BY <1>4, <1>5, <1>6, <1>7, <1>8, <1>9, <1>10 DEF Next, Process

(* A working process only ever records what it believes.                    *)
LEMMA CheckpointFollows ==
  ASSUME RunTypeOK, CapturesInv, Next, Working
  PROVE  Covers(mem, ckpt')
<1>1. Covers(mem, ckpt)
  BY DEF CapturesInv
<1>2. CASE UNCHANGED ckpt
  BY <1>1, <1>2
<1>3. CASE \E s \in Steps : EnterStep(s)
  <2>1. PICK s \in Steps : EnterStep(s)
    BY <1>3
  <2>2. ckpt' = Transition(mem, s, "in_progress") /\ mem \in CkptType
    BY <2>1 DEF EnterStep, RunTypeOK, CkptType
  <2>. QED
    BY <2>2 DEF Covers, Completed, Transition, CkptType, StepRecord
<1>4. CASE RecordCompleted \/ RecordFailed
  BY <1>4 DEF RecordCompleted, RecordFailed, Covers
<1>5. CASE CreateCheckpoint
  BY <1>5 DEF CreateCheckpoint, Working
<1>6. CASE Start \/ CreateCheckpointFails \/ Resume \/ ResumeRefused \/ RunStep
           \/ (\E s \in Steps : EnterStepFails(s) \/ CleanInterrupted(s)
                                 \/ CleanInterruptedFails(s))
  BY <1>2, <1>6 DEF Start, CreateCheckpointFails, Resume, ResumeRefused, EnterStepFails,
     CleanInterrupted, CleanInterruptedFails, RunStep, runVars, disk
<1>7. CASE CompleteStep \/ CompleteStepFails \/ RecordCompletedFails
           \/ StepThrew \/ RecordFailedFails
  BY <1>2, <1>7 DEF CompleteStep, CompleteStepFails, RecordCompletedFails,
     StepThrew, RecordFailedFails, disk
<1>8. CASE WriteCoverage \/ WriteIndex \/ WriteManifest \/ VerifyBundle
           \/ FinalizeFails \/ Publish \/ Crash \/ Damage \/ SourceMoves \/ AbortRun
           \/ BranchGoesOn
  BY <1>2, <1>8 DEF WriteCoverage, WriteIndex, WriteManifest, VerifyBundle, FinalizeFails,
     Publish, Crash, Damage, SourceMoves, AbortRun, BranchGoesOn, runVars, disk
<1>. QED
  BY <1>3, <1>4, <1>5, <1>6, <1>7, <1>8 DEF Next, Process

WellFormed(m) == InOrder(m) /\ ListsInScope(m)

LEMMA FreshStepsWellFormed ==
  /\ \A s \in Steps : ~Completed(FreshSteps, s)
  /\ WellFormed(FreshSteps) /\ \A m : Covers(m, FreshSteps)
<1>1. \A s \in Steps : ~Completed(FreshSteps, s)
  BY DEF FreshSteps, Completed
<1>. QED
  BY <1>1 DEF WellFormed, InOrder, ListsInScope, Covers

(* The step in its turn may change its status short of completion.          *)
LEMMA TransitionWellFormed ==
  ASSUME NEW m \in CkptType, NEW s \in Steps, NEW st \in Statuses \ {"completed"},
         NextStep(m, s), WellFormed(m)
  PROVE  /\ WellFormed(Transition(m, s, st)) /\ NextStep(Transition(m, s, st), s)
         /\ \A t \in Steps : Completed(Transition(m, s, st), t) =>
              Completed(m, t) /\ Transition(m, s, st)[t] = m[t]
         /\ \A n : Covers(m, n) => Covers(Transition(m, s, st), n)
<1> DEFINE T == Transition(m, s, st)
<1>1. \A t \in Steps : t # s => T[t] = m[t]
  BY DEF Transition, CkptType
<1>2. T[s].status = st
  BY DEF Transition, CkptType, StepRecord
<1>3. ~Completed(T, s) /\ ~Completed(m, s)
  BY <1>2 DEF Completed, NextStep
<1>4. \A t \in Steps : Completed(T, t) <=> Completed(m, t)
  BY <1>1, <1>3 DEF Completed
<1>5. \A t \in Steps : Completed(T, t) => T[t] = m[t]
  BY <1>1, <1>3
<1>6. WellFormed(T)
  BY <1>4, <1>5 DEF WellFormed, InOrder, ListsInScope
<1>7. NextStep(T, s)
  BY <1>3, <1>4 DEF NextStep
<1>8. ASSUME NEW n, Covers(m, n) PROVE Covers(T, n)
  <2> SUFFICES ASSUME NEW t \in Steps, Completed(n, t) PROVE T[t] = n[t]
    BY DEF Covers
  <2>1. m[t] = n[t] /\ Completed(m, t)
    BY <1>8 DEF Covers, Completed
  <2>. QED
    BY <2>1, <1>4, <1>5
<1>. QED
  BY <1>4, <1>5, <1>6, <1>7, <1>8

(* Completing it keeps the order, and lists only files in its scope.        *)
LEMMA CompletionWellFormed ==
  ASSUME RunTypeOK, CapturesInv, CompleteStep
  PROVE  WellFormed(mem') /\ Intact(mem)' /\ Covers(mem', ckpt)
<1> USE DEF CompleteStep
<1>1. WellFormed(mem) /\ Intact(mem) /\ Covers(mem, ckpt) /\ NextStep(mem, cur)
  BY DEF CapturesInv, WellFormed, Working
<1>2. mem \in CkptType /\ cur \in Steps /\ made \subseteq Owns[cur]
  BY DEF RunTypeOK, CopyTypeOK, CkptType
<1>3. \A t \in Steps : t # cur => mem'[t] = mem[t]
  BY <1>2 DEF CkptType
<1>4. mem'[cur] = [status |-> "completed", art |-> Described, drift |-> drift]
  BY <1>2 DEF CkptType
<1>5. Completed(mem', cur) /\ mem'[cur].art = Described
  BY <1>4 DEF Completed
<1>6. \A t \in Steps : t # cur => (Completed(mem', t) <=> Completed(mem, t))
  BY <1>3 DEF Completed
<1>7. InOrder(mem')
  <2> SUFFICES ASSUME NEW s \in Steps, NEW t \in Steps, t < s, Completed(mem', s)
               PROVE  Completed(mem', t)
    BY DEF InOrder
  <2>1. CASE s = cur
    <3>1. Completed(mem, t)
      BY <1>1, <2>1 DEF NextStep
    <3>. QED
      BY <3>1, <1>5, <1>6
  <2>2. CASE s # cur
    <3>1. Completed(mem, t)
      BY <1>1, <1>6, <2>2 DEF WellFormed, InOrder
    <3>. QED
      BY <3>1, <1>5, <1>6
  <2>. QED
    BY <2>1, <2>2
<1>8. \A a \in Artifacts : Described[a] # Absent => a \in Owns[cur] \cup Shared[cur]
                                                     /\ files[a] = Described[a]
  BY <1>2 DEF Described, Listed
<1>9. ListsInScope(mem')
  BY <1>1, <1>3, <1>5, <1>6, <1>8 DEF WellFormed, ListsInScope
<1>10. files' = files
  BY DEF copyVars
<1>11. Intact(mem)'
  <2> SUFFICES ASSUME NEW t \in Steps, Completed(mem', t),
                      NEW a \in Artifacts, mem'[t].art[a] # Absent
               PROVE  files[a] = mem'[t].art[a]
    BY <1>10 DEF Intact, Completed
  <2>1. CASE t = cur
    BY <2>1, <1>5, <1>8
  <2>2. CASE t # cur
    <3>1. Intact(mem) /\ mem'[t] = mem[t]
      BY <2>2, <1>1, <1>3, <1>6
    <3>. QED
      BY <3>1 DEF Intact, Completed
  <2>. QED
    BY <2>1, <2>2
<1>12. Covers(mem', ckpt)
  <2> SUFFICES ASSUME NEW t \in Steps, Completed(ckpt, t) PROVE mem'[t] = ckpt[t]
    BY DEF Covers
  <2>1. mem[t] = ckpt[t] /\ Completed(mem, t)
    BY <1>1 DEF Covers, Completed
  <2>. QED
    BY <2>1, <1>1, <1>3 DEF NextStep
<1>. QED
  BY <1>7, <1>9, <1>11, <1>12 DEF WellFormed

LEMMA CapturesInvNext ==
  ASSUME WellFormed(mem'), WellFormed(ckpt'),
         pc' = "down" => mem' = FreshSteps, pc' # "down" => Intact(mem)',
         Working' => Covers(mem', ckpt'), pc' = "run" => NextStep(mem', cur')
  PROVE  CapturesInv'
BY DEF CapturesInv, WellFormed, InOrder, ListsInScope, Covers, NextStep, Completed, FreshSteps

(* Every step keeps the inductive invariant.                                *)
LEMMA NextKeepsCaptures ==
  ASSUME RunTypeOK, CapturesInv, Next PROVE CapturesInv'
<1>a. mem \in CkptType /\ ckpt \in CkptType /\ cur \in Steps
  BY DEF RunTypeOK, CopyTypeOK, CkptType
<1>b. /\ WellFormed(mem) /\ WellFormed(ckpt)
      /\ pc = "down" => mem = FreshSteps
      /\ pc # "down" => Intact(mem)
      /\ Working => Covers(mem, ckpt)
      /\ pc = "run" => NextStep(mem, cur)
  BY DEF CapturesInv, WellFormed
<1>c. ASSUME mem' = mem, pc # "down" PROVE Intact(mem)'
  BY <1>c, FilesKept DEF Intact, Completed
<1>d. ASSUME NEW o, Ends(o), WellFormed(ckpt') PROVE CapturesInv'
  <2>1. WellFormed(mem') /\ pc' = "down" /\ mem' = FreshSteps /\ ~Working'
    BY <1>d, FreshStepsWellFormed DEF Ends, Working
  <2>. QED
    BY <1>d, <2>1, CapturesInvNext
<1>e. ASSUME mem' = mem, ckpt' = ckpt, Working, pc' # "down", pc' # "run" PROVE CapturesInv'
  BY <1>b, <1>c, <1>e, CapturesInvNext DEF Working
<1>1. CASE Start
  <2>1. Intact(mem)' /\ mem' = mem /\ ckpt' = ckpt /\ pc' = "create"
    BY <1>1, <1>b, FreshStepsWellFormed DEF Start, disk, Intact, Completed
  <2>. QED
    BY <2>1, <1>b, CapturesInvNext DEF Working
<1>2. CASE CreateCheckpoint
  <2>1. mem' = FreshSteps /\ ckpt' = FreshSteps /\ pc' = "steps"
    BY <1>2 DEF CreateCheckpoint
  <2>2. Intact(mem)'
    BY <2>1, FreshStepsWellFormed DEF Intact, Completed
  <2>. QED
    BY <2>1, <2>2, FreshStepsWellFormed, CapturesInvNext
<1>3. CASE CreateCheckpointFails \/ RecordCompletedFails \/ RecordFailedFails
           \/ FinalizeFails \/ Crash
           \/ \E s \in Steps : CleanInterruptedFails(s) \/ EnterStepFails(s)
  <2>1. ckpt' = ckpt /\ \E o : Ends(o)
    BY <1>3 DEF CreateCheckpointFails, RecordCompletedFails, RecordFailedFails, FinalizeFails,
       Crash, CleanInterruptedFails, EnterStepFails, disk
  <2>. QED
    BY <2>1, <1>b, <1>d
<1>4. CASE RecordFailed
  BY <1>4, <1>b, <1>d DEF RecordFailed
<1>5. CASE \E s \in Steps : CleanInterrupted(s)
  BY <1>5, <1>e DEF CleanInterrupted, disk, Working
<1>6. CASE \E s \in Steps : EnterStep(s)
  <2>1. PICK s \in Steps : EnterStep(s)
    BY <1>6
  <2>2. /\ NextStep(mem, s) /\ pc' = "run" /\ cur' = s /\ files' = files
        /\ mem' = Transition(mem, s, "in_progress") /\ ckpt' = mem'
        /\ pc \in {"steps", "enter"}
    BY <2>1 DEF EnterStep, Entering, environment
  <2>3. /\ WellFormed(mem') /\ NextStep(mem', s)
        /\ \A t \in Steps : Completed(mem', t) => Completed(mem, t) /\ mem'[t] = mem[t]
    BY <2>2, <1>a, <1>b, TransitionWellFormed DEF Statuses
  <2>4. Intact(mem)'
    BY <2>2, <2>3, <1>b DEF Intact, Completed
  <2>5. Covers(mem', ckpt')
    BY <2>2 DEF Covers
  <2>. QED
    BY <2>2, <2>3, <2>4, <2>5, CapturesInvNext
<1>7. CASE RunStep
  <2>1. UNCHANGED runVars /\ cur' = cur /\ pc = "run"
    BY <1>7, CopyStaysInScope DEF RunStep, RunTypeOK
  <2>. QED
    BY <2>1, <1>b, <1>c, CapturesInvNext DEF runVars, Working
<1>8. CASE CompleteStep
  <2>1. pc' = "record" /\ ckpt' = ckpt
    BY <1>8 DEF CompleteStep, disk
  <2>. QED
    BY <2>1, <1>8, <1>b, CompletionWellFormed, CapturesInvNext
<1>9. CASE CompleteStepFails \/ StepThrew
  <2>1. /\ pc = "run" /\ pc' = "caught" /\ files' = files /\ ckpt' = ckpt
        /\ mem' = Transition(mem, cur, "failed")
    BY <1>9 DEF CompleteStepFails, StepThrew, disk, copyVars
  <2>2. /\ WellFormed(mem') /\ Covers(mem', ckpt')
        /\ \A t \in Steps : Completed(mem', t) => Completed(mem, t) /\ mem'[t] = mem[t]
    BY <2>1, <1>a, <1>b, TransitionWellFormed DEF Statuses, Working
  <2>3. Intact(mem)'
    BY <2>1, <2>2, <1>b DEF Intact, Completed
  <2>. QED
    BY <2>1, <2>2, <2>3, <1>b, CapturesInvNext
<1>10. CASE RecordCompleted
  <2>1. mem' = mem /\ ckpt' = mem /\ pc = "record" /\ pc' = "steps"
    BY <1>10 DEF RecordCompleted
  <2>2. Covers(mem', ckpt')
    BY <2>1 DEF Covers
  <2>. QED
    BY <2>1, <2>2, <1>b, <1>c, CapturesInvNext
<1>11. CASE WriteCoverage \/ WriteIndex \/ WriteManifest \/ VerifyBundle
  BY <1>11, <1>e DEF WriteCoverage, WriteIndex, WriteManifest, VerifyBundle, disk, Working
<1>12. CASE Publish
  <2>1. mem' = mem /\ ckpt' = ckpt /\ pc = "publish" /\ pc' = "done"
    BY <1>12 DEF Publish
  <2>. QED
    BY <2>1, <1>b, <1>c, CapturesInvNext DEF Working
<1>13. CASE Resume
  <2>1. mem' = ckpt /\ ckpt' = ckpt /\ files' = files /\ Intact(ckpt) /\ pc' = "steps"
    BY <1>13 DEF Resume, disk, copyVars
  <2>2. Intact(mem)'
    BY <2>1 DEF Intact, Completed
  <2>3. Covers(mem', ckpt')
    BY <2>1 DEF Covers
  <2>. QED
    BY <2>1, <2>2, <2>3, <1>b, CapturesInvNext
<1>14. CASE ResumeRefused \/ Damage
  <2>1. mem' = mem /\ ckpt' = ckpt /\ pc = "down" /\ pc' = "down"
    BY <1>14 DEF ResumeRefused, Damage, disk, runVars
  <2>. QED
    BY <2>1, <1>b, CapturesInvNext DEF Working
<1>15. CASE SourceMoves \/ AbortRun \/ BranchGoesOn
  <2>1. UNCHANGED runVars /\ cur' = cur
    BY <1>15 DEF SourceMoves, AbortRun, BranchGoesOn, SourceChanges, Abort, LateBranch
  <2>. QED
    BY <2>1, <1>b, <1>c, CapturesInvNext DEF runVars, Working
<1>. QED
  BY <1>1, <1>2, <1>3, <1>4, <1>5, <1>6, <1>7, <1>8, <1>9, <1>10, <1>11, <1>12,
     <1>13, <1>14, <1>15
  DEF Next, Process

LEMMA InitCaptures == Init => CapturesInv
<1> SUFFICES ASSUME Init PROVE CapturesInv
  OBVIOUS
<1>1. mem = FreshSteps /\ ckpt = FreshSteps /\ pc = "down"
  BY DEF Init
<1>. QED
  BY <1>1, FreshStepsWellFormed DEF CapturesInv, WellFormed, Working

THEOREM CapturesInvariant == Spec => [](RunTypeOK /\ CapturesInv)
<1>1. RunTypeOK /\ CapturesInv /\ [Next]_vars => CapturesInv'
  <2>1. ASSUME CapturesInv, UNCHANGED vars PROVE CapturesInv'
    <3>1. Intact(mem) => Intact(mem)'
      BY <2>1 DEF vars, copyVars, runVars, Intact, Completed
    <3>. QED
      BY <2>1, <3>1, CapturesInvNext
      DEF vars, copyVars, runVars, CapturesInv, WellFormed, Working
  <2>. QED
    BY <2>1, NextKeepsCaptures
<1>. QED
  BY <1>1, InitCaptures, TypeCorrect, PTL DEF Spec

(* No retry, cleanup, resume or finalization touches what a completed step  *)
(* captured, and the checkpoint never claims more than the process believes *)
(* (coordinator.ts, executeBackup).                                         *)
THEOREM CapturesStayIntact == Spec => []CapturesIntact
<1>1. CapturesInv => CapturesIntact
  BY DEF CapturesInv, CapturesIntact, Working, Covers
<1>. QED
  BY <1>1, CapturesInvariant, PTL

(* Only damage between processes makes a usable checkpoint unusable         *)
(* (loadBackupCheckpoint).                                                  *)
THEOREM ResumeStaysPossible == Spec => OnlyDamageBreaksResume
<1>1. ASSUME RunTypeOK, CapturesInv, [Next]_vars, Intact(ckpt), pc # "down"
      PROVE  Intact(ckpt)'
  <2>1. CASE UNCHANGED vars
    BY <2>1, <1>1 DEF vars, copyVars, runVars, Intact, Completed
  <2>2. CASE Next /\ Working
    <3>1. Covers(mem, ckpt')
      BY <2>2, <1>1, CheckpointFollows
    <3>2. \A t \in Steps : Completed(mem, t) =>
             \A a \in Artifacts : mem[t].art[a] # Absent => files'[a] = mem[t].art[a]
      BY <2>2, <1>1, FilesKept
    <3>. QED
      BY <3>1, <3>2 DEF Covers, Intact, Completed
  <2>3. CASE Next /\ pc = "create"
    <3>1. \/ CreateCheckpoint \/ CreateCheckpointFails \/ Crash \/ SourceMoves \/ AbortRun
          \/ BranchGoesOn
      BY <2>3 DEF Next, Process, Start, CleanInterrupted, CleanInterruptedFails, EnterStep,
         EnterStepFails, Entering, RunStep, CompleteStep, CompleteStepFails, RecordCompleted,
         RecordCompletedFails, StepThrew, RecordFailed, RecordFailedFails, WriteCoverage,
         WriteIndex, WriteManifest, VerifyBundle, FinalizeFails, Publish, Resume,
         ResumeRefused, Damage
    <3>2. /\ ckpt' = ckpt \/ ckpt' = FreshSteps
          /\ \A a \in Artifacts : files[a] # Absent => files'[a] = files[a]
      BY <3>1, <1>1 DEF CreateCheckpoint, CreateCheckpointFails, Crash, SourceMoves, AbortRun,
         BranchGoesOn, SourceChanges, Abort, LateBranch, copyVars, runVars, disk,
         RunTypeOK, CopyTypeOK
    <3>. QED
      BY <3>2, <1>1, FreshStepsWellFormed DEF Intact, Completed
  <2>4. CASE Next /\ pc = "done"
    <3>1. SourceMoves \/ BranchGoesOn
      BY <2>4 DEF Next, Process, Start, CreateCheckpoint, CreateCheckpointFails,
         CleanInterrupted, CleanInterruptedFails, EnterStep,
         EnterStepFails, Entering, RunStep, CompleteStep, CompleteStepFails, RecordCompleted,
         RecordCompletedFails, StepThrew, RecordFailed, RecordFailedFails, WriteCoverage,
         WriteIndex, WriteManifest, VerifyBundle, FinalizeFails, Publish, Resume,
         ResumeRefused, Crash, Damage, AbortRun
    <3>2. BranchGoesOn
      BY <2>4, <3>1 DEF SourceMoves
    <3>3. /\ ckpt' = ckpt
          /\ \A a \in Artifacts : files[a] # Absent => files'[a] = files[a]
      BY <3>2, <1>1 DEF BranchGoesOn, LateBranch, runVars, RunTypeOK, CopyTypeOK
    <3>. QED
      BY <3>3, <1>1 DEF Intact, Completed
  <2>. QED
    BY <1>1, <2>1, <2>2, <2>3, <2>4 DEF Working
<1>2. RunTypeOK /\ CapturesInv /\ [Next]_vars =>
        [hasCkpt /\ Intact(ckpt) /\ ~Intact(ckpt)' => pc = "down"]_vars
  BY <1>1
<1>. QED
  BY <1>2, CapturesInvariant, PTL DEF Spec, OnlyDamageBreaksResume
-----------------------------------------------------------------------------
\* The sealed bundle: the copies on the way to it.

Tidy == cur \in PartialCleanup
InStep == pc \in {"run", "record", "caught"}

(* Inside a step the copy protocol keeps its invariant; the checkpoint file *)
(* says in_progress; outside of a step no copy is under way.                *)
StepInv ==
  /\ CopyInv(Tidy)
  /\ ~InStep => cp = "idle"
  /\ pc = "record" => cp = "returned"
  /\ InStep => ckpt[cur].status = "in_progress"
  /\ pc \in {"run", "caught"} => mem[cur].status \in {"in_progress", "failed"}

(* Every file is in the scope of a step; the scope of a step that has not   *)
(* begun is empty, that of a completed one holds what it lists: but for     *)
(* strays, and if the step is one of those with a cleanupPartial, C.        *)
Owned(a) == \E s \in Steps : a \in Owns[s]
Vacant(s, F, X) == \A a \in Owns[s] : F[a] = Absent \/ a \in X
InPlace(m, C, F, X) ==
  \A s \in C :
    /\ m[s].status = "pending" => Vacant(s, F, X)
    /\ Completed(m, s) =>
         \A a \in Owns[s] : F[a] # Absent => m[s].art[a] # Absent \/ a \in X
ListsMandatory(m) ==
  \A s \in Steps : Completed(m, s) =>
    \A a \in Owns[s] \cap Mandatory : m[s].art[a] # Absent
Untouched == (pc = "down" /\ outcome = "none") \/ pc = "create"

ScopeInv ==
  /\ \A a \in Artifacts : files[a] # Absent \/ a \in late => Owned(a)
  /\ InPlace(ckpt, PartialCleanup, files, stray)
  /\ pc # "down" => InPlace(mem, PartialCleanup, files, stray)
  /\ ListsMandatory(ckpt) /\ ListsMandatory(mem)
  /\ pc = "enter" => \A s \in PartialCleanup : NextStep(mem, s) => Vacant(s, files, stray)
  /\ Untouched => ~hasCkpt /\ late = {} /\ \A a \in Artifacts : files[a] = Absent

(* What a completed step captured without reporting drift is one version of *)
(* each surface.                                                            *)
HoldsOneVersion(art, s) ==
  \A a, b \in Owns[s] :
    Surface[a] = Surface[b] /\ Absent \notin {art[a], art[b]} => art[a] = art[b]
Honest(m, mode, A) ==
  \A s \in A :
    Completed(m, s) /\ (mode # "best-effort" \/ ~m[s].drift) => HoldsOneVersion(m[s].art, s)

SealInv ==
  /\ Honest(mem, Mode, Adapted) /\ Honest(ckpt, Mode, Adapted)
  /\ pc \in {"index", "manifest", "verify", "publish", "done"} => AllCompleted(mem)
  /\ pc \in {"verify", "publish", "done"} =>
       sealed /\ \A s \in Steps : manifest.art[s] = mem[s].art
  /\ pc \in {"publish", "done"} /\ stray = {} => Verifies
  /\ LabelIsHonest

BundleInv == RunTypeOK /\ CapturesInv /\ StepInv /\ ScopeInv /\ SealInv

-----------------------------------------------------------------------------

LEMMA TidyIsAdapted ==
  RunTypeOK => PartialCleanup \subseteq Adapted /\ PartialCleanup \subseteq Steps
               /\ Adapted \subseteq Steps
BY CopyAssumption DEF RunTypeOK, CopyTypeOK

(* A process that ends has no copy under way.                               *)
LEMMA EndsKeepsStep ==
  ASSUME RunTypeOK, NEW o, Ends(o), UNCHANGED <<config, src>>
  PROVE  StepInv'
<1>1. /\ pc' = "down" /\ cp' = "idle" /\ exc' = "none" /\ attempt' = 1
      /\ before' = [s \in Steps |-> 1]
  BY DEF Ends
<1>2. \A s \in Steps : before'[s] <= src'[s]
  BY <1>1, CopyAssumption DEF RunTypeOK, CopyTypeOK
<1>3. CopyInv(Tidy)'
  BY <1>1, <1>2 DEF CopyInv, MadeIsOneVersion, NothingLeftBehind, RetryBound
<1>. QED
  BY <1>1, <1>3 DEF StepInv, InStep

(* Nor does a step outside the copies disturb the invariant, as long as it  *)
(* stays outside.                                                           *)
LEMMA IdleKeepsStep ==
  ASSUME StepInv, cp = "idle", UNCHANGED <<config, src, copyControl>>, ~InStep'
  PROVE  StepInv'
<1>1. CopyInv(Tidy)'
  BY DEF StepInv, CopyInv, copyControl, Tidy, MadeIsOneVersion, NothingLeftBehind, RetryBound
<1>. QED
  BY <1>1 DEF StepInv, copyControl, InStep

(* Inside a step, what the copy does.                                       *)
LEMMA RunKeepsStep ==
  ASSUME RunTypeOK, CapturesInv, StepInv, RunStep
  PROVE  StepInv'
<1> USE CopyAssumption
<1>1. pc = "run" /\ UNCHANGED <<pc, mem, ckpt, cur, config>> /\ cur \in Steps
  BY CopyStaysInScope DEF RunStep, runVars, RunTypeOK, CopyTypeOK, SourceChanges, Copying,
     BareStepReturns, BareStepFails, SnapshotBefore, SnapshotBeforeFails, WriteArtifact,
     CopyDone, CopyFails, CleanPartial, CleanPartialFails, NoPartialCleanup, Compare,
     CompareFails, CleanCopy, CleanCopyFails, environment
<1>2. Tidy \in BOOLEAN /\ Tidy' = Tidy /\ (cur \in PartialCleanup => Tidy)
  BY <1>1 DEF Tidy
<1>3. CopyTypeOK /\ CopyInv(Tidy)
  BY DEF RunTypeOK, StepInv
<1>4. ASSUME Copying PROVE CopyInv(Tidy)'
  <2>1. ASSUME NEW t \in BOOLEAN, t = Tidy PROVE CopyInv(t)'
    BY <1>2, <1>3, <1>4, <2>1, CopyingKeepsInv
  <2>. QED
    BY <1>2, <2>1
<1>5. CASE Copying \/ \E a \in Artifacts : WriteArtifact(a)
  <2>1. CopyInv(Tidy)'
    BY <1>4, <1>5 DEF Copying
  <2>. QED
    BY <1>1, <2>1 DEF StepInv, InStep
<1>6. CASE cur \notin Adapted /\ (BareStepReturns \/ BareStepFails)
  <2>1. cur \notin Adapted /\ cur \notin PartialCleanup /\ ~Tidy /\ cp = "copying"
    BY <1>6, TidyIsAdapted DEF Tidy, BareStepReturns, BareStepFails, CopyError
  <2>2. /\ UNCHANGED <<src, files, before, drift, attempt, made, plan>>
        /\ \/ cp' = "returned" /\ plan = {} /\ exc' = exc
           \/ cp' = "threw" /\ exc' = "error"
    BY <1>6 DEF BareStepReturns, BareStepFails, environment, workspace
  <2>3. CopyInv(Tidy)'
    <3>1. MadeIsOneVersion' /\ NothingLeftBehind' /\ RetryBound'
      BY <1>1, <1>3, <2>1, <2>2
      DEF CopyInv, MadeIsOneVersion, NothingLeftBehind, RetryBound
    <3>2. MadeIsRecent'
      BY <1>1, <1>3, <2>1, <2>2 DEF CopyInv, MadeIsRecent
    <3>. QED
      BY <1>1, <1>2, <1>3, <2>1, <2>2, <3>1, <3>2 DEF CopyInv
  <2>. QED
    BY <1>1, <2>3 DEF StepInv, InStep
<1>. QED
  BY <1>5, <1>6 DEF RunStep

(* What happens beside a copy leaves the invariant of the copy.             *)
LEMMA BesideKeepsStep ==
  ASSUME RunTypeOK, StepInv, SourceMoves \/ AbortRun \/ BranchGoesOn
  PROVE  StepInv'
<1>1. UNCHANGED <<pc, mem, ckpt, cur, cp, config>>
  BY DEF SourceMoves, AbortRun, BranchGoesOn, SourceChanges, Abort, LateBranch, runVars
<1>2. Tidy \in BOOLEAN /\ Tidy' = Tidy /\ CopyTypeOK /\ CopyInv(Tidy)
  BY <1>1 DEF Tidy, StepInv, RunTypeOK
<1>3. ASSUME NEW t \in BOOLEAN, t = Tidy PROVE CopyInv(t)'
  BY <1>2, <1>3, WorldKeepsInv, LateBranchKeepsInv DEF SourceMoves, AbortRun, BranchGoesOn
<1>. QED
  BY <1>1, <1>2, <1>3 DEF StepInv, InStep

(* A step begins with the scope it needs.                                   *)
LEMMA EnterKeepsStep ==
  ASSUME RunTypeOK, StepInv, ScopeInv, NEW s \in Steps, EnterStep(s)
  PROVE  StepInv'
<1> USE CopyAssumption
<1>1. /\ pc' = "run" /\ cur' = s /\ attempt' = 1 /\ drift' = FALSE /\ made' = {}
      /\ UNCHANGED <<config, src, files, stray, before, exc>>
      /\ mem' = Transition(mem, s, "in_progress") /\ ckpt' = mem'
      /\ NextStep(mem, s) /\ pc \in {"steps", "enter"} /\ cp = "idle"
      /\ pc = "steps" => ~NeedsCleanup(s)
  BY DEF EnterStep, Entering, environment, workspace, StepInv, InStep
<1>2. mem'[s].status = "in_progress"
  BY <1>1 DEF RunTypeOK, Transition, StepRecord
<1>3. ASSUME s \in PartialCleanup PROVE Vacant(s, files, stray)
  <2>1. CASE pc = "enter"
    BY <1>1, <1>3, <2>1 DEF ScopeInv
  <2>2. CASE pc = "steps"
    <3>1. mem[s].status = "pending"
      BY <1>1, <1>3, <2>2 DEF NeedsCleanup
    <3>. QED
      BY <1>3, <2>2, <3>1 DEF ScopeInv, InPlace
  <2>. QED
    BY <1>1, <2>1, <2>2
<1>4. \A t \in Steps : before'[t] <= src'[t]
  BY <1>1 DEF StepInv, CopyInv
<1>5. exc' \notin {"unstable", "quiesced_changed"}
  BY <1>1 DEF StepInv, CopyInv
<1>6. MadeIsRecent' /\ RetryBound'
  BY <1>1, <1>5 DEF MadeIsRecent, RetryBound
<1>7. Tidy' => Bare' /\ NothingElse'
  BY <1>1, <1>3 DEF Tidy, Bare, NothingElse, Vacant
<1>8. cp' = "snapshot" \/ (cp' = "copying" /\ Owns[s] \cap Mandatory \subseteq plan')
  <2>1. (cp' = "snapshot" /\ plan' = {}) \/ (cp' = "copying" /\ plan' \in CopyPlans(s))
    BY DEF EnterStep
  <2>. QED
    BY <2>1 DEF CopyPlans
<1>9. MadeIsOneVersion' /\ NothingLeftBehind'
  BY <1>8 DEF MadeIsOneVersion, NothingLeftBehind
<1>10. CopyInv(Tidy)'
  BY <1>1, <1>4, <1>5, <1>6, <1>7, <1>8, <1>9 DEF CopyInv
<1>. QED
  BY <1>1, <1>2, <1>10 DEF StepInv, InStep

LEMMA NextKeepsStep ==
  ASSUME RunTypeOK, CapturesInv, StepInv, ScopeInv, Next PROVE StepInv'
<1>1. CASE CreateCheckpointFails \/ RecordCompletedFails \/ RecordFailed
           \/ RecordFailedFails \/ FinalizeFails \/ Crash
           \/ \E s \in Steps : CleanInterruptedFails(s) \/ EnterStepFails(s)
  <2>1. (\E o : Ends(o)) /\ UNCHANGED <<config, src>>
    BY <1>1 DEF CreateCheckpointFails, RecordCompletedFails, RecordFailed, RecordFailedFails,
       FinalizeFails, Crash, CleanInterruptedFails, EnterStepFails
  <2>. QED
    BY <2>1, EndsKeepsStep
<1>2. CASE Start \/ CreateCheckpoint \/ Resume \/ ResumeRefused \/ Damage
           \/ \E s \in Steps : CleanInterrupted(s)
  <2>1. /\ UNCHANGED <<config, src, copyControl>> /\ ~InStep /\ ~InStep'
    BY <1>2 DEF Start, CreateCheckpoint, Resume, ResumeRefused, Damage, CleanInterrupted,
       gone, copyVars, copyControl, InStep, runVars
  <2>. QED
    BY <2>1, IdleKeepsStep DEF StepInv
<1>3. CASE WriteCoverage \/ WriteIndex \/ WriteManifest \/ VerifyBundle \/ Publish
  <2>1. /\ UNCHANGED <<config, src, copyControl>> /\ ~InStep /\ ~InStep'
    BY <1>3 DEF WriteCoverage, WriteIndex, WriteManifest, VerifyBundle, Publish,
       copyVars, copyControl, InStep
  <2>. QED
    BY <2>1, IdleKeepsStep DEF StepInv
<1>4. CASE \E s \in Steps : EnterStep(s)
  BY <1>4, EnterKeepsStep
<1>5. CASE RunStep
  BY <1>5, RunKeepsStep
<1>6. CASE CompleteStep \/ CompleteStepFails \/ StepThrew
  <2>1. /\ pc = "run" /\ UNCHANGED <<config, src, files, stray, copyControl, ckpt>>
        /\ \/ pc' = "record" /\ cp = "returned"
           \/ pc' = "caught" /\ mem' = Transition(mem, cur, "failed")
    BY <1>6 DEF CompleteStep, CompleteStepFails, StepThrew, copyVars, copyControl,
       workspace, disk
  <2>2. cur \in Steps /\ mem \in [Steps -> StepRecord] /\ UNCHANGED copyControl
    BY <2>1 DEF RunTypeOK, CopyTypeOK
  <2>3. pc' = "caught" => mem'[cur].status = "failed"
    BY <2>1, <2>2 DEF Transition, StepRecord
  <2>4. CopyInv(Tidy)'
    BY <2>1 DEF StepInv, CopyInv, copyControl, Tidy, MadeIsOneVersion, NothingLeftBehind,
       RetryBound, Bare, NothingElse, MadeIsRecent
  <2>. QED
    BY <2>1, <2>3, <2>4 DEF StepInv, copyControl, InStep
<1>7. CASE RecordCompleted
  <2>1. /\ pc' = "steps" /\ cp' = "idle" /\ cp = "returned"
        /\ UNCHANGED <<config, src, files, stray, cur, attempt, before, drift, plan, made, exc>>
    BY <1>7 DEF RecordCompleted, environment, workspace, StepInv
  <2>2. CopyInv(Tidy)'
    BY <2>1 DEF StepInv, CopyInv, MadeIsOneVersion, NothingLeftBehind, RetryBound
  <2>. QED
    BY <2>1, <2>2 DEF StepInv, InStep
<1>8. CASE SourceMoves \/ AbortRun \/ BranchGoesOn
  BY <1>8, BesideKeepsStep
<1>. QED
  BY <1>1, <1>2, <1>3, <1>4, <1>5, <1>6, <1>7, <1>8 DEF Next, Process

-----------------------------------------------------------------------------
\* The sealed bundle: what lies in the scopes.

Kept(a, F, X, G, Y) ==
  G[a] = Absent \/ a \in Y \/ (G[a] = F[a] /\ (a \in X => a \in Y))

(* Removing files, putting strays there and leaving the rest as it is are   *)
(* harmless, and so is anything in the scope of a step under way.           *)
LEMMA PlaceKept ==
  ASSUME NEW m, NEW C \in SUBSET Steps, NEW F, NEW X, NEW G, NEW Y, InPlace(m, C, F, X),
         \A s \in C : m[s].status \in {"pending", "completed"} =>
           \A a \in Owns[s] : Kept(a, F, X, G, Y)
  PROVE  InPlace(m, C, G, Y)
BY DEF InPlace, Vacant, Completed, Kept

LEMMA ScopeInvNext ==
  ASSUME RunTypeOK, ScopeInv, config' = config,
         \A a \in Artifacts : files'[a] # Absent \/ a \in late' => Owned(a),
         InPlace(ckpt', PartialCleanup, files', stray'),
         pc' # "down" => InPlace(mem', PartialCleanup, files', stray'),
         ListsMandatory(ckpt'), ListsMandatory(mem'),
         pc' = "enter" => \A s \in PartialCleanup : NextStep(mem', s) => Vacant(s, files', stray'),
         Untouched' => ~hasCkpt' /\ late' = {} /\ \A a \in Artifacts : files'[a] = Absent
  PROVE  ScopeInv'
BY DEF ScopeInv, InPlace, Vacant, ListsMandatory, NextStep, Completed, Owned

(* A step that keeps what mem and ckpt say, and is harmless to the files.   *)
LEMMA HarmlessKeepsScope ==
  ASSUME RunTypeOK, ScopeInv, config' = config,
         \A a \in Artifacts : Kept(a, files, stray, files', stray'),
         \A a \in Artifacts : files'[a] # Absent \/ a \in late' => Owned(a),
         ckpt' \in {ckpt, mem}, pc = "down" => ckpt' = ckpt,
         \/ pc' = "down" /\ mem' = FreshSteps
         \/ mem' = mem /\ pc # "down" /\ pc' # "down" /\ (pc' = "enter" => pc = "enter"),
         Untouched' => Untouched /\ UNCHANGED <<hasCkpt, late, files>>
  PROVE  ScopeInv'
<1>1. PartialCleanup \in SUBSET Steps /\ \A s \in Steps : Owns[s] \subseteq Artifacts
  BY TidyIsAdapted, CopyAssumption
<1>2. ASSUME NEW m, InPlace(m, PartialCleanup, files, stray)
      PROVE  InPlace(m, PartialCleanup, files', stray')
  BY <1>1, <1>2, PlaceKept
<1>3. ListsMandatory(FreshSteps)
  BY FreshStepsWellFormed DEF ListsMandatory
<1>4. \A s \in PartialCleanup : Vacant(s, files, stray) => Vacant(s, files', stray')
  BY <1>1 DEF Vacant, Kept
<1>5. InPlace(ckpt', PartialCleanup, files', stray') /\ ListsMandatory(ckpt')
  BY <1>2 DEF ScopeInv
<1>6. /\ pc' # "down" => InPlace(mem', PartialCleanup, files', stray')
      /\ ListsMandatory(mem')
  BY <1>2, <1>3 DEF ScopeInv
<1>7. pc' = "enter" => \A s \in PartialCleanup : NextStep(mem', s) => Vacant(s, files', stray')
  BY <1>4 DEF ScopeInv
<1>8. Untouched' => ~hasCkpt' /\ late' = {} /\ \A a \in Artifacts : files'[a] = Absent
  BY DEF ScopeInv, Untouched
<1>. QED
  BY <1>5, <1>6, <1>7, <1>8, ScopeInvNext

LEMMA RemoveIsHarmless ==
  ASSUME CopyTypeOK, NEW R, Remove(R)
  PROVE  /\ \A a \in Artifacts : Kept(a, files, stray, files', stray')
         /\ \A a \in Artifacts : files'[a] # Absent => files[a] # Absent
BY DEF Remove, Without, Kept, CopyTypeOK

LEMMA LateBranchIsHarmless ==
  ASSUME CopyTypeOK, LateBranch
  PROVE  /\ \A a \in Artifacts : Kept(a, files, stray, files', stray')
         /\ \A a \in Artifacts : files'[a] # Absent \/ a \in late' => files[a] # Absent \/ a \in late
<1>1. CASE \E W \in SUBSET late : W # late /\ late' = W /\ UNCHANGED workspace
  BY <1>1 DEF workspace, Kept
<1>2. CASE \E a \in late : /\ files[a] = Absent
                           /\ files' = [files EXCEPT ![a] = src[Surface[a]]]
                           /\ stray' = stray \cup {a} /\ late' = late \ {a}
  BY <1>2 DEF Kept, CopyTypeOK
<1>. QED
  BY <1>1, <1>2 DEF LateBranch

LEMMA AbsentIsPlaced ==
  ASSUME NEW m, NEW C \in SUBSET Steps, NEW F, NEW X, \A a \in Artifacts : F[a] = Absent
  PROVE  InPlace(m, C, F, X)
BY CopyAssumption DEF InPlace, Vacant

(* A step under way asks nothing of its scope.                              *)
LEMMA TransitionPlaced ==
  ASSUME NEW m \in CkptType, NEW s \in Steps, NEW st \in {"in_progress", "failed"},
         ~Completed(m, s), NEW C \in SUBSET Steps, NEW F, NEW X,
         InPlace(m, C, F, X), ListsMandatory(m)
  PROVE  InPlace(Transition(m, s, st), C, F, X) /\ ListsMandatory(Transition(m, s, st))
<1>1. \A t \in Steps : t # s => Transition(m, s, st)[t] = m[t]
  BY DEF Transition, CkptType
<1>2. Transition(m, s, st)[s].status = st
  BY DEF Transition, CkptType, StepRecord
<1>. QED
  BY <1>1, <1>2 DEF InPlace, ListsMandatory, Completed

LEMMA OneNextStep ==
  ASSUME NEW m, NEW s \in Steps, NEW t \in Steps, NextStep(m, s), NextStep(m, t)
  PROVE  s = t
BY CopyAssumption DEF NextStep, Steps

(* A step of the copy stays in its scope, strays included, and leaves late  *)
(* branches in it.                                                          *)
LEMMA CopyKeepsStrays ==
  ASSUME CopyTypeOK, RunStep
  PROVE  /\ config' = config
         /\ \A a \in Artifacts \ Owns[cur] : files'[a] = files[a] /\ (a \in stray => a \in stray')
         /\ late' \subseteq late \cup Owns[cur]
<1>1. made \subseteq Owns[cur] /\ plan \subseteq Owns[cur]
  BY DEF CopyTypeOK
<1>2. CASE CleanPartial \/ CleanPartialFails \/ CleanCopy \/ CleanCopyFails
  <2>1. /\ \E R \in SUBSET Owns[cur] : Remove(R)
        /\ UNCHANGED <<config, late>>
    BY <1>1, <1>2 DEF CleanPartial, CleanPartialFails, CleanCopy, CleanCopyFails, Scope
  <2>. QED
    BY <2>1 DEF Remove, Without
<1>3. CASE (\E b \in Artifacts : WriteArtifact(b)) \/ CopyFails \/ BareStepFails
  <2>1. UNCHANGED <<config, stray>> /\ late' \subseteq late \cup Owns[cur]
    BY <1>1, <1>3 DEF WriteArtifact, CopyFails, BareStepFails, LeaveBranches, workspace
  <2>. QED
    BY <2>1, CopyStaysInScope
<1>4. CASE SnapshotBefore \/ SnapshotBeforeFails \/ CopyDone
           \/ NoPartialCleanup \/ Compare \/ CompareFails \/ BareStepReturns
  <2>1. UNCHANGED <<config, stray, late>>
    BY <1>4 DEF SnapshotBefore, SnapshotBeforeFails, CopyDone,
       NoPartialCleanup, Compare, CompareFails, BareStepReturns, environment, workspace
  <2>. QED
    BY <2>1, CopyStaysInScope
<1>. QED
  BY <1>2, <1>3, <1>4 DEF RunStep, Copying

LEMMA RunKeepsScope ==
  ASSUME RunTypeOK, CapturesInv, StepInv, ScopeInv, RunStep
  PROVE  ScopeInv'
<1>1. /\ pc = "run" /\ UNCHANGED <<pc, mem, ckpt, cur>> /\ cur \in Steps /\ config' = config
      /\ PartialCleanup \in SUBSET Steps
  BY CopyStaysInScope, CopyKeepsStrays, TidyIsAdapted DEF RunStep, runVars, RunTypeOK, CopyTypeOK
<1>2. \A a \in Artifacts \ Owns[cur] : Kept(a, files, stray, files', stray')
  BY CopyKeepsStrays DEF Kept, RunTypeOK
<1>3. \A s \in Steps \ {cur} : Owns[s] \subseteq Artifacts \ Owns[cur]
  BY <1>1, CopyAssumption
<1>4. \A a \in Artifacts : files'[a] # Absent \/ a \in late' => Owned(a)
  BY <1>1, CopyStaysInScope, CopyKeepsStrays DEF RunTypeOK, ScopeInv, Owned
<1>5. ASSUME NEW m, InPlace(m, PartialCleanup, files, stray),
             m[cur].status \in {"in_progress", "failed"}
      PROVE  InPlace(m, PartialCleanup, files', stray')
  BY <1>1, <1>2, <1>3, <1>5, PlaceKept
<1>6. ckpt[cur].status = "in_progress" /\ mem[cur].status \in {"in_progress", "failed"}
  BY <1>1 DEF StepInv, InStep
<1>7. /\ InPlace(ckpt, PartialCleanup, files', stray')
      /\ InPlace(mem, PartialCleanup, files', stray')
      /\ ListsMandatory(ckpt) /\ ListsMandatory(mem)
  BY <1>1, <1>5, <1>6 DEF ScopeInv
<1>. QED
  BY <1>1, <1>4, <1>7, ScopeInvNext DEF Untouched

(* What completing a step records of the files in its scope.                *)
LEMMA CompletionRecords ==
  ASSUME RunTypeOK, StepInv, CompleteStep
  PROVE  /\ cur \in Steps /\ UNCHANGED <<config, src, files, stray, late, ckpt, hasCkpt, cur>>
         /\ \A t \in Steps : t # cur => mem'[t] = mem[t]
         /\ mem'[cur].status = "completed" /\ mem'[cur].art = Described
         /\ mem'[cur].drift = drift
         /\ plan = {} /\ made \subseteq Owns[cur]
         /\ \A a \in Owns[cur] : IF a \in made THEN Described[a] = files[a] /\ files[a] # Absent
                                               ELSE Described[a] = Absent
<1> USE CopyAssumption
<1>1. /\ cur \in Steps /\ UNCHANGED <<config, src, files, stray, late, ckpt, hasCkpt, cur>>
      /\ made \subseteq Owns[cur] /\ plan = {}
      /\ \A a \in Listed : files[a] # Absent
  BY DEF CompleteStep, copyVars, disk, RunTypeOK, CopyTypeOK, StepInv, CopyInv
<1>2. mem'[cur] = [status |-> "completed", art |-> Described, drift |-> drift]
      /\ \A t \in Steps : t # cur => mem'[t] = mem[t]
  BY <1>1 DEF CompleteStep, RunTypeOK
<1>3. \A a \in Owns[cur] : a \in Listed <=> a \in made
  BY <1>1, BackupAssumption DEF Listed, Steps
<1>4. \A a \in Owns[cur] : IF a \in made THEN Described[a] = files[a] /\ files[a] # Absent
                                         ELSE Described[a] = Absent
  BY <1>1, <1>3 DEF Described
<1>. QED
  BY <1>1, <1>2, <1>4

LEMMA CompletionKeepsScope ==
  ASSUME RunTypeOK, StepInv, ScopeInv, CompleteStep
  PROVE  ScopeInv'
<1>1. /\ cur \in Steps /\ UNCHANGED <<config, files, stray, late, ckpt, hasCkpt>>
      /\ PartialCleanup \in SUBSET Steps /\ pc = "run" /\ pc' = "record" /\ cp = "returned"
  BY CompletionRecords, TidyIsAdapted DEF CompleteStep
<1>2. ASSUME cur \in PartialCleanup, NEW a \in Owns[cur], files[a] # Absent
      PROVE  mem'[cur].art[a] # Absent \/ a \in stray
  <2>1. a \in made \/ a \in stray
    BY <1>1, <1>2 DEF StepInv, CopyInv, Tidy, NothingElse
  <2>. QED
    BY <2>1, <1>2, CompletionRecords
<1>3. InPlace(mem', PartialCleanup, files', stray')
  <2>1. mem'[cur].status # "pending"
    BY CompletionRecords
  <2>. QED
    BY <1>1, <1>2, <2>1, CompletionRecords DEF ScopeInv, InPlace, Completed
<1>4. \A a \in Owns[cur] \cap Mandatory : a \in made
  BY <1>1, CompletionRecords DEF StepInv, CopyInv
<1>5. ListsMandatory(mem')
  <2>1. \A a \in Owns[cur] \cap Mandatory : mem'[cur].art[a] # Absent
    BY <1>4, CompletionRecords
  <2>. QED
    BY <1>1, <2>1, CompletionRecords DEF ScopeInv, ListsMandatory, Completed
<1>6. \A a \in Artifacts : files'[a] # Absent \/ a \in late' => Owned(a)
  BY <1>1 DEF ScopeInv
<1>7. InPlace(ckpt', PartialCleanup, files', stray') /\ ListsMandatory(ckpt')
  BY <1>1 DEF ScopeInv
<1>. QED
  BY <1>1, <1>3, <1>5, <1>6, <1>7, ScopeInvNext DEF Untouched

(* Damage hits files the checkpoint lists, in the scopes of completed steps.*)
LEMMA DamageKeepsScope ==
  ASSUME RunTypeOK, CapturesInv, ScopeInv, Damage
  PROVE  ScopeInv'
<1> USE CopyAssumption
<1>1. PICK s \in Steps, b \in Artifacts, v \in Contents :
        /\ Completed(ckpt, s) /\ ckpt[s].art[b] # Absent
        /\ files' = [files EXCEPT ![b] = v]
  BY DEF Damage
<1>2. /\ UNCHANGED <<config, stray, late, pc, mem, ckpt, hasCkpt, outcome>>
      /\ pc = "down" /\ hasCkpt /\ PartialCleanup \in SUBSET Steps
  BY TidyIsAdapted DEF Damage, gone, runVars
<1>3. PICK t \in Steps : b \in Owns[t] /\ Completed(ckpt, t) /\ ckpt[t].art[b] # Absent
  <2>1. CASE b \in Owns[s]
    BY <1>1, <2>1
  <2>2. CASE b \notin Owns[s]
    <3>1. b \in Shared[s]
      BY <1>1, <2>2 DEF CapturesInv, ListsInScope
    <3>2. PICK t \in Steps : t < s /\ b \in Owns[t]
      BY <3>1, BackupAssumption
    <3>3. Completed(ckpt, t)
      BY <1>1, <3>2 DEF CapturesInv, InOrder
    <3>4. ckpt[t].art[b] # Absent
      BY <3>1, <3>2, <3>3, BackupAssumption DEF ScopeInv, ListsMandatory
    <3>. QED
      BY <3>2, <3>3, <3>4
  <2>. QED
    BY <2>1, <2>2
<1>4. \A a \in Artifacts : a # b => files'[a] = files[a]
  BY <1>1 DEF RunTypeOK, CopyTypeOK
<1>5. InPlace(ckpt, PartialCleanup, files', stray')
  <2> SUFFICES ASSUME NEW u \in PartialCleanup
               PROVE  /\ ckpt[u].status = "pending" => Vacant(u, files', stray')
                      /\ Completed(ckpt, u) => \A a \in Owns[u] :
                           files'[a] # Absent => ckpt[u].art[a] # Absent \/ a \in stray'
    BY DEF InPlace
  <2>1. CASE u = t
    BY <1>2, <1>3, <1>4, <2>1 DEF ScopeInv, InPlace, Completed
  <2>2. CASE u # t
    BY <1>2, <1>3, <1>4, <2>2 DEF ScopeInv, InPlace, Vacant
  <2>. QED
    BY <2>1, <2>2
<1>6. \A a \in Artifacts : files'[a] # Absent \/ a \in late' => Owned(a)
  BY <1>2, <1>3, <1>4 DEF ScopeInv, Owned
<1>7. ~Untouched'
  BY <1>2 DEF ScopeInv, Untouched
<1>. QED
  BY <1>2, <1>5, <1>6, <1>7, ScopeInvNext DEF ScopeInv

LEMMA NextKeepsScope ==
  ASSUME RunTypeOK, CapturesInv, StepInv, ScopeInv, Next PROVE ScopeInv'
<1>a. /\ CopyTypeOK /\ PartialCleanup \in SUBSET Steps /\ cur \in Steps
      /\ mem \in CkptType
      /\ pc = "down" => mem = FreshSteps
  BY TidyIsAdapted DEF RunTypeOK, CopyTypeOK, CkptType, CapturesInv
<1>b. ASSUME UNCHANGED <<files, stray>> \/ \E R : Remove(R)
      PROVE  /\ \A a \in Artifacts : Kept(a, files, stray, files', stray')
             /\ \A a \in Artifacts : files'[a] # Absent => files[a] # Absent
  BY <1>a, <1>b, RemoveIsHarmless DEF Kept
<1>1. CASE Start
  <2>1. /\ UNCHANGED <<config, files, stray, late, mem, ckpt, hasCkpt>> /\ pc' = "create"
        /\ Untouched /\ mem = FreshSteps
    BY <1>1, <1>a DEF Start, Untouched, copyVars, workspace, disk
  <2>2. InPlace(mem', PartialCleanup, files', stray')
    BY <2>1, <1>a, AbsentIsPlaced DEF ScopeInv
  <2>. QED
    BY <2>1, <2>2, ScopeInvNext DEF ScopeInv
<1>2. CASE CreateCheckpoint
  <2>1. /\ UNCHANGED <<config, files, stray, late>> /\ pc' = "steps"
        /\ mem' = FreshSteps /\ ckpt' = FreshSteps /\ Untouched
    BY <1>2 DEF CreateCheckpoint, Untouched, copyVars
  <2>2. InPlace(FreshSteps, PartialCleanup, files', stray')
    BY <2>1, <1>a, AbsentIsPlaced DEF ScopeInv
  <2>3. ListsMandatory(FreshSteps)
    BY FreshStepsWellFormed DEF ListsMandatory
  <2>. QED
    BY <2>1, <2>2, <2>3, ScopeInvNext DEF ScopeInv, Untouched
<1>3. CASE CreateCheckpointFails \/ RecordCompletedFails \/ RecordFailed
           \/ RecordFailedFails \/ FinalizeFails \/ Crash
           \/ \E s \in Steps : CleanInterruptedFails(s) \/ EnterStepFails(s)
  <2>1. /\ \E o \in Outcomes \ {"none"} : Ends(o)
        /\ config' = config /\ late' \subseteq late /\ pc # "down"
        /\ ckpt' = ckpt \/ (ckpt' = mem /\ pc = "caught")
        /\ UNCHANGED <<files, stray>> \/ \E R : Remove(R)
    BY <1>3 DEF CreateCheckpointFails, RecordCompletedFails, RecordFailed, RecordFailedFails,
       FinalizeFails, Crash, CleanInterruptedFails, EnterStepFails, Entering, workspace, disk,
       AbortedOr, Outcomes
  <2>2. pc' = "down" /\ mem' = FreshSteps /\ outcome' # "none"
    BY <2>1 DEF Ends
  <2>3. \A a \in Artifacts : files'[a] # Absent \/ a \in late' => Owned(a)
    BY <2>1, <1>b DEF ScopeInv
  <2>. QED
    BY <2>1, <2>2, <2>3, <1>b, HarmlessKeepsScope DEF Untouched
<1>4. CASE Resume
  <2>1. /\ UNCHANGED <<config, files, stray, late, ckpt, hasCkpt>> /\ pc' = "steps"
        /\ mem' = ckpt
    BY <1>4 DEF Resume, copyVars, disk
  <2>. QED
    BY <2>1, ScopeInvNext DEF ScopeInv, Untouched
<1>5. CASE ResumeRefused
  <2>1. /\ UNCHANGED <<config, files, stray, late, ckpt, hasCkpt, mem, pc>> /\ pc = "down"
        /\ outcome' # "none"
    BY <1>5 DEF ResumeRefused, gone, copyVars, disk
  <2>. QED
    BY <2>1, ScopeInvNext DEF ScopeInv, Untouched
<1>6. CASE Damage
  BY <1>6, DamageKeepsScope
<1>7. CASE \E s \in Steps : CleanInterrupted(s)
  <2>1. PICK s \in Steps : CleanInterrupted(s)
    BY <1>7
  <2>2. /\ Remove(Owns[s]) /\ UNCHANGED <<config, late, mem, ckpt, hasCkpt>>
        /\ pc = "steps" /\ pc' = "enter" /\ NextStep(mem, s)
    BY <2>1 DEF CleanInterrupted, Scope, disk
  <2>3. ASSUME NEW m, InPlace(m, PartialCleanup, files, stray)
        PROVE  InPlace(m, PartialCleanup, files', stray')
    <3>1. \A t \in PartialCleanup : Owns[t] \subseteq Artifacts
      BY <1>a, CopyAssumption
    <3>. QED
      BY <2>2, <2>3, <3>1, <1>a, <1>b, PlaceKept
  <2>4. \A t \in PartialCleanup : NextStep(mem, t) => Vacant(t, files', stray')
    <3>1. \A a \in Owns[s] : files'[a] = Absent
      BY <2>2, CopyAssumption DEF Remove, Without
    <3>2. \A t \in PartialCleanup : NextStep(mem, t) => t = s
      BY <2>2, <1>a, OneNextStep
    <3>. QED
      BY <3>1, <3>2 DEF Vacant
  <2>5. \A a \in Artifacts : files'[a] # Absent \/ a \in late' => Owned(a)
    BY <2>2, <1>b DEF ScopeInv
  <2>. QED
    BY <2>2, <2>3, <2>4, <2>5, ScopeInvNext DEF ScopeInv, Untouched
<1>8. CASE \E s \in Steps : EnterStep(s)
  <2>1. PICK s \in Steps : EnterStep(s)
    BY <1>8
  <2>2. /\ UNCHANGED <<config, files, stray, late>> /\ pc' = "run" /\ pc # "down"
        /\ mem' = Transition(mem, s, "in_progress") /\ ckpt' = mem' /\ ~Completed(mem, s)
    BY <2>1 DEF EnterStep, Entering, NextStep, environment, workspace
  <2>3. InPlace(mem, PartialCleanup, files, stray) /\ ListsMandatory(mem)
    BY <2>2 DEF ScopeInv
  <2>4. InPlace(mem', PartialCleanup, files', stray') /\ ListsMandatory(mem')
    BY <2>2, <2>3, <1>a, TransitionPlaced
  <2>. QED
    BY <2>2, <2>4, ScopeInvNext DEF ScopeInv, Untouched
<1>9. CASE RunStep
  BY <1>9, RunKeepsScope
<1>10. CASE CompleteStep
  BY <1>10, CompletionKeepsScope
<1>11. CASE CompleteStepFails \/ StepThrew
  <2>1. /\ UNCHANGED <<config, files, stray, late, ckpt, hasCkpt>> /\ pc' = "caught"
        /\ pc = "run" /\ mem' = Transition(mem, cur, "failed")
    BY <1>11 DEF CompleteStepFails, StepThrew, copyVars, workspace, disk
  <2>2. ~Completed(mem, cur)
    BY <2>1 DEF StepInv, Completed
  <2>3. InPlace(mem, PartialCleanup, files, stray) /\ ListsMandatory(mem)
    BY <2>1 DEF ScopeInv
  <2>4. InPlace(mem', PartialCleanup, files', stray') /\ ListsMandatory(mem')
    BY <2>1, <2>2, <2>3, <1>a, TransitionPlaced
  <2>. QED
    BY <2>1, <2>4, ScopeInvNext DEF ScopeInv, Untouched
<1>12. CASE RecordCompleted \/ WriteCoverage \/ WriteIndex \/ WriteManifest
            \/ VerifyBundle \/ Publish
  <2>1. /\ UNCHANGED <<config, files, stray, late, mem>> /\ ckpt' \in {ckpt, mem}
        /\ pc \notin {"down", "create"} /\ pc' \notin {"down", "create", "enter"}
    BY <1>12 DEF RecordCompleted, WriteCoverage, WriteIndex, WriteManifest, VerifyBundle,
       Publish, copyVars, environment, workspace, disk
  <2>. QED
    BY <2>1, <1>b, HarmlessKeepsScope DEF Untouched, ScopeInv
<1>13. CASE SourceMoves \/ AbortRun
  <2>1. UNCHANGED <<config, files, stray, late, runVars>>
    BY <1>13 DEF SourceMoves, AbortRun, SourceChanges, Abort, workspace
  <2>. QED
    BY <2>1, <1>a, <1>b, HarmlessKeepsScope DEF Untouched, ScopeInv, runVars
<1>14. CASE BranchGoesOn
  <2>1. UNCHANGED <<config, runVars>> /\ LateBranch /\ late # {}
    BY <1>14 DEF BranchGoesOn, LateBranch
  <2>2. ~Untouched
    BY <2>1 DEF ScopeInv
  <2>3. \A a \in Artifacts : files'[a] # Absent \/ a \in late' => Owned(a)
    BY <2>1, <1>a, LateBranchIsHarmless DEF ScopeInv
  <2>4. \A a \in Artifacts : Kept(a, files, stray, files', stray')
    BY <2>1, <1>a, LateBranchIsHarmless
  <2>5. UNCHANGED <<pc, mem, ckpt, hasCkpt, outcome>> /\ ~Untouched'
    BY <2>1, <2>2 DEF runVars, Untouched
  <2>. QED
    BY <2>1, <2>3, <2>4, <2>5, <1>a, HarmlessKeepsScope
<1>. QED
  BY <1>1, <1>2, <1>3, <1>4, <1>5, <1>6, <1>7, <1>8, <1>9, <1>10, <1>11, <1>12,
     <1>13, <1>14
  DEF Next, Process

-----------------------------------------------------------------------------
\* The sealed bundle: what it says.

Sealing == {"index", "manifest", "verify", "publish", "done"}

LEMMA LabelKept ==
  ASSUME LabelIsHonest, UNCHANGED <<config, sealed, manifest>> PROVE LabelIsHonest'
BY DEF LabelIsHonest

LEMMA FreshIsHonest == \A mode, A : A \subseteq Steps => Honest(FreshSteps, mode, A)
BY FreshStepsWellFormed DEF Honest

(* Outside of finalization only the captures count, inside of it nothing    *)
(* but strays may change.                                                   *)
LEMMA QuietKeepsSeal ==
  ASSUME SealInv, UNCHANGED <<config, sealed, manifest>>,
         Honest(mem', Mode, Adapted), Honest(ckpt', Mode, Adapted),
         \/ pc' \notin Sealing
         \/ /\ UNCHANGED <<pc, mem, index, temps>>
            /\ stray' = {} => UNCHANGED <<files, stray>>
  PROVE  SealInv'
<1>1. LabelIsHonest'
  BY LabelKept DEF SealInv
<1>2. Honest(mem, Mode, Adapted)' /\ Honest(ckpt, Mode, Adapted)'
  BY DEF Honest, HoldsOneVersion, Completed
<1>3. CASE pc' \notin Sealing
  BY <1>1, <1>2, <1>3 DEF SealInv, Sealing
<1>4. CASE /\ UNCHANGED <<pc, mem, index, temps>>
           /\ stray' = {} => UNCHANGED <<files, stray>>
  BY <1>1, <1>2, <1>4 DEF SealInv, Verifies, AllCompleted, Completed
<1>. QED
  BY <1>3, <1>4

LEMMA TransitionHonest ==
  ASSUME NEW m \in CkptType, NEW s \in Steps, NEW st \in {"in_progress", "failed"},
         ~Completed(m, s), NEW mode, NEW A \in SUBSET Steps, Honest(m, mode, A)
  PROVE  Honest(Transition(m, s, st), mode, A)
<1>1. \A t \in Steps : t # s => Transition(m, s, st)[t] = m[t]
  BY DEF Transition, CkptType
<1>2. Transition(m, s, st)[s].status = st
  BY DEF Transition, CkptType, StepRecord
<1>. QED
  BY <1>1, <1>2 DEF Honest, Completed

(* The copy of an adapted step that reports no drift is one version.        *)
LEMMA CompletionHonest ==
  ASSUME RunTypeOK, StepInv, SealInv, CompleteStep
  PROVE  Honest(mem', Mode, Adapted)
<1>1. /\ cur \in Steps /\ made \subseteq Owns[cur] /\ cp = "returned" /\ Adapted \subseteq Steps
      /\ \A t \in Steps : t # cur => mem'[t] = mem[t]
      /\ mem'[cur].art = Described /\ mem'[cur].drift = drift
  BY CompletionRecords, TidyIsAdapted DEF CompleteStep
<1>2. ASSUME cur \in Adapted, Mode # "best-effort" \/ ~drift PROVE HoldsOneVersion(Described, cur)
  <2>1. \A a \in made : files[a] = before[Surface[a]]
    BY <1>1, <1>2 DEF StepInv, CopyInv, MadeIsOneVersion
  <2>2. \A a \in Owns[cur] : Described[a] # Absent => Described[a] = before[Surface[a]]
    BY <2>1, CompletionRecords
  <2>. QED
    BY <2>2 DEF HoldsOneVersion
<1>3. Honest(mem, Mode, Adapted)
  BY DEF SealInv
<1>. QED
  BY <1>1, <1>2, <1>3 DEF Honest, Completed

(* The manifest repeats what the completed steps captured, and its label    *)
(* what they reported.                                                      *)
LEMMA ManifestHonest ==
  ASSUME RunTypeOK, SealInv, WriteManifest
  PROVE  LabelIsHonest' /\ sealed' /\ \A s \in Steps : manifest'.art[s] = mem'[s].art
<1>1. /\ UNCHANGED <<config, mem>> /\ sealed' = TRUE /\ manifest'.label = Label(mem)
      /\ \A s \in Steps : manifest'.art[s] = mem[s].art
      /\ Adapted \subseteq Steps /\ AllCompleted(mem) /\ Honest(mem, Mode, Adapted)
  BY TidyIsAdapted DEF WriteManifest, copyVars, SealInv
<1>2. ASSUME manifest'.label # "drift_detected", NEW s \in Adapted
      PROVE  HoldsOneVersion(mem[s].art, s)
  <2>1. Mode # "best-effort" \/ ~mem[s].drift
    BY <1>1, <1>2 DEF Label
  <2>. QED
    BY <1>1, <1>2, <2>1 DEF Honest, AllCompleted
<1>3. LabelIsHonest'
  BY <1>1, <1>2 DEF LabelIsHonest, HoldsOneVersion
<1>. QED
  BY <1>1, <1>3

LEMMA NextKeepsSeal ==
  ASSUME RunTypeOK, StepInv, SealInv, Next PROVE SealInv'
<1>a. /\ Adapted \in SUBSET Steps /\ mem \in CkptType /\ cur \in Steps
      /\ Honest(mem, Mode, Adapted) /\ Honest(ckpt, Mode, Adapted)
      /\ Honest(FreshSteps, Mode, Adapted)
  BY TidyIsAdapted, FreshIsHonest DEF RunTypeOK, CopyTypeOK, CkptType, SealInv
<1>1. CASE CreateCheckpointFails \/ RecordCompletedFails \/ RecordFailed
           \/ RecordFailedFails \/ FinalizeFails \/ Crash
           \/ \E s \in Steps : CleanInterruptedFails(s) \/ EnterStepFails(s)
  <2>1. (\E o : Ends(o)) /\ UNCHANGED <<config, sealed, manifest>> /\ ckpt' \in {ckpt, mem}
    BY <1>1 DEF CreateCheckpointFails, RecordCompletedFails, RecordFailed, RecordFailedFails,
       FinalizeFails, Crash, CleanInterruptedFails, EnterStepFails, disk
  <2>2. pc' = "down" /\ mem' = FreshSteps
    BY <2>1 DEF Ends
  <2>. QED
    BY <2>1, <2>2, <1>a, QuietKeepsSeal DEF Sealing
<1>2. CASE Start \/ CreateCheckpoint \/ Resume \/ ResumeRefused \/ Damage
           \/ \E s \in Steps : CleanInterrupted(s)
  <2>1. /\ UNCHANGED <<config, sealed, manifest>> /\ pc' \notin Sealing
        /\ mem' \in {mem, ckpt, FreshSteps} /\ ckpt' \in {ckpt, FreshSteps}
    BY <1>2 DEF Start, CreateCheckpoint, Resume, ResumeRefused, Damage, CleanInterrupted,
       gone, copyVars, disk, runVars, Sealing
  <2>. QED
    BY <2>1, <1>a, QuietKeepsSeal
<1>3. CASE (\E s \in Steps : EnterStep(s)) \/ CompleteStepFails \/ StepThrew
  <2>1. /\ UNCHANGED <<config, sealed, manifest>> /\ pc' \notin Sealing
        /\ ckpt' \in {ckpt, mem'}
        /\ \E s \in Steps, st \in {"in_progress", "failed"} :
             mem' = Transition(mem, s, st) /\ ~Completed(mem, s)
    BY <1>3, <1>a DEF EnterStep, Entering, CompleteStepFails, StepThrew, NextStep, StepInv,
       Completed, environment, copyVars, disk, Sealing
  <2>2. Honest(mem', Mode, Adapted)
    BY <2>1, <1>a, TransitionHonest
  <2>. QED
    BY <2>1, <2>2, <1>a, QuietKeepsSeal
<1>4. CASE CompleteStep
  <2>1. UNCHANGED <<config, sealed, manifest, ckpt>> /\ pc' \notin Sealing
    BY <1>4 DEF CompleteStep, copyVars, disk, Sealing
  <2>. QED
    BY <2>1, <1>4, <1>a, CompletionHonest, QuietKeepsSeal
<1>5. CASE RunStep \/ RecordCompleted
  <2>1. /\ UNCHANGED <<config, sealed, manifest, mem>> /\ pc' \notin Sealing
        /\ ckpt' \in {ckpt, mem}
    BY <1>5, CopyKeepsStrays DEF RunStep, RecordCompleted, runVars, environment, RunTypeOK, Sealing
  <2>. QED
    BY <2>1, <1>a, QuietKeepsSeal
<1>6. CASE SourceMoves \/ AbortRun \/ BranchGoesOn
  <2>1. /\ UNCHANGED <<config, temps, runVars>>
        /\ stray' = {} => UNCHANGED <<files, stray>>
    BY <1>6 DEF SourceMoves, AbortRun, BranchGoesOn, SourceChanges, Abort, LateBranch, workspace
  <2>. QED
    BY <2>1, <1>a, QuietKeepsSeal DEF runVars
<1>7. CASE WriteCoverage \/ WriteIndex
  <2>1. /\ UNCHANGED <<config, sealed, manifest, mem, ckpt>> /\ AllCompleted(mem)
        /\ pc' \in {"index", "manifest"}
    BY <1>7 DEF WriteCoverage, WriteIndex, copyVars, disk, SealInv
  <2>2. LabelIsHonest'
    BY <2>1, LabelKept DEF SealInv
  <2>. QED
    BY <2>1, <2>2 DEF SealInv, Honest, HoldsOneVersion, Completed, AllCompleted
<1>8. CASE WriteManifest
  <2>1. UNCHANGED <<config, mem, ckpt>> /\ AllCompleted(mem) /\ pc' = "verify"
    BY <1>8 DEF WriteManifest, copyVars, SealInv
  <2>. QED
    BY <2>1, <1>8, ManifestHonest DEF SealInv, Honest, HoldsOneVersion, Completed, AllCompleted
<1>9. CASE VerifyBundle \/ Publish
  <2>1. /\ UNCHANGED <<config, files, stray, temps, mem, ckpt, index, sealed, manifest>>
        /\ AllCompleted(mem) /\ (stray = {} => Verifies)
        /\ sealed /\ \A s \in Steps : manifest.art[s] = mem[s].art
    BY <1>9 DEF VerifyBundle, Publish, copyVars, workspace, disk, SealInv
  <2>2. LabelIsHonest'
    BY <2>1, LabelKept DEF SealInv
  <2>. QED
    BY <2>1, <2>2 DEF SealInv, Honest, HoldsOneVersion, Completed, AllCompleted, Verifies
<1>. QED
  BY <1>1, <1>2, <1>3, <1>4, <1>5, <1>6, <1>7, <1>8, <1>9 DEF Next, Process

-----------------------------------------------------------------------------
\* The sealed bundle: the theorems.

LEMMA InitBundle == Init => StepInv /\ ScopeInv /\ SealInv
<1> USE CopyAssumption
<1> SUFFICES ASSUME Init PROVE StepInv /\ ScopeInv /\ SealInv
  OBVIOUS
<1>1. /\ pc = "down" /\ cp = "idle" /\ exc = "none" /\ attempt = 1 /\ src = before
      /\ mem = FreshSteps /\ ckpt = FreshSteps /\ late = {} /\ ~hasCkpt /\ ~sealed
      /\ before = [s \in Steps |-> 1]
      /\ \A a \in Artifacts : files[a] = Absent
  BY DEF Init, NoFiles
<1>2. StepInv
  BY <1>1 DEF StepInv, InStep, CopyInv, MadeIsOneVersion, NothingLeftBehind, RetryBound
<1>3. PartialCleanup \in SUBSET Steps /\ Adapted \subseteq Steps
  BY InitTypes, TidyIsAdapted
<1>4. InPlace(FreshSteps, PartialCleanup, files, stray)
  BY <1>1, <1>3, AbsentIsPlaced
<1>5. ScopeInv
  BY <1>1, <1>4, FreshStepsWellFormed DEF ScopeInv, ListsMandatory, Untouched
<1>6. SealInv
  BY <1>1, <1>3, FreshIsHonest DEF SealInv, LabelIsHonest
<1>. QED
  BY <1>2, <1>5, <1>6

(* The inductive invariant behind the two theorems below holds in every run *)
(* (executeBackup, finalizeBundle).                                         *)
THEOREM BundleInvariant == Spec => []BundleInv
<1>1. Init => BundleInv
  BY InitTypes, InitCaptures, InitBundle DEF BundleInv
<1>2. BundleInv /\ Next => BundleInv'
  BY NextKeepsTypes, NextKeepsCaptures, NextKeepsStep, NextKeepsScope, NextKeepsSeal
  DEF BundleInv
<1>3. BundleInv /\ UNCHANGED vars => BundleInv'
  <2> SUFFICES ASSUME BundleInv, UNCHANGED vars PROVE BundleInv'
    OBVIOUS
  <2>1. /\ UNCHANGED copyVars /\ UNCHANGED runVars
        /\ UNCHANGED <<config, src, files, stray, late, temps, aborted, faults, copyControl>>
        /\ UNCHANGED <<pc, mem, hasCkpt, ckpt, index, sealed, manifest, outcome>>
    BY DEF vars, copyVars, copyControl, runVars, workspace
  <2>2. RunTypeOK'
    BY <2>1 DEF BundleInv, RunTypeOK, CopyTypeOK, copyControl
  <2>3. CapturesInv'
    BY <2>1, CapturesInvNext DEF BundleInv, CapturesInv, WellFormed, Working, Intact,
       Completed, copyControl
  <2>4. StepInv'
    BY <2>1 DEF BundleInv, StepInv, InStep, CopyInv, Tidy, Bare, NothingElse,
       MadeIsRecent, MadeIsOneVersion, NothingLeftBehind, RetryBound, copyControl
  <2>5. ScopeInv'
    BY <2>1 DEF BundleInv, ScopeInv, InPlace, Vacant, ListsMandatory, NextStep, Completed,
       Untouched, Owned
  <2>6. SealInv'
    BY <2>1 DEF BundleInv, SealInv, Honest, HoldsOneVersion, Completed, AllCompleted, Verifies,
       LabelIsHonest
  <2>. QED
    BY <2>2, <2>3, <2>4, <2>5, <2>6 DEF BundleInv
<1>. QED
  BY <1>1, <1>2, <1>3, PTL DEF Spec

(* A finished bundle lists exactly what is there, but for strays and for    *)
(* steps without a cleanupPartial, and verifies (finalizeBundle).           *)
THEOREM FinishedIsExact == Spec => []FinishedBundleIsExact
<1>1. BundleInv => FinishedBundleIsExact
  <2> SUFFICES ASSUME BundleInv, pc = "done" PROVE FinishedBundleIsExact
    BY DEF FinishedBundleIsExact
  <2>1. /\ AllCompleted(mem) /\ Intact(mem) /\ (stray = {} => Verifies)
        /\ \A s \in Steps : manifest.art[s] = mem[s].art
        /\ InPlace(mem, PartialCleanup, files, stray)
        /\ \A a \in Artifacts : files[a] # Absent => Owned(a)
    BY DEF BundleInv, SealInv, ScopeInv, CapturesInv
  <2>2. ASSUME NEW a \in Artifacts, NEW s \in Steps, manifest.art[s][a] # Absent
        PROVE  files[a] # Absent
    BY <2>1, <2>2 DEF AllCompleted, Intact
  <2>3. ASSUME NEW a \in Artifacts, files[a] # Absent
        PROVE  \/ \E s \in Steps : manifest.art[s][a] # Absent
               \/ a \in stray
               \/ \E s \in Steps \ PartialCleanup : a \in Owns[s]
    <3>1. PICK s \in Steps : a \in Owns[s]
      BY <2>1, <2>3 DEF Owned
    <3>2. CASE s \in PartialCleanup
      BY <2>1, <2>3, <3>1, <3>2 DEF InPlace, AllCompleted
    <3>. QED
      BY <3>1, <3>2
  <2>. QED
    BY <2>1, <2>2, <2>3 DEF FinishedBundleIsExact
<1>. QED
  BY <1>1, BundleInvariant, PTL

(* The consistency label of a sealed bundle is true of what it captured     *)
(* (consistencyResult).                                                     *)
THEOREM LabelStaysHonest == Spec => []LabelIsHonest
<1>1. BundleInv => LabelIsHonest
  BY DEF BundleInv, SealInv
<1>. QED
  BY <1>1, BundleInvariant, PTL
-----------------------------------------------------------------------------
\* The refinement of BackupPromise.

(* Two records of the run that tell the same of the steps in S.             *)
Agree(m, n, S) ==
  \A s \in S : m[s].art = n[s].art /\ (Completed(m, s) <=> Completed(n, s))

(* Memory and checkpoint file tell the same, but for the step whose         *)
(* completion is about to be written; a sealed bundle is that of the file.  *)
PromiseInv ==
  /\ Untouched => ckpt = FreshSteps /\ ~sealed
  /\ pc \notin {"down", "create", "record"} => Agree(mem, ckpt, Steps)
  /\ pc = "record" => Completed(mem, cur) /\ Agree(mem, ckpt, Steps \ {cur})
  /\ sealed => AllCompleted(ckpt) /\ manifest.art = [s \in Steps |-> ckpt[s].art]

LEMMA TransitionAgrees ==
  ASSUME NEW m \in CkptType, NEW n \in CkptType, Agree(m, n, Steps),
         NEW s \in Steps, ~Completed(m, s), NEW st \in {"in_progress", "failed"}
  PROVE  /\ Agree(Transition(m, s, st), n, Steps)
         /\ Agree(Transition(m, s, st), Transition(m, s, st), Steps)
BY DEF Agree, Transition, Completed, CkptType, StepRecord, Statuses

LEMMA NextKeepsPromiseInv ==
  ASSUME BundleInv, PromiseInv, Next PROVE PromiseInv'
<1>a. /\ mem \in CkptType /\ ckpt \in CkptType /\ cur \in Steps
      /\ InStep => ckpt[cur].status = "in_progress"
  BY DEF BundleInv, RunTypeOK, CopyTypeOK, CkptType, StepInv
<1>1. CASE CreateCheckpointFails \/ RecordCompletedFails \/ RecordFailed
           \/ RecordFailedFails \/ FinalizeFails \/ Crash
           \/ \E s \in Steps : CleanInterruptedFails(s) \/ EnterStepFails(s)
  <2>1. (\E o \in Outcomes \ {"none"} : Ends(o)) /\ UNCHANGED <<sealed, manifest>>
    BY <1>1 DEF CreateCheckpointFails, RecordCompletedFails, RecordFailed, RecordFailedFails,
       FinalizeFails, Crash, CleanInterruptedFails, EnterStepFails, disk, AbortedOr, Outcomes
  <2>2. pc' = "down" /\ outcome' # "none"
    BY <2>1 DEF Ends
  <2>3. CASE ckpt' = ckpt
    BY <2>1, <2>2, <2>3 DEF PromiseInv, Untouched, AllCompleted, Completed
  <2>4. CASE RecordFailed
    <3>1. ~sealed
      BY <1>a, <2>4 DEF RecordFailed, InStep, PromiseInv, AllCompleted, Completed
    <3>. QED
      BY <2>1, <2>2, <3>1 DEF PromiseInv, Untouched
  <2>. QED
    BY <1>1, <2>3, <2>4 DEF CreateCheckpointFails, RecordCompletedFails, RecordFailedFails,
       FinalizeFails, Crash, CleanInterruptedFails, EnterStepFails, disk
<1>2. CASE CreateCheckpoint
  BY <1>2 DEF CreateCheckpoint, PromiseInv, Untouched, Agree
<1>3. CASE Resume
  BY <1>3 DEF Resume, gone, copyVars, disk, PromiseInv, Untouched, Agree, AllCompleted, Completed
<1>4. CASE \E s \in Steps : EnterStep(s)
  <2>1. PICK s \in Steps : EnterStep(s)
    BY <1>4
  <2>2. ~Completed(mem, s) /\ Agree(mem, ckpt, Steps)
    BY <2>1 DEF EnterStep, Entering, NextStep, PromiseInv
  <2>3. ~sealed /\ ~sealed' /\ mem' = Transition(mem, s, "in_progress") /\ ckpt' = mem' /\ pc' = "run"
    BY <2>1, <2>2 DEF EnterStep, PromiseInv, AllCompleted, Agree
  <2>. QED
    BY <2>2, <2>3, <1>a, TransitionAgrees DEF PromiseInv, Untouched
<1>5. CASE CompleteStepFails \/ StepThrew
  <2>1. /\ mem' = Transition(mem, cur, "failed") /\ ~Completed(mem, cur)
        /\ pc' = "caught" /\ UNCHANGED <<ckpt, sealed, manifest>> /\ Agree(mem, ckpt, Steps)
    BY <1>5 DEF CompleteStepFails, StepThrew, PromiseInv, BundleInv, StepInv, Completed,
       disk, copyVars
  <2>2. Agree(mem', ckpt', Steps)
    BY <2>1, <1>a, TransitionAgrees
  <2>. QED
    BY <2>1, <2>2 DEF PromiseInv, Untouched, AllCompleted, Completed
<1>6. CASE CompleteStep
  <2>1. /\ mem' = [mem EXCEPT ![cur] =
                     [status |-> "completed", art |-> Described, drift |-> drift]]
        /\ pc' = "record" /\ UNCHANGED <<ckpt, sealed, manifest, cur>>
        /\ Agree(mem, ckpt, Steps)
    BY <1>6 DEF CompleteStep, PromiseInv, disk, copyVars
  <2>2. Completed(mem', cur') /\ Agree(mem', ckpt', Steps \ {cur'})
    BY <2>1, <1>a DEF CkptType, Completed, Agree
  <2>. QED
    BY <2>1, <2>2 DEF PromiseInv, Untouched, AllCompleted, Completed
<1>7. CASE RecordCompleted
  <2>1. ~sealed /\ ckpt' = mem /\ UNCHANGED <<mem, sealed>> /\ pc' = "steps"
    BY <1>7, <1>a DEF RecordCompleted, PromiseInv, InStep, AllCompleted, Completed
  <2>. QED
    BY <2>1 DEF PromiseInv, Untouched, Agree
<1>8. CASE WriteManifest
  <2>1. /\ sealed' /\ manifest'.art = [s \in Steps |-> mem[s].art] /\ pc' = "verify"
        /\ UNCHANGED <<mem, ckpt>> /\ Agree(mem, ckpt, Steps) /\ AllCompleted(mem)
    BY <1>8 DEF WriteManifest, PromiseInv, BundleInv, SealInv
  <2>2. AllCompleted(ckpt') /\ manifest'.art = [s \in Steps |-> ckpt'[s].art]
    BY <2>1 DEF Agree, AllCompleted, Completed
  <2>. QED
    BY <2>1, <2>2 DEF PromiseInv, Untouched, Agree, Completed
<1>9. CASE \/ Start \/ ResumeRefused \/ Damage \/ RunStep \/ BranchGoesOn \/ SourceMoves
           \/ AbortRun \/ WriteCoverage \/ WriteIndex \/ VerifyBundle \/ Publish
           \/ \E s \in Steps : CleanInterrupted(s)
  <2>1. UNCHANGED <<mem, ckpt, sealed, manifest>>
    BY <1>9 DEF Start, ResumeRefused, Damage, RunStep, BranchGoesOn, SourceMoves, AbortRun,
       WriteCoverage, WriteIndex, VerifyBundle, Publish, CleanInterrupted, runVars, disk
  <2>2. /\ pc' \notin {"down", "create", "record"} => pc \notin {"down", "create", "record"}
        /\ Untouched' => Untouched
    BY <1>9 DEF Start, ResumeRefused, Damage, RunStep, BranchGoesOn, SourceMoves, AbortRun,
       WriteCoverage, WriteIndex, VerifyBundle, Publish, CleanInterrupted, runVars, disk,
       Untouched
  <2>3. pc' = "record" => pc = "record" /\ cur' = cur
    BY <1>9 DEF Start, ResumeRefused, Damage, RunStep, BranchGoesOn, SourceMoves, AbortRun,
       WriteCoverage, WriteIndex, VerifyBundle, Publish, CleanInterrupted, runVars, disk,
       SourceChanges, Abort, LateBranch, copyControl, BundleInv, RunTypeOK
  <2>. QED
    BY <2>1, <2>2, <2>3 DEF PromiseInv, Agree, AllCompleted, Completed
<1>. QED
  BY <1>1, <1>2, <1>3, <1>4, <1>5, <1>6, <1>7, <1>8, <1>9 DEF Next, Process

(* What the promise speaks of changes in two steps only.                    *)
LEMMA PromiseStutters ==
  ASSUME UNCHANGED <<sealed, manifest>>, Agree(ckpt', ckpt, Steps)
  PROVE  UNCHANGED <<{s \in Steps : sealed \/ Completed(ckpt, s)},
                     [s \in Steps |-> ckpt[s].art],
                     IF sealed THEN {manifest.art} ELSE {}>>
BY DEF Agree

(* A backup run implements BackupPromise: steps are captured in order, each *)
(* once and for good, and the bundle is sealed once, with what was captured *)
(* (executeBackup).                                                         *)
THEOREM RunKeepsPromise == Spec => KeepsPromise
<1>1. Init => Promise!Init
  BY FreshStepsType DEF Init, Promise!Init, Promise!Steps, Steps, FreshSteps, Completed,
     CkptType, StepRecord
<1>2. Init => PromiseInv
  BY DEF Init, PromiseInv, Untouched
<1>3. ASSUME BundleInv, PromiseInv, Next
      PROVE  [Promise!Next]_<<{s \in Steps : sealed \/ Completed(ckpt, s)},
                              [s \in Steps |-> ckpt[s].art],
                              IF sealed THEN {manifest.art} ELSE {}>>
  <2>a. /\ mem \in CkptType /\ ckpt \in CkptType /\ cur \in Steps
        /\ InStep => ckpt[cur].status = "in_progress"
    BY <1>3 DEF BundleInv, RunTypeOK, CopyTypeOK, CkptType, StepInv
  <2>1. CASE RecordCompleted
    <3>1. /\ ckpt' = mem /\ UNCHANGED <<sealed, manifest>> /\ ~Completed(ckpt, cur) /\ ~sealed
          /\ Completed(mem, cur) /\ Agree(mem, ckpt, Steps \ {cur}) /\ InOrder(mem) /\ InOrder(ckpt)
      BY <1>3, <2>a, <2>1 DEF RecordCompleted, PromiseInv, InStep, AllCompleted, Completed,
         BundleInv, CapturesInv
    <3>2. {s \in Steps : sealed \/ Completed(ckpt, s)} = 1..cur-1
      BY <3>1, <2>a, CopyAssumption DEF InOrder, Agree, Steps
    <3>3. {s \in Steps : sealed' \/ Completed(ckpt', s)} = 1..cur
      BY <3>1, <3>2, <2>a, CopyAssumption DEF InOrder, Agree, Steps
    <3>4. [s \in Steps |-> ckpt'[s].art]
            = [[s \in Steps |-> ckpt[s].art] EXCEPT ![cur] = mem[cur].art]
      BY <3>1, <2>a DEF Agree
    <3>5. mem[cur].art \in [Artifacts -> Contents]
      BY <2>a DEF CkptType, StepRecord
    <3>6. Promise!Capture(cur)
      BY <3>1, <3>2, <3>3, <3>4, <3>5 DEF Promise!Capture, Promise!Steps, Steps
    <3>7. cur \in Promise!Steps
      BY <2>a DEF Promise!Steps, Steps
    <3>8. \E s \in Promise!Steps : Promise!Capture(s)
      BY <3>6, <3>7 DEF Promise!Capture
    <3>. QED
      BY <3>8 DEF Promise!Next
  <2>2. CASE WriteManifest
    <3>1. /\ ckpt' = ckpt /\ sealed' /\ AllCompleted(ckpt)
          /\ manifest'.art = [s \in Steps |-> ckpt[s].art]
          /\ sealed => manifest.art = [s \in Steps |-> ckpt[s].art]
      BY <1>3, <2>2 DEF WriteManifest, PromiseInv, BundleInv, SealInv, Agree, AllCompleted,
         Completed
    <3>2. CASE sealed
      BY <3>1, <3>2
    <3>3. CASE ~sealed
      <4>1. Promise!Seal
        BY <3>1, <3>3 DEF Promise!Seal, Promise!Steps, Steps, AllCompleted
      <4>. QED
        BY <4>1 DEF Promise!Next
    <3>. QED
      BY <3>2, <3>3
  <2>3. CASE \E s \in Steps : EnterStep(s)
    <3>1. PICK s \in Steps : EnterStep(s)
      BY <2>3
    <3>2. /\ ckpt' = Transition(mem, s, "in_progress") /\ ~Completed(mem, s)
          /\ Agree(mem, ckpt, Steps) /\ UNCHANGED <<sealed, manifest>>
      BY <1>3, <3>1 DEF EnterStep, Entering, NextStep, PromiseInv
    <3>3. Agree(ckpt', ckpt, Steps)
      BY <3>2, <2>a, TransitionAgrees
    <3>. QED
      BY <3>2, <3>3, PromiseStutters
  <2>4. CASE ~(WriteManifest \/ RecordCompleted \/ \E s \in Steps : EnterStep(s))
    <3>1. UNCHANGED <<sealed, manifest>>
      BY <1>3, <2>4 DEF Next, Process, Start, CreateCheckpoint, CreateCheckpointFails, Resume,
         ResumeRefused, CleanInterrupted, CleanInterruptedFails, EnterStepFails, RunStep,
         BranchGoesOn, CompleteStep, CompleteStepFails, RecordCompletedFails, StepThrew,
         RecordFailed, RecordFailedFails, WriteCoverage, WriteIndex, VerifyBundle,
         FinalizeFails, Publish, Crash, Damage, SourceMoves, AbortRun, disk, runVars
    <3>2. ckpt' = ckpt \/ CreateCheckpoint \/ RecordFailed
      BY <1>3, <2>4 DEF Next, Process, Start, CreateCheckpointFails, Resume,
         ResumeRefused, CleanInterrupted, CleanInterruptedFails, EnterStepFails, RunStep,
         BranchGoesOn, CompleteStep, CompleteStepFails, RecordCompletedFails, StepThrew,
         RecordFailedFails, WriteCoverage, WriteIndex, VerifyBundle,
         FinalizeFails, Publish, Crash, Damage, SourceMoves, AbortRun, disk, runVars
    <3>3. Agree(ckpt', ckpt, Steps)
      BY <1>3, <3>2 DEF CreateCheckpoint, RecordFailed, PromiseInv, Untouched, Agree
    <3>. QED
      BY <3>1, <3>3, PromiseStutters
  <2>. QED
    BY <2>1, <2>2, <2>3, <2>4
<1>4. ASSUME PromiseInv, UNCHANGED vars
      PROVE  /\ PromiseInv'
             /\ UNCHANGED <<{s \in Steps : sealed \/ Completed(ckpt, s)},
                            [s \in Steps |-> ckpt[s].art],
                            IF sealed THEN {manifest.art} ELSE {}>>
  <2>1. UNCHANGED <<pc, mem, hasCkpt, ckpt, sealed, manifest, outcome, cur>>
    BY <1>4 DEF vars, runVars, copyVars
  <2>2. PromiseInv'
    BY <1>4, <2>1 DEF PromiseInv, Untouched, Agree, Completed, AllCompleted
  <2>. QED
    BY <2>1, <2>2
<1>5. BundleInv /\ PromiseInv /\ [Next]_vars
      => /\ PromiseInv'
         /\ [Promise!Next]_<<{s \in Steps : sealed \/ Completed(ckpt, s)},
                             [s \in Steps |-> ckpt[s].art],
                             IF sealed THEN {manifest.art} ELSE {}>>
  BY <1>3, <1>4, NextKeepsPromiseInv
<1>. QED
  BY <1>1, <1>2, <1>5, BundleInvariant, PTL DEF Spec, KeepsPromise, Promise!Spec

-----------------------------------------------------------------------------
\* Why a process ends.

(* A copy sets out to write no file twice; where drift is retried there is a *)
(* cleanup; and what is sealed is what is there, unless a late branch has    *)
(* written since.                                                            *)
SoundCopy ==
  /\ cp = "copying" => plan \cap made = {}
  /\ exc # "unsafe"
SealsWhatIsThere ==
  /\ pc = "manifest" /\ stray = {} => temps = {} /\ index = files
  /\ pc = "verify" /\ stray = {} => Verifies

LEMMA RunStepStaysSound ==
  ASSUME RunTypeOK, SoundCopy, RunStep
  PROVE  SoundCopy'
<1>1. Mode # "best-effort" => cur \in PartialCleanup
  BY BackupAssumption DEF RunTypeOK, CopyTypeOK
<1> USE DEF SoundCopy
<1>2. CASE SnapshotBefore \/ CopyDone \/ (\E a \in Artifacts : WriteArtifact(a)) \/ CopyFails
  BY <1>2 DEF SnapshotBefore, CopyDone, WriteArtifact, CopyFails, CopyError
<1>3. CASE SnapshotBeforeFails \/ CleanPartial \/ CleanPartialFails \/ NoPartialCleanup
  BY <1>1, <1>3 DEF SnapshotBeforeFails, CleanPartial, CleanPartialFails, NoPartialCleanup,
     AfterPartial, Throw, Retry
<1>4. CASE Compare \/ CompareFails \/ CleanCopy \/ CleanCopyFails
  BY <1>4 DEF Compare, CompareFails, CleanCopy, CleanCopyFails, AfterCleanup, Throw, Retry, Return
<1>5. CASE BareStepReturns \/ BareStepFails
  BY <1>5 DEF BareStepReturns, BareStepFails
<1>. QED
  BY <1>2, <1>3, <1>4, <1>5 DEF RunStep, Copying

LEMMA NextStaysSound ==
  ASSUME RunTypeOK, StepInv, SoundCopy, SealsWhatIsThere, Next
  PROVE  SoundCopy' /\ SealsWhatIsThere'
<1>1. CASE CreateCheckpointFails \/ RecordCompletedFails \/ RecordFailed
           \/ RecordFailedFails \/ FinalizeFails \/ Crash
           \/ \E s \in Steps : CleanInterruptedFails(s) \/ EnterStepFails(s)
  <2>1. \E o : Ends(o)
    BY <1>1 DEF CreateCheckpointFails, RecordCompletedFails, RecordFailed, RecordFailedFails,
       FinalizeFails, Crash, CleanInterruptedFails, EnterStepFails
  <2>. QED
    BY <2>1 DEF Ends, SoundCopy, SealsWhatIsThere
<1>2. CASE Start \/ CreateCheckpoint \/ Resume \/ ResumeRefused \/ Damage \/ WriteCoverage
           \/ VerifyBundle \/ Publish \/ CompleteStep \/ CompleteStepFails \/ StepThrew
           \/ \E s \in Steps : CleanInterrupted(s)
  <2>1. UNCHANGED <<cp, plan, made, exc>> /\ pc' \notin {"manifest", "verify"}
    BY <1>2 DEF Start, CreateCheckpoint, Resume, ResumeRefused, Damage, WriteCoverage,
       VerifyBundle, Publish, CompleteStep, CompleteStepFails, StepThrew, CleanInterrupted,
       gone, copyVars, copyControl, runVars
  <2>. QED
    BY <2>1 DEF SoundCopy, SealsWhatIsThere
<1>3. CASE WriteIndex
  BY <1>3 DEF WriteIndex, workspace, copyControl, SoundCopy, SealsWhatIsThere
<1>4. CASE WriteManifest
  BY <1>4 DEF WriteManifest, copyVars, workspace, SoundCopy, SealsWhatIsThere, Verifies
<1>5. ASSUME NEW s \in Steps, EnterStep(s) PROVE SoundCopy' /\ SealsWhatIsThere'
  BY <1>5 DEF EnterStep, SoundCopy, SealsWhatIsThere
<1>6. CASE RecordCompleted
  BY <1>6 DEF RecordCompleted, SoundCopy, SealsWhatIsThere
<1>7. CASE RunStep
  BY <1>7, RunStepStaysSound DEF RunStep, runVars, SealsWhatIsThere
<1>8. CASE SourceMoves \/ AbortRun
  BY <1>8 DEF SourceMoves, AbortRun, SourceChanges, Abort, runVars, workspace, SoundCopy,
     SealsWhatIsThere, Verifies
<1>9. CASE BranchGoesOn
  <2>1. /\ UNCHANGED <<pc, cp, plan, made, exc, temps, index, sealed, manifest>>
        /\ stray' = {} => stray = {} /\ files' = files
    BY <1>9 DEF BranchGoesOn, LateBranch, runVars, workspace
  <2>. QED
    BY <2>1 DEF SoundCopy, SealsWhatIsThere, Verifies
<1>. QED
  BY <1>1, <1>2, <1>3, <1>4, <1>5, <1>6, <1>7, <1>8, <1>9 DEF Next, Process

(* A copy meets no file in its way but a stray, if its step has a cleanup.  *)
LEMMA ErrorsHaveAReason ==
  ASSUME RunTypeOK, StepInv, SoundCopy, RunStep, ~aborted, faults' = faults,
         exc' = "error", exc # "error"
  PROVE  plan \cap stray # {} \/ cur \notin PartialCleanup
<1>1. ~Fault
  BY CopyAssumption DEF Fault, RunTypeOK, CopyTypeOK
<1>2. (CopyFails \/ BareStepFails) /\ CopyError("error")
  <2>1. CASE SnapshotBefore \/ SnapshotBeforeFails \/ CopyDone
             \/ (\E a \in Artifacts : WriteArtifact(a))
    BY <1>1, <2>1 DEF SnapshotBefore, SnapshotBeforeFails, CopyDone, WriteArtifact, Throw, Retry
  <2>2. CASE CleanPartial \/ CleanPartialFails \/ NoPartialCleanup
    BY <2>2 DEF CleanPartial, CleanPartialFails, NoPartialCleanup, AfterPartial, Throw, Retry
  <2>3. CASE Compare \/ CompareFails \/ CleanCopy \/ CleanCopyFails \/ BareStepReturns
    BY <1>1, <2>3 DEF Compare, CompareFails, CleanCopy, CleanCopyFails, AfterCleanup, Throw,
       Retry, Return, BareStepReturns
  <2>4. CASE CopyFails \/ BareStepFails
    BY <2>4 DEF CopyFails, BareStepFails
  <2>. QED
    BY <2>1, <2>2, <2>3, <2>4 DEF RunStep, Copying
<1>3. PICK a \in plan : files[a] # Absent
  BY <1>1, <1>2 DEF CopyError
<1>4. cp = "copying" /\ a \in Owns[cur] \ made
  BY <1>2, <1>3 DEF CopyError, SoundCopy, RunTypeOK, CopyTypeOK
<1>5. Tidy => a \in stray
  BY <1>3, <1>4 DEF StepInv, CopyInv, NothingElse
<1>. QED
  BY <1>3, <1>5 DEF Tidy

(* What a step lists is there: it has just written it, or an earlier step   *)
(* has, whose files are intact.                                             *)
LEMMA ListedIsThere ==
  ASSUME BundleInv, pc = "run", cp = "returned", NEW a \in Listed
  PROVE  files[a] # Absent
<1>1. cur \in Steps /\ made \subseteq Owns[cur] /\ Owns[cur] \subseteq Artifacts
      /\ before \in [Steps -> 1..MaxVersion] /\ src \in [Steps -> 1..MaxVersion]
      /\ files \in [Artifacts -> Contents]
  BY CopyAssumption DEF BundleInv, RunTypeOK, CopyTypeOK
<1>2. CASE a \in made
  <2>1. before[Surface[a]] <= files[a]
    BY <1>2 DEF BundleInv, StepInv, CopyInv, MadeIsRecent
  <2>2. Surface[a] \in Steps
    BY <1>1, <1>2, CopyAssumption
  <2>3. before[Surface[a]] \in 1..MaxVersion
    BY <1>1, <2>2
  <2>. QED
    BY <2>1, <2>3, CopyAssumption DEF Absent
<1>3. CASE a \in Shared[cur]
  <2>1. PICK t \in Steps : t < cur /\ a \in Owns[t]
    BY <1>1, <1>3, BackupAssumption
  <2>2. a \in Mandatory /\ a \in Artifacts
    BY <1>1, <1>3, BackupAssumption, CopyAssumption
  <2>3. Completed(mem, t) /\ Intact(mem)
    BY <2>1 DEF BundleInv, CapturesInv, NextStep
  <2>4. mem[t].art[a] # Absent
    BY <2>1, <2>2, <2>3 DEF BundleInv, ScopeInv, ListsMandatory
  <2>. QED
    BY <2>2, <2>3, <2>4 DEF Intact
<1>. QED
  BY <1>2, <1>3 DEF Listed

(* A process of a backup run ends before its bundle is finished only for    *)
(* drift, a failing call, an abort, a late branch, or a missing cleanup     *)
(* (executeBackup, finalizeBundle).                                         *)
THEOREM RunStops == Spec => RunStopsForAReason
<1>1. ASSUME BundleInv, SoundCopy, SealsWhatIsThere, Next,
             ~aborted, faults' = faults, pc \notin {"down", "done"}
      PROVE  /\ exc' = "error" /\ exc # "error" =>
                  plan \cap stray # {} \/ cur \notin PartialCleanup
             /\ exc' # "unsafe"
             /\ pc = "run" /\ pc' = "caught" => cp = "threw"
             /\ pc \notin {"run", "caught"} /\ pc' = "down" => pc = "verify" /\ stray # {}
  <2>1. RunTypeOK /\ StepInv /\ ~Fault /\ ~WriteFails
    BY <1>1, CopyAssumption DEF BundleInv, RunTypeOK, CopyTypeOK, Fault, WriteFails
  <2>2. exc' # "unsafe"
    BY <1>1, <2>1, NextStaysSound DEF SoundCopy
  <2>3. ASSUME exc' = "error", exc # "error" PROVE RunStep
    BY <1>1, <2>3 DEF Next, Process, Start, CreateCheckpoint, CreateCheckpointFails, Resume,
       ResumeRefused, CleanInterrupted, CleanInterruptedFails, EnterStep, EnterStepFails,
       BranchGoesOn, LateBranch, CompleteStep, CompleteStepFails, RecordCompleted,
       RecordCompletedFails, StepThrew, RecordFailed, RecordFailedFails, WriteCoverage,
       WriteIndex, WriteManifest, VerifyBundle, FinalizeFails, Publish, Crash, Damage,
       SourceMoves, SourceChanges, AbortRun, Abort, Ends, copyVars, copyControl
  <2>4. ASSUME pc = "run", pc' = "caught" PROVE cp = "threw"
    <3>1. CompleteStepFails \/ StepThrew
      BY <1>1, <2>4 DEF Next, Process, Start, CreateCheckpoint, CreateCheckpointFails, Resume,
         ResumeRefused, CleanInterrupted, CleanInterruptedFails, EnterStep, EnterStepFails,
         RunStep, BranchGoesOn, CompleteStep, RecordCompleted,
         RecordCompletedFails, RecordFailed, RecordFailedFails, WriteCoverage,
         WriteIndex, WriteManifest, VerifyBundle, FinalizeFails, Publish, Crash, Damage,
         SourceMoves, AbortRun, Ends, runVars, gone
    <3>2. ~CompleteStepFails
      BY <1>1, <2>1, ListedIsThere DEF CompleteStepFails
    <3>. QED
      BY <3>1, <3>2 DEF StepThrew
  <2>5. ASSUME pc \notin {"run", "caught"}, pc' = "down" PROVE pc = "verify" /\ stray # {}
    <3>1. FinalizeFails
      BY <1>1, <2>1, <2>5 DEF Next, Process, Start, CreateCheckpoint, CreateCheckpointFails,
         Resume, ResumeRefused, CleanInterrupted, CleanInterruptedFails, EnterStep,
         EnterStepFails, RunStep, BranchGoesOn, CompleteStep, CompleteStepFails,
         RecordCompleted, RecordCompletedFails, StepThrew, RecordFailed, RecordFailedFails,
         WriteCoverage, WriteIndex, WriteManifest, VerifyBundle, Publish, Crash, Damage,
         SourceMoves, AbortRun, runVars, gone
    <3>. QED
      BY <1>1, <2>1, <3>1 DEF FinalizeFails, SealsWhatIsThere
  <2>. QED
    BY <1>1, <2>1, <2>2, <2>3, <2>4, <2>5, ErrorsHaveAReason
<1>2. Init => SoundCopy /\ SealsWhatIsThere
  BY DEF Init, SoundCopy, SealsWhatIsThere
<1>3. BundleInv /\ SoundCopy /\ SealsWhatIsThere /\ [Next]_vars => SoundCopy' /\ SealsWhatIsThere'
  <2>1. UNCHANGED vars /\ SoundCopy /\ SealsWhatIsThere => SoundCopy' /\ SealsWhatIsThere'
    BY DEF vars, copyVars, runVars, workspace, SoundCopy, SealsWhatIsThere, Verifies
  <2>. QED
    BY <2>1, NextStaysSound DEF BundleInv
<1>4. Spec => [](SoundCopy /\ SealsWhatIsThere)
  BY <1>2, <1>3, BundleInvariant, PTL DEF Spec
<1>5. BundleInv /\ SoundCopy /\ SealsWhatIsThere /\ [Next]_vars
      => [~aborted /\ faults' = faults /\ pc \notin {"down", "done"} =>
            /\ exc' = "error" /\ exc # "error" =>
                 plan \cap stray # {} \/ cur \notin PartialCleanup
            /\ exc' # "unsafe"
            /\ pc = "run" /\ pc' = "caught" => cp = "threw"
            /\ pc \notin {"run", "caught"} /\ pc' = "down" => pc = "verify" /\ stray # {}]_vars
  BY <1>1
<1>. QED
  BY <1>4, <1>5, BundleInvariant, PTL DEF Spec, RunStopsForAReason

-----------------------------------------------------------------------------
\* What is left of a process.

(* The steps the process itself can still take: for every step of the run   *)
(* that is not completed a whole copy and the records around it, and the    *)
(* finalization.                                                            *)
Waiting == {s \in Steps : ~Completed(mem, s)}
StepCost == (MaxRetries + 1) * AttemptSteps + 4
RunLeft ==
  CASE pc = "create" -> NSteps * StepCost + 7
    [] pc = "steps" -> Cardinality(Waiting) * StepCost + 6
    [] pc = "enter" -> Cardinality(Waiting) * StepCost + 5
    [] pc = "run" -> (Cardinality(Waiting) - 1) * StepCost + 8 + StepsLeft
    [] pc = "record" -> Cardinality(Waiting) * StepCost + 7
    [] pc = "index" -> 4
    [] pc = "manifest" -> 3
    [] pc = "verify" -> 2
    [] pc \in {"publish", "caught"} -> 1
    [] pc \in {"down", "coverage", "done"} -> 0

Counted ==
  ~Start /\ ~Resume =>
    /\ RunLeft' \in Nat /\ RunLeft' <= RunLeft
    /\ Process /\ ~BranchGoesOn => RunLeft' < RunLeft

ProcessStepsAreCounted == [][Counted]_vars

LEMMA WaitingCounted ==
  ASSUME mem \in [Steps -> StepRecord]
  PROVE  /\ IsFiniteSet(Waiting) /\ Cardinality(Waiting) \in Nat
         /\ Cardinality(Waiting) <= NSteps
         /\ \A s \in Waiting : Cardinality(Waiting \ {s}) = Cardinality(Waiting) - 1
                               /\ Cardinality(Waiting) - 1 \in Nat
<1>1. IsFiniteSet(Steps) /\ Cardinality(Steps) = NSteps
  BY CopyAssumption, FS_Interval DEF Steps
<1>2. Waiting \in SUBSET Steps
  BY DEF Waiting
<1>3. IsFiniteSet(Waiting) /\ Cardinality(Waiting) \in Nat /\ Cardinality(Waiting) <= NSteps
  BY <1>1, <1>2, FS_Subset, FS_CardinalityType
<1>4. ASSUME NEW s \in Waiting
      PROVE  Cardinality(Waiting \ {s}) = Cardinality(Waiting) - 1
             /\ Cardinality(Waiting) - 1 \in Nat
  <2>1. Cardinality(Waiting \ {s}) = Cardinality(Waiting) - 1 /\ IsFiniteSet(Waiting \ {s})
    BY <1>3, FS_RemoveElement
  <2>. QED
    BY <2>1, FS_CardinalityType
<1>. QED
  BY <1>3, <1>4

(* A first attempt costs no more than all of them.                          *)
LEMMA CopyIsCovered ==
  ASSUME CopyTypeOK
  PROVE  /\ StepCost \in Nat /\ StepsLeft \in Nat
         /\ attempt = 1 => StepsLeft + 4 <= StepCost
<1>1. /\ Cardinality(plan) \in Nat /\ Cardinality(Artifacts) \in Nat
      /\ Cardinality(plan) <= Cardinality(Artifacts)
  BY PlansAreCounted
<1>2. LeftOfAttempt \in Nat /\ AttemptSteps \in Nat /\ LeftOfAttempt <= AttemptSteps
  BY <1>1 DEF LeftOfAttempt, AttemptSteps, CopyTypeOK, ControlPoints
<1>3. MaxRetries \in Nat /\ MaxRetries + 1 - attempt \in Nat
  BY CopyAssumption DEF CopyTypeOK
<1>4. ASSUME NEW n \in Nat, NEW w \in Nat
      PROVE  n * w \in Nat /\ (n + 1) * w \in Nat /\ (n + 1) * w = n * w + w
  OBVIOUS
<1>5. StepCost \in Nat /\ StepsLeft \in Nat
  BY <1>2, <1>3, <1>4 DEF StepCost, StepsLeft
<1>6. attempt = 1 => StepsLeft = MaxRetries * AttemptSteps + LeftOfAttempt
  BY <1>3 DEF StepsLeft
<1>7. StepCost = MaxRetries * AttemptSteps + AttemptSteps + 4
  BY <1>2, <1>3, <1>4 DEF StepCost
<1>8. ASSUME NEW i \in Nat, NEW j \in Nat, NEW k \in Nat, j <= k
      PROVE  (i + j) + 4 <= i + k + 4
  BY <1>8
<1>9. MaxRetries * AttemptSteps \in Nat
  BY <1>2, <1>3
<1>. QED
  BY <1>2, <1>5, <1>6, <1>7, <1>8, <1>9, Zenon

(* Products are numbers, and one step more costs one StepCost more.         *)
LEMMA CostsAdd ==
  ASSUME NEW n \in Nat, NEW w \in Nat
  PROVE  n * w \in Nat /\ (n > 0 => (n - 1) * w \in Nat /\ (n - 1) * w + w = n * w)
OBVIOUS

LEMMA RunLeftTyped ==
  ASSUME RunTypeOK, CapturesInv
  PROVE  /\ RunLeft \in Nat
         /\ Cardinality(Waiting) * StepCost \in Nat
         /\ pc = "run" => /\ cur \in Waiting
                          /\ (Cardinality(Waiting) - 1) * StepCost \in Nat
<1>1. /\ Cardinality(Waiting) \in Nat /\ StepCost \in Nat /\ StepsLeft \in Nat /\ NSteps \in Nat
  BY WaitingCounted, CopyIsCovered, CopyAssumption DEF RunTypeOK
<1>2. Cardinality(Waiting) * StepCost \in Nat /\ NSteps * StepCost \in Nat
  BY <1>1, CostsAdd
<1>3. ASSUME pc = "run"
      PROVE  cur \in Waiting /\ (Cardinality(Waiting) - 1) * StepCost \in Nat
  <2>1. cur \in Waiting
    BY <1>3 DEF CapturesInv, NextStep, Waiting, RunTypeOK, CopyTypeOK
  <2>2. Cardinality(Waiting) - 1 \in Nat
    BY <2>1, WaitingCounted DEF RunTypeOK
  <2>. QED
    BY <1>1, <2>1, <2>2, CostsAdd
<1>4. ASSUME pc # "run" PROVE RunLeft \in Nat
  BY <1>1, <1>2, <1>4 DEF RunLeft, RunTypeOK, PCs
<1>5. ASSUME pc = "run" PROVE RunLeft \in Nat
  <2>1. RunLeft = (Cardinality(Waiting) - 1) * StepCost + 8 + StepsLeft
    BY <1>5 DEF RunLeft
  <2>. QED
    BY <1>1, <1>3, <1>5, <2>1
<1>. QED
  BY <1>2, <1>3, <1>4, <1>5

LEMMA RunLeftIsCounted == RunTypeOK /\ CapturesInv => RunLeft \in Nat
BY RunLeftTyped

LEMMA FirstAttemptIsCovered ==
  CopyTypeOK => StepsLeft \in Nat /\ (attempt = 1 => StepsLeft + 4 <= StepCost)
BY CopyIsCovered

LEMMA RunStepIsCounted ==
  ASSUME RunTypeOK, RunTypeOK', RunStep
  PROVE  StepsLeft' \in Nat /\ StepsLeft' < StepsLeft
<1>1. CASE Copying
  BY <1>1, CopyingIsCounted DEF RunTypeOK
<1>2. CASE ~Copying
  <2>1. BareStepReturns \/ BareStepFails
    BY <1>2 DEF RunStep, Copying
  <2>2. UNCHANGED attempt /\ cp = "copying" /\ cp' \in {"returned", "threw"}
    BY <2>1 DEF BareStepReturns, BareStepFails, CopyError
  <2>3. LeftOfAttempt \in Nat /\ LeftOfAttempt' \in Nat /\ LeftOfAttempt' < LeftOfAttempt
    <3>1. Cardinality(plan) \in Nat
      BY PlansAreCounted DEF RunTypeOK
    <3>. QED
      BY <2>2, <3>1 DEF LeftOfAttempt
  <2>. QED
    BY <2>2, <2>3, AttemptGoesOn DEF RunTypeOK
<1>. QED
  BY <1>1, <1>2

(* A step of the process costs something.                                   *)
LEMMA ProcessIsCounted ==
  ASSUME RunTypeOK, RunTypeOK', CapturesInv, CapturesInv', Process, ~Start, ~BranchGoesOn
  PROVE  RunLeft' < RunLeft
<1> DEFINE u == Cardinality(Waiting)
<1>1. /\ u \in Nat /\ StepCost \in Nat /\ u * StepCost \in Nat /\ NSteps * StepCost \in Nat
      /\ RunLeft \in Nat /\ RunLeft' \in Nat
  <2>1. u \in Nat /\ StepCost \in Nat /\ u * StepCost \in Nat /\ RunLeft \in Nat
    BY WaitingCounted, CopyIsCovered, RunLeftTyped DEF RunTypeOK
  <2>2. NSteps * StepCost \in Nat
    BY <2>1, CostsAdd, CopyAssumption
  <2>3. (RunLeft \in Nat)'
    BY RunLeftIsCounted, PTL
  <2>. QED
    BY <2>1, <2>2, <2>3
<1>2. UNCHANGED mem => Waiting' = Waiting
  BY DEF Waiting, Completed
<1>3. ASSUME pc' = "down", pc # "down" PROVE pc \in {"coverage", "done"} \/ RunLeft' < RunLeft
  <2>1. RunLeft' = 0
    BY <1>3 DEF RunLeft
  <2>2. pc \notin {"coverage", "done"} => RunLeft # 0
    <3>1. pc = "run" => RunLeft = (u - 1) * StepCost + 8 + StepsLeft /\ StepsLeft \in Nat
                        /\ (u - 1) * StepCost \in Nat
      BY CopyIsCovered, RunLeftTyped DEF RunLeft, RunTypeOK
    <3>2. pc # "run" /\ pc \notin {"coverage", "done"} => RunLeft > 0
      BY <1>1, <1>3 DEF RunLeft, RunTypeOK, PCs
    <3>. QED
      BY <1>1, <3>1, <3>2
  <2>. QED
    BY <1>1, <2>1, <2>2
<1>4. CASE CreateCheckpoint
  <2>1. pc = "create" /\ pc' = "steps" /\ mem' \in [Steps -> StepRecord]
    BY <1>4 DEF CreateCheckpoint, RunTypeOK
  <2>2. Waiting' = Steps
    BY <1>4 DEF CreateCheckpoint, Waiting, Completed, FreshSteps
  <2>3. Cardinality(Steps) = NSteps
    BY CopyAssumption, FS_Interval DEF Steps
  <2>4. RunLeft = NSteps * StepCost + 7 /\ RunLeft' = NSteps * StepCost + 6
    BY <2>1, <2>2, <2>3 DEF RunLeft, StepCost, AttemptSteps
  <2>. QED
    BY <1>1, <2>4
<1>5. CASE \E s \in Steps : CleanInterrupted(s)
  <2>1. pc = "steps" /\ pc' = "enter" /\ UNCHANGED mem
    BY <1>5 DEF CleanInterrupted
  <2>2. RunLeft = u * StepCost + 6 /\ RunLeft' = u * StepCost + 5
    BY <1>2, <2>1 DEF RunLeft, StepCost, AttemptSteps
  <2>. QED
    BY <1>1, <2>2
<1>6. CASE \E s \in Steps : EnterStep(s)
  <2>1. PICK s \in Steps : EnterStep(s)
    BY <1>6
  <2>2. s \in Waiting /\ Waiting' = Waiting
    BY <2>1 DEF EnterStep, Entering, NextStep, Waiting, Completed, Transition, RunTypeOK,
       StepRecord
  <2>3. pc \in {"steps", "enter"} /\ pc' = "run" /\ attempt' = 1
    BY <2>1 DEF EnterStep, Entering
  <2>4. StepsLeft' \in Nat /\ StepsLeft' + 4 <= StepCost
    <3>1. CopyTypeOK'
      BY DEF RunTypeOK
    <3>2. (CopyTypeOK => StepsLeft \in Nat /\ (attempt = 1 => StepsLeft + 4 <= StepCost))'
      BY FirstAttemptIsCovered, PTL
    <3>. QED
      BY <2>3, <3>1, <3>2 DEF StepCost, AttemptSteps
  <2>5. u > 0 /\ (u - 1) * StepCost \in Nat /\ (u - 1) * StepCost + StepCost = u * StepCost
    <3>1. u - 1 \in Nat
      BY <2>2, WaitingCounted DEF RunTypeOK
    <3>2. u > 0
      BY <1>1, <3>1
    <3>. QED
      BY <1>1, <3>2, CostsAdd
  <2>6. RunLeft' = (u - 1) * StepCost + 8 + StepsLeft'
    BY <2>2, <2>3 DEF RunLeft, StepCost, AttemptSteps
  <2>7. RunLeft \in {u * StepCost + 6, u * StepCost + 5}
    BY <2>3 DEF RunLeft
  <2>8. ASSUME NEW i \in Nat, NEW k \in Nat, NEW l \in Nat, l + 4 <= k
        PROVE  i + 8 + l < i + k + 5 /\ i + 8 + l < i + k + 6
    BY <2>8
  <2>. QED
    BY <1>1, <2>4, <2>5, <2>6, <2>7, <2>8, Zenon
<1>7. CASE RunStep
  <2>1. pc = "run" /\ UNCHANGED <<pc, mem>>
    BY <1>7 DEF RunStep, runVars
  <2>2. /\ RunLeft = (u - 1) * StepCost + 8 + StepsLeft
        /\ RunLeft' = (u - 1) * StepCost + 8 + StepsLeft'
    BY <1>2, <2>1 DEF RunLeft, StepCost, AttemptSteps
  <2>3. (u - 1) * StepCost \in Nat
    BY <2>1, RunLeftTyped
  <2>4. StepsLeft \in Nat /\ StepsLeft' \in Nat /\ StepsLeft' < StepsLeft
    BY <1>7, RunStepIsCounted, CopyIsCovered DEF RunTypeOK
  <2>. QED
    BY <2>2, <2>3, <2>4
<1>8. CASE CompleteStep
  <2>1. pc = "run" /\ pc' = "record" /\ cur \in Waiting
    BY <1>8, RunLeftTyped DEF CompleteStep
  <2>2. Waiting' = Waiting \ {cur}
    BY <1>8, <2>1 DEF CompleteStep, Waiting, Completed, RunTypeOK
  <2>3. Cardinality(Waiting)' = u - 1 /\ (u - 1) * StepCost \in Nat
    BY <2>1, <2>2, WaitingCounted, RunLeftTyped DEF RunTypeOK
  <2>4. RunLeft' = (u - 1) * StepCost + 7
    BY <2>1, <2>3 DEF RunLeft, StepCost, AttemptSteps
  <2>5. RunLeft = (u - 1) * StepCost + 8 + StepsLeft /\ StepsLeft \in Nat
    BY <2>1, CopyIsCovered DEF RunLeft, RunTypeOK
  <2>. QED
    BY <2>3, <2>4, <2>5
<1>9. CASE RecordCompleted
  <2>1. pc = "record" /\ pc' = "steps" /\ UNCHANGED mem
    BY <1>9 DEF RecordCompleted
  <2>2. RunLeft = u * StepCost + 7 /\ RunLeft' = u * StepCost + 6
    BY <1>2, <2>1 DEF RunLeft, StepCost, AttemptSteps
  <2>. QED
    BY <1>1, <2>2
<1>10. CASE CompleteStepFails \/ StepThrew
  <2>1. pc = "run" /\ pc' = "caught"
    BY <1>10 DEF CompleteStepFails, StepThrew
  <2>2. RunLeft = (u - 1) * StepCost + 8 + StepsLeft /\ StepsLeft \in Nat /\ RunLeft' = 1
    BY <2>1, CopyIsCovered DEF RunLeft, RunTypeOK
  <2>3. (u - 1) * StepCost \in Nat
    BY <2>1, RunLeftTyped
  <2>. QED
    BY <2>2, <2>3
<1>11. CASE WriteCoverage \/ WriteIndex \/ WriteManifest \/ VerifyBundle \/ Publish
  <2>1. \/ pc = "steps" /\ pc' = "index"
        \/ pc = "index" /\ pc' = "manifest"
        \/ pc = "manifest" /\ pc' = "verify"
        \/ pc = "verify" /\ pc' = "publish"
        \/ pc = "publish" /\ pc' = "done"
    BY <1>11 DEF WriteCoverage, WriteIndex, WriteManifest, VerifyBundle, Publish
  <2>2. pc = "steps" => RunLeft = u * StepCost + 6
    BY DEF RunLeft
  <2>3. ASSUME pc # "steps" PROVE RunLeft' < RunLeft
    <3>1. RunLeft \in 1..4 /\ RunLeft' = RunLeft - 1
      BY <2>1, <2>3 DEF RunLeft
    <3>. QED
      BY <3>1
  <2>4. pc = "steps" => RunLeft' = 4
    BY <2>1 DEF RunLeft
  <2>. QED
    BY <1>1, <2>2, <2>3, <2>4
<1>12. CASE \/ CreateCheckpointFails \/ RecordCompletedFails \/ RecordFailed \/ RecordFailedFails
            \/ FinalizeFails
            \/ \E s \in Steps : CleanInterruptedFails(s) \/ EnterStepFails(s)
  <2>1. pc' = "down" /\ pc \notin {"down", "coverage", "done"}
    BY <1>12 DEF CreateCheckpointFails, RecordCompletedFails, RecordFailed, RecordFailedFails,
       FinalizeFails, CleanInterruptedFails, EnterStepFails, Entering, Ends
  <2>. QED
    BY <1>3, <2>1
<1>. QED
  BY <1>4, <1>5, <1>6, <1>7, <1>8, <1>9, <1>10, <1>11, <1>12 DEF Process

(* A process of a run, once it is started or resumed, takes no more than    *)
(* NSteps * StepCost + 7 steps of its own, and no change of the source, no  *)
(* branch of a failed copy and no abort gives it more to do                 *)
(* (executeBackup).                                                         *)
THEOREM ProcessStepsAreBounded == Spec => ProcessStepsAreCounted
<1>1. ASSUME RunTypeOK, RunTypeOK', CapturesInv, CapturesInv', Next, ~Start, ~Resume
      PROVE  /\ RunLeft' \in Nat /\ RunLeft' <= RunLeft
             /\ Process /\ ~BranchGoesOn => RunLeft' < RunLeft
  <2>1. RunLeft \in Nat /\ (RunLeft \in Nat)'
    BY <1>1, RunLeftIsCounted, PTL
  <2>2. CASE Process /\ ~BranchGoesOn
    BY <1>1, <2>1, <2>2, ProcessIsCounted
  <2>3. CASE ~(Process /\ ~BranchGoesOn)
    <3>1. CASE Crash
      <4>1. RunLeft' = 0
        BY <3>1 DEF Crash, Ends, RunLeft
      <4>. QED
        BY <2>1, <2>3, <4>1
    <3>2. CASE ~Crash
      <4>1. UNCHANGED <<pc, mem, cp, attempt, plan>>
        BY <1>1, <2>3, <3>2 DEF Next, ResumeRefused, Damage, SourceMoves, AbortRun, BranchGoesOn,
           LateBranch, SourceChanges, Abort, copyVars, copyControl, runVars
      <4>2. RunLeft' = RunLeft
        BY <4>1 DEF RunLeft, Waiting, Completed, StepCost, AttemptSteps, StepsLeft,
           LeftOfAttempt
      <4>. QED
        BY <2>1, <2>3, <4>2
    <3>. QED
      BY <3>1, <3>2
  <2>. QED
    BY <2>2, <2>3
<1>2. RunTypeOK /\ RunTypeOK' /\ CapturesInv /\ CapturesInv' /\ [Next]_vars => [Counted]_vars
  BY <1>1 DEF Counted
<1>. QED
  BY <1>2, CapturesInvariant, PTL DEF Spec, ProcessStepsAreCounted

=============================================================================

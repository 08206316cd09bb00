----------------------------- MODULE BackupRun ------------------------------
(***************************************************************************)
(* One backup run to a local directory, over any number of processes:      *)
(* executeBackup (core/backup/coordinator.ts) with the checkpoint of       *)
(* core/checkpoint/backup.ts, finalizeBundle and verifyBundle, and the     *)
(* removal of the checkpoint by publishBackupOutput.  Each step is copied  *)
(* by ConsistentCopy.  A process may crash, fail or be aborted between any *)
(* two of its durable effects and a later process resumes from the         *)
(* checkpoint file; between processes the workspace may be damaged.        *)
(*                                                                         *)
(* hasCkpt, ckpt, files, temps, index, sealed and manifest are on disk;    *)
(* pc, mem and the copy's control variables die with the process.          *)
(***************************************************************************)
EXTENDS ConsistentCopy

CONSTANT Shared   \* Shared[s]: files step s lists though an earlier step wrote them

ASSUME BackupAssumption ==
  /\ \A c \in Configs :
       c.mode # "best-effort" => c.cleaned = Steps  \* assertConsistencyAdapters
  /\ Shared \in [Steps -> SUBSET Mandatory]
  /\ \A s \in Steps : \A a \in Shared[s] : \E t \in Steps : t < s /\ a \in Owns[t]

VARIABLES
  pc,        \* where executeBackup stands, "down" between processes
  mem,       \* the checkpoint in memory
  hasCkpt,   \* the checkpoint file exists
  ckpt,      \* its steps
  index,     \* checksums.sha256: the files and contents it lists
  sealed,    \* manifest.json exists
  manifest,  \* coverage.json and manifest.json: files per step, digest, label
  outcome    \* how the last process ended

runVars == <<pc, mem, hasCkpt, ckpt, index, sealed, manifest, outcome>>
disk == <<hasCkpt, ckpt, index, sealed, manifest>>
copyControl == <<cur, cp, attempt, before, drift, plan, made, exc>>
vars == <<copyVars, runVars>>

NoFiles == [a \in Artifacts |-> Absent]
Statuses == {"pending", "in_progress", "completed", "failed"}
StepRecord == [status : Statuses, art : [Artifacts -> Contents], drift : BOOLEAN]
Labels == {"verified", "quiesced", "best_effort", "drift_detected"}
PCs == {"down", "create", "steps", "enter", "run", "record", "caught",
        "coverage", "index", "manifest", "verify", "publish", "done"}
Outcomes == {"none", "completed", "crashed", "failed", "aborted",
             "OPERATION_CANCELLED", "RESUME_STATE_INVALID"}

FreshSteps ==
  [s \in Steps |-> [status |-> "pending", art |-> NoFiles, drift |-> FALSE]]

RunTypeOK ==
  /\ CopyTypeOK
  /\ pc \in PCs
  /\ mem \in [Steps -> StepRecord]
  /\ hasCkpt \in BOOLEAN
  /\ ckpt \in [Steps -> StepRecord]
  /\ index \in [Artifacts -> Contents]
  /\ sealed \in BOOLEAN
  /\ manifest \in [art : [Steps -> [Artifacts -> Contents]],
                   index : [Artifacts -> Contents], label : Labels]
  /\ outcome \in Outcomes

-----------------------------------------------------------------------------

Completed(m, s) == m[s].status = "completed"
AllCompleted(m) == \A s \in Steps : Completed(m, s)

\* The loop over options.steps skips what is completed.
NextStepAgain(m, s) ==   \* mutant: it does not
  \A t \in Steps : t < s => Completed(m, t)
NextStep(m, s) == ~Completed(m, s) /\ \A t \in Steps : t < s => Completed(m, t)

\* loadBackupCheckpoint: every file of a completed step still has its hash.
Intact(m) ==
  \A s \in Steps : Completed(m, s) =>
    \A a \in Artifacts : m[s].art[a] # Absent => files[a] = m[s].art[a]

\* consistencyResult
LabelIgnoringDrift(m) == IF Mode # "best-effort" THEN Mode ELSE "best_effort"  \* mutant
Label(m) ==
  IF Mode # "best-effort" THEN Mode
  ELSE IF \E s \in Steps : m[s].drift THEN "drift_detected" ELSE "best_effort"

\* transitionCheckpointStep, for a step that is not completed
Transition(m, s, status) ==
  [m EXCEPT ![s] = [@ EXCEPT !.status = status]]

\* The files step cur reports, with the hashes describeCheckpointArtifact takes.
Listed == made \cup Shared[cur]
Described == [a \in Artifacts |-> IF a \in Listed THEN files[a] ELSE Absent]

\* executeBackup is over, and the memory of the run lost.
Ends(o) ==
  /\ pc' = "down" /\ outcome' = o
  /\ aborted' = FALSE /\ mem' = FreshSteps
  /\ cur' = 1 /\ cp' = "idle" /\ attempt' = 1 /\ before' = [s \in Steps |-> 1]
  /\ drift' = FALSE /\ plan' = {} /\ made' = {} /\ exc' = "none"

\* The process itself goes with the last branch: main sets process.exitCode only.
gone == pc = "down" /\ late = {}

AbortedOr(o) == IF aborted THEN "aborted" ELSE o

\* A write under the signal throws: it was aborted, or the disk refused.
WriteFails == (aborted /\ UNCHANGED faults) \/ Fault

-----------------------------------------------------------------------------
\* Starting and resuming.

Start ==
  /\ pc = "down" /\ outcome = "none"
  /\ pc' = "create"
  /\ UNCHANGED <<copyVars, mem, disk, outcome>>

CreateCheckpoint ==
  /\ pc = "create" /\ ~aborted
  /\ hasCkpt' = TRUE /\ ckpt' = FreshSteps /\ mem' = FreshSteps
  /\ pc' = "steps"
  /\ UNCHANGED <<copyVars, index, sealed, manifest, outcome>>

CreateCheckpointFails ==
  /\ pc = "create" /\ WriteFails
  /\ Ends(AbortedOr("failed"))
  /\ UNCHANGED <<config, src, workspace, late, temps, disk>>

Resume ==
  /\ gone /\ hasCkpt /\ Intact(ckpt)
  /\ mem' = ckpt /\ pc' = "steps"
  /\ UNCHANGED <<copyVars, disk, outcome>>

ResumeRefused ==
  /\ gone /\ hasCkpt /\ ~Intact(ckpt)
  /\ outcome' = "RESUME_STATE_INVALID"
  /\ UNCHANGED <<copyVars, disk, pc, mem>>

-----------------------------------------------------------------------------
\* One step of the loop.

\* cleanupInterruptedStepBeforeResume: only a resumed process meets a step
\* that is neither pending nor completed.
NeedsCleanupIfFailed(s) ==   \* mutant: a crash leaves "in_progress"
  mem[s].status = "failed" /\ s \in PartialCleanup
NeedsCleanup(s) == mem[s].status # "pending" /\ s \in PartialCleanup

CleanInterrupted(s) ==
  /\ pc = "steps" /\ NextStep(mem, s) /\ NeedsCleanup(s) /\ ~aborted
  /\ Remove(Scope(s))
  /\ temps' \in {temps, temps \ Owns[s]}
  /\ pc' = "enter"
  /\ UNCHANGED <<config, src, late, aborted, faults, copyControl, mem, disk, outcome>>

CleanInterruptedFails(s) ==
  /\ pc = "steps" /\ NextStep(mem, s) /\ NeedsCleanup(s) /\ WriteFails
  /\ \E R \in SUBSET Scope(s) : Remove(R)
  /\ Ends(AbortedOr("failed"))
  /\ UNCHANGED <<config, src, late, temps, disk>>

Entering(s) ==
  /\ NextStep(mem, s)
  /\ pc = "enter" \/ (pc = "steps" /\ ~NeedsCleanup(s))

\* in_progress is durable before the step runs.  A step without an adapter
\* (best-effort only) runs with no snapshot around it.
EnterStep(s) ==
  /\ Entering(s) /\ ~aborted
  /\ mem' = Transition(mem, s, "in_progress") /\ ckpt' = mem'
  /\ pc' = "run" /\ cur' = s /\ attempt' = 1 /\ drift' = FALSE /\ made' = {}
  /\ IF s \in Adapted THEN cp' = "snapshot" /\ plan' = {}
                      ELSE cp' = "copying" /\ plan' \in CopyPlans(s)
  /\ UNCHANGED <<environment, before, exc, hasCkpt, index, sealed, manifest, outcome>>

EnterStepFails(s) ==
  /\ Entering(s) /\ WriteFails
  /\ Ends(AbortedOr("failed"))
  /\ UNCHANGED <<config, src, workspace, late, temps, disk>>

BareStepReturns ==
  /\ cp = "copying" /\ plan = {}
  /\ cp' = "returned"
  /\ UNCHANGED <<environment, cur, attempt, before, drift, plan, made, exc>>

BareStepFails ==
  /\ CopyError("error") /\ LeaveBranches
  /\ cp' = "threw" /\ exc' = "error"
  /\ UNCHANGED <<config, src, workspace, temps, aborted, cur, attempt, before,
                 drift, plan, made>>

\* executeStep
RunStep ==
  /\ pc = "run"
  /\ \/ cur \in Adapted /\ Copying
     \/ cur \notin Adapted /\ ((\E a \in Artifacts : WriteArtifact(a))
                               \/ BareStepReturns \/ BareStepFails)
  /\ UNCHANGED runVars

\* The artifacts are hashed and the step is completed, in memory.
CompleteStep ==
  /\ pc = "run" /\ cp = "returned" /\ ~aborted
  /\ \A a \in Listed : files[a] # Absent
  /\ mem' = [mem EXCEPT ![cur] =
               [status |-> "completed", art |-> Described, drift |-> drift]]
  /\ pc' = "record"
  /\ UNCHANGED <<copyVars, disk, outcome>>

CompleteStepFails ==
  /\ pc = "run" /\ cp = "returned"
  /\ WriteFails \/ ((\E a \in Listed : files[a] = Absent) /\ UNCHANGED faults)
  /\ mem' = Transition(mem, cur, "failed")
  /\ pc' = "caught"
  /\ UNCHANGED <<config, src, workspace, late, temps, aborted, copyControl, disk, outcome>>

RecordCompleted ==
  /\ pc = "record" /\ ~aborted
  /\ ckpt' = mem
  /\ pc' = "steps" /\ cp' = "idle"
  /\ UNCHANGED <<environment, cur, attempt, before, drift, plan, made, exc,
                 mem, hasCkpt, index, sealed, manifest, outcome>>

\* The write of the completed step throws.  The handler then asks for the
\* transition from completed to failed, which transitionCheckpointStep
\* refuses: that refusal is the error the caller sees.
RecordCompletedFails ==
  /\ pc = "record" /\ WriteFails
  /\ Ends("RESUME_STATE_INVALID")
  /\ UNCHANGED <<config, src, workspace, late, temps, disk>>

StepThrew ==
  /\ pc = "run" /\ cp = "threw"
  /\ mem' = Transition(mem, cur, "failed")
  /\ pc' = "caught"
  /\ UNCHANGED <<copyVars, disk, outcome>>

\* The failure is written without the signal, then thrown.
RecordFailed ==
  /\ pc = "caught"
  /\ ckpt' = mem
  /\ Ends(IF aborted THEN "OPERATION_CANCELLED" ELSE "failed")
  /\ UNCHANGED <<config, src, workspace, late, temps, faults, hasCkpt, index, sealed, manifest>>

RecordFailedFails ==
  /\ pc = "caught" /\ Fault
  /\ Ends("failed")
  /\ UNCHANGED <<config, src, workspace, late, temps, disk>>

-----------------------------------------------------------------------------
\* Finalization: coverage.json, checksums.sha256, manifest.json last.

WriteCoverage ==
  /\ pc = "steps" /\ AllCompleted(mem) /\ ~aborted
  /\ pc' = "index"
  /\ UNCHANGED <<copyVars, mem, disk, outcome>>

\* Mutant: regularFiles leaves writer temporaries where they are.
WriteIndexOverTemps ==
  /\ pc = "index" /\ ~aborted
  /\ index' = files
  /\ pc' = "manifest"
  /\ UNCHANGED <<environment, copyControl, mem, hasCkpt, ckpt, sealed, manifest, outcome>>

\* regularFiles drops writer temporaries; every file coverage lists must be
\* there; every file that is there is hashed.
WriteIndex ==
  /\ pc = "index" /\ ~aborted
  /\ \A s \in Steps : \A a \in Artifacts :
       mem[s].art[a] # Absent => files[a] # Absent
  /\ temps' = {}
  /\ index' = files
  /\ pc' = "manifest"
  /\ UNCHANGED <<config, src, workspace, late, aborted, faults, copyControl,
                 mem, hasCkpt, ckpt, sealed, manifest, outcome>>

WriteManifest ==
  /\ pc = "manifest" /\ ~aborted
  /\ sealed' = TRUE
  /\ manifest' = [art |-> [s \in Steps |-> mem[s].art],
                  index |-> index, label |-> Label(mem)]
  /\ pc' = "verify"
  /\ UNCHANGED <<copyVars, mem, hasCkpt, ckpt, index, outcome>>

\* verifyBundle: what any later reader of the directory checks.
Verifies ==
  /\ sealed /\ temps = {}
  /\ manifest.index = index
  /\ index = files

VerifyBundle ==
  /\ pc = "verify" /\ Verifies
  /\ pc' = "publish"
  /\ UNCHANGED <<copyVars, mem, disk, outcome>>

FinalizeFails ==
  /\ \/ pc = "steps" /\ AllCompleted(mem) /\ WriteFails
     \/ pc \in {"index", "manifest"} /\ WriteFails
     \/ pc \in {"verify", "publish"} /\ Fault
     \/ pc = "verify" /\ ~Verifies /\ UNCHANGED faults
  /\ Ends(AbortedOr("failed"))
  /\ UNCHANGED <<config, src, workspace, late, temps, disk>>

\* publishBackupOutput for a plain directory: the checkpoint goes, the
\* workspace is the backup.
Publish ==
  /\ pc = "publish"
  /\ hasCkpt' = FALSE
  /\ pc' = "done" /\ outcome' = "completed"
  /\ UNCHANGED <<copyVars, mem, ckpt, index, sealed, manifest>>

-----------------------------------------------------------------------------
\* The world.

\* A crash leaves the temporaries of the writers that were at work.
Crash ==
  /\ pc \notin {"down", "done"} /\ Fault
  /\ \E T \in SUBSET (plan \cup made \cup late \cup {"index"}) : temps' = temps \cup T
  /\ late' = {} /\ Ends("crashed")
  /\ UNCHANGED <<config, src, workspace, disk>>

\* Between processes a captured file is lost or altered.
Damage ==
  /\ gone /\ hasCkpt /\ Fault
  /\ \E s \in Steps, a \in Artifacts, v \in Contents :
       /\ Completed(ckpt, s) /\ ckpt[s].art[a] # Absent /\ files[a] # v
       /\ files' = [files EXCEPT ![a] = v]
  /\ UNCHANGED <<config, src, stray, late, temps, aborted, copyControl, runVars>>

BranchGoesOn == LateBranch /\ UNCHANGED runVars

SourceMoves == pc # "done" /\ SourceChanges /\ UNCHANGED runVars
AbortRun == pc \notin {"down", "done"} /\ Abort /\ UNCHANGED runVars

Process ==
  \/ Start \/ CreateCheckpoint \/ CreateCheckpointFails
  \/ \E s \in Steps : \/ CleanInterrupted(s) \/ CleanInterruptedFails(s)
                      \/ EnterStep(s) \/ EnterStepFails(s)
  \/ RunStep \/ BranchGoesOn
  \/ CompleteStep \/ CompleteStepFails
  \/ RecordCompleted \/ RecordCompletedFails
  \/ StepThrew \/ RecordFailed \/ RecordFailedFails
  \/ WriteCoverage \/ WriteIndex \/ WriteManifest \/ VerifyBundle
  \/ FinalizeFails \/ Publish

Next == Process \/ Resume \/ ResumeRefused
        \/ Crash \/ Damage \/ SourceMoves \/ AbortRun

Init ==
  /\ config \in Configs
  /\ src = [s \in Steps |-> 1]
  /\ files = NoFiles /\ stray = {} /\ late = {} /\ temps = {} /\ aborted = FALSE /\ faults = 0
  /\ cur = 1 /\ cp = "idle" /\ attempt = 1 /\ before = [s \in Steps |-> 1]
  /\ drift = FALSE /\ plan = {} /\ made = {} /\ exc = "none"
  /\ pc = "down" /\ mem = FreshSteps
  /\ hasCkpt = FALSE /\ ckpt = FreshSteps
  /\ index = NoFiles /\ sealed = FALSE
  /\ manifest = [art |-> [s \in Steps |-> NoFiles], index |-> NoFiles,
                 label |-> Label(FreshSteps)]
  /\ outcome = "none"

\* Process: a Node process keeps running its only async function.
\* Resume: the operator resumes as long as there is a checkpoint to resume.
Fairness == WF_vars(Process) /\ WF_vars(Resume)

Spec == Init /\ [][Next]_vars
FairSpec == Spec /\ Fairness

-----------------------------------------------------------------------------

(* While a process works, every artifact of every step it believes          *)
(* completed is in the workspace with the content that was recorded, and    *)
(* the checkpoint file never claims a step the process does not: no retry,  *)
(* cleanup or resume of another step touches captured files                 *)
(* (coordinator.ts, executeBackup; the adapters' cleanup scopes).           *)
CapturesIntact ==
  /\ pc # "down" => Intact(mem)
  /\ pc \notin {"down", "create", "done"} =>
       \A s \in Steps : Completed(ckpt, s) => mem[s] = ckpt[s]

(* No step of the program turns a resumable checkpoint into one that resume *)
(* would refuse: only damage from outside does, also across crashes in the  *)
(* middle of a cleanup or of finalization (loadBackupCheckpoint).           *)
OnlyDamageBreaksResume ==
  [][hasCkpt /\ Intact(ckpt) /\ ~Intact(ckpt)' => pc = "down"]_vars

(* A finished run is a bundle that lists under its steps exactly the files  *)
(* that are there, and verifies: nothing a discarded or interrupted attempt *)
(* wrote is in it (finalizeBundle, verifyBundle).  A file may only stay     *)
(* from a step that has no cleanupPartial, or come from a branch of a       *)
(* failed copy that nobody waited for, which even a sealed bundle may meet. *)
FinishedBundleIsExact ==
  pc = "done" =>
    /\ stray = {} => Verifies
    /\ \A a \in Artifacts :
         LET listed == \E s \in Steps : manifest.art[s][a] # Absent
         IN  /\ listed => files[a] # Absent
             /\ files[a] # Absent => listed \/ a \in stray
                  \/ \E s \in Steps \ PartialCleanup : a \in Owns[s]

(* The consistency label tells the truth: unless the manifest says          *)
(* drift_detected, the files each adapted step captured are one version of  *)
(* each surface, also when the step was retried, interrupted and resumed    *)
(* (consistencyResult, runConsistentCopy).                                  *)
LabelIsHonest ==
  sealed /\ manifest.label # "drift_detected" =>
    \A s \in Adapted : \A a, b \in Owns[s] :
      Surface[a] = Surface[b] /\ Absent \notin {manifest.art[s][a], manifest.art[s][b]}
        => manifest.art[s][a] = manifest.art[s][b]

(* Once the checkpoint exists, an operator who keeps resuming gets a        *)
(* verified backup finished after finitely many failures, unless captured   *)
(* files were damaged: no crash leaves a state that resume cannot get out   *)
(* of (cleanupInterruptedStepBeforeResume, regularFiles).                   *)
EventuallyFinished ==
  (hasCkpt /\ config.mode = "verified")
    ~> (outcome = "completed" \/ ~Intact(ckpt))

(* No process ends for nothing.  What a step was interrupted in is not in   *)
(* the way of its next attempt, what an earlier step captured is there to   *)
(* be listed again, and what is sealed verifies: without drift, only a call *)
(* that fails, an abort, a branch of a failed copy that nobody waited for,  *)
(* or a step without a cleanup stops a run (executeBackup,                  *)
(* cleanupInterruptedStepBeforeResume, finalizeBundle).                     *)
RunStopsForAReason ==
  [][~aborted /\ faults' = faults /\ pc \notin {"down", "done"} =>
       /\ exc' = "error" /\ exc # "error" =>
            plan \cap stray # {} \/ cur \notin PartialCleanup
       /\ exc' # "unsafe"
       /\ pc = "run" /\ pc' = "caught" => cp = "threw"
       /\ pc \notin {"run", "caught"} /\ pc' = "down" => pc = "verify" /\ stray # {}]_vars

(* BackupRun keeps the promise: a step is captured when the checkpoint file *)
(* says so, the bundle is sealed when manifest.json is in place             *)
(* (executeBackup).                                                         *)
Promise == INSTANCE BackupPromise WITH
  Captures <- [Artifacts -> Contents],
  done <- {s \in Steps : sealed \/ Completed(ckpt, s)},
  captured <- [s \in Steps |-> ckpt[s].art],
  bundle <- IF sealed THEN {manifest.art} ELSE {}

KeepsPromise == Promise!Spec

=============================================================================

# TLA+ verification of pgDumpster

pgDumpster backs up a Supabase project into a directory bundle, publishes the bundle
(directory, archive, encrypted archive, S3 object), and restores a bundle into another
project. This directory holds TLA+ models of the program under `src/`, TLC
configurations for them, and theorems checked by TLAPS.

## Inventory

| Part (source) | State it keeps | Operations | What is hard | What makes it correct |
|---|---|---|---|---|
| Consistent copy (`core/backup/consistency.ts`) | attempt, snapshots, drift flag; the step's files | snapshot, copy, compare, cleanup, retry | the source changes under the copy; every phase can fail or be cancelled; a branch of `Promise.all` outlives the failure of another | a copy returned without drift is one version; a failed one leaves nothing; retries are bounded |
| Coordinator (`core/backup/coordinator.ts`) | checkpoint in memory and on disk | start, resume, run step, record, finalize | crash, failure or cancellation between any two effects | captured files survive; resume always possible; the label is honest |
| Checkpoints (`core/checkpoint/*.ts`) | a JSON file, replaced atomically | create, transition, write, load | stale or damaged contents between processes | a completed step is never taken on trust |
| Bundle (`core/bundle/*.ts`) | coverage.json, checksums.sha256, manifest.json, archive, age file | write artifact, index, seal, verify, pack, encrypt, open | interrupted writers, files of discarded attempts | a sealed bundle is exact and verifies |
| Publication (`destination/backup-output.ts`, `destination/s3.ts`) | archive, ciphertext, transport and upload-state files; bucket, multipart uploads, object, marker | publish, resume, upload parts, complete, verify, mark | crash between remote and local effects; existing outputs | never overwrite; never mark an incomplete object; resume finishes |
| Restore plan (`core/restore/plan.ts`) | none (pure) | classify, propagate limits, order | dependency cycles, limits that propagate | an action comes after what it needs and is not offered when that is unavailable |
| Restore executor (`core/restore/executor.ts`) | restore checkpoint; target project | apply, verify, recover, complete | crash between apply and the record of it | an effect is applied at most once; order follows the dependencies |
| Restore handlers (`core/restore/*-handler*.ts`) | target project | preflight, apply, verify | partial effects on a remote system | what verify accepts is what the bundle holds |
| Management API (`supabase/management/*.ts`) | request slots, rate-limit clock | request, retry, list, capture | rate limits, timeouts, ambiguous writes | how a request ended tells what it did; a limit is run into only for a named reason; every request ends |
| Database (`database/*.ts`), storage (`storage/*.ts`) | child processes, temporary files | inventory, dump, restore, download, evidence | failing children, partial files | see the adapters |
| Doctor, CLI, config, errors, redaction | none | checks and wiring | | |

Interactions. `cli/main.ts` starts one process per command: `backup` calls
`executeProductBackup`, which builds the list of steps and calls `executeBackup`; a step
that has a consistency adapter is copied by `runConsistentCopy`; the finished workspace
goes to `publishBackupOutput` and, for an S3 destination, through it to
`publishS3Backup`. `restore` builds the plan and calls `executeRestore` with the
handlers. Processes communicate only through files (checkpoint, workspace, archive,
upload state) and through the remote side (bucket, project), so every crash falls
between two such effects.

## Plan

The order in which the parts are modelled. A module is written to be checked and proved
about: constants with named assumptions, one action per effect, no `RECURSIVE` operator.

1. `ConsistentCopy`: the protocol every captured step relies on. *Done, proved.*
2. `BackupRun` over it: checkpoint, resume, finalization, damage; the abstract
   `BackupPromise`. *Done, proved, the refinement included.*
3. `S3Publication`, and `BackupOutput` composed with it. *Done, proved.*
4. `RestorePlan` with the real tables, `RestoreRun` with every kind of handler. *Done,
   proved.*
5. `BoundedMap`, and the two captures that use it, `EdgeCapture` and `ObjectCapture`, in
   the loop `CaptureLoop`. *Done, proved.*
6. `ManagementClient`: attempts, delays and the limits that requests of one scope share.
   *Done, proved.*
7. Branches that outlive a failed copy, in `ConsistentCopy` and `BackupRun`. *Done, proved.*
8. Open: reading a bundle (`bundle-input.ts`, extraction, decryption), as further actions
   of `BackupOutput`; what a reader accepts is a bundle some run sealed.
9. Open: the database restore in detail (`database/restore.ts`,
    `database-supplement-handlers.ts`), the parity report, the paged lists of specialized
    storage.

## Modules

| Module | Models | State | Actions |
|---|---|---|---|
| `ConsistentCopy` | `core/backup/consistency.ts`, `artifact-sink.ts`, `safe-remove.ts` | `src` (a version per source surface), `files`, `temps`; `late`, what branches of a failed copy may still write, and `stray`, what they wrote; per copy `cp`, `attempt`, `before`, `drift`, `plan`, `made`, `exc` | both snapshots, one action per file written, comparison, the two cleanups, the failure of each, `LateBranch`; `SourceChanges`, `Abort` |
| `BackupRun` (extends it) | `coordinator.ts`, `checkpoint/backup.ts`, `finalize.ts`, `verify.ts` | on disk `hasCkpt`, `ckpt`, `files`, `temps`, `index`, `sealed`, `manifest`; in the process `pc`, `mem` | one action per durable write of `executeBackup`, its failure, `Crash`, `Resume`, `Damage` |
| `BackupPromise` | what a run promises | `done`, `captured`, `bundle` | a step is captured once; a bundle holds exactly what was captured |
| `CapturePromise` | what `runConsistentCopy` promises a step | `mode`, `attempt`, `drift`, `bare`, `consistent`, `state` | work, retry, return, throw, throw over a failed cleanup |
| `S3Publication` | `publishS3Backup`, the acceptance of `materializeS3Backup` | `transport`, `state` on disk; `uploads`, `object`, `marker` in the bucket; per process what it has read | one action per request or local write, expiry of uploads, lost answers, `Restart`, `Repack` |
| `BackupOutput` (extends it) | `destination/backup-output.ts`, `packBundle`, `encryptFile` | `kind`, `ws`, `sealed`, `hasCkpt`, `archive`, `transport` on disk; `pc` of the process | packing, encrypting, publishing, each removal on its own, the error handler, crash and resume |
| `RestorePlan` | `core/restore/plan.ts`, the validation in `executor.ts` | `stage`, `status`, the sweep's `at` and `changed`, `round` | `Assign`, `Visit`, `SweepAgain`/`SweepDone`, `PlaceBatch` |
| `RestoreTables` | `core/coverage/registry.ts`, dependency and phase tables of `plan.ts`, `capabilities.ts` | - | the 55 components as data |
| `RestoreRun` | `executor.ts`, `checkpoint/restore.ts`, the handlers | `target` (per component the units that are the backup's `own`, `alike` to a comparison that leaves something out, `odd`, and `foreign` state; `secrets` in the Vault), `mapped`, `ckpt`; `pc`, `next`, `todo` of the process | begin, reverify, mark, each effect of a handler (what a removed bucket or index holds goes with it), verify, record, recover, crash, resume, changes by others |
| `ManagementClient` | `supabase/management/client.ts` | per request `pc`, `attempt`, `timer`, `result` and what is on the `wire`; per scope `notBefore`; at the platform `window`, `applied`; what the client was told, kept for the property only: `word`, `basis`, `guided` | begin, delay, send, the four kinds of answer, note a limit, retry, abort; `Tick`, others who use up the quota |
| `BoundedMap` | `utils/bounded-concurrency.ts` | `items`, `cursor`, per runner `work`, `gone`, `results`, `firstError`, `stopped`, `mapped` | `Take`, `Deliver`, `Fail`, `Leave`, `Settle`, `Cancel` |
| `CaptureLoop` (extends it) | `runConsistentCopy` around a capture that downloads with `mapBounded` | `mode`, `phase`, `attempt`, `drift`, `exc`, `pc` | the operators the two captures build their actions from |
| `EdgeCapture` (extends it) | `edge.ts`, `edge-source-tree.ts`, `edge-consistency-adapter.ts` | `live`, `digests` at the source; `listed`, `secrets` as read; per runner `stage`; `body`, `torn`, `index`, `digestFile` in the workspace | list requests in any order, detail, download, the rest of its files, second detail, index, comparison, cleanups |
| `ObjectCapture` (extends it) | `storage/catalog.ts`, `download.ts`, `object-evidence.ts`, `file-storage-consistency-adapter.ts`, `fileStorageStep` | `live`, `open` at the source; the two query results; per runner `stage`, `tries`, `got`; the workspace | both queries, request, body, link, removal of the temporary, next attempt, index, cleanups |

Every `MC...` module gives a component its small instance; every `...Proofs` module
holds its theorems. Definitions marked *mutant* are wrong on purpose: each is a
plausible bug of the code, kept next to the definition it would replace to show which
property notices it. No specification uses them.

Correspondence of state. A payload is a version number: two files, objects or rows are
the same when their versions are. Hashes and sizes compare versions. A local directory
is a function from names to versions, `0` when the file is absent. A request to a
service is one action when the program sees only its answer, two when the effect may be
made and the answer lost.

## Runs

| Run | Instance | Shows |
|---|---|---|
| `copy` | two steps sharing a surface, four files, 2 retries, 4 versions, three modes, with and without `cleanupPartial`, one step writing in branches, drift without end | `CapturePromise` is implemented: the result is one version or is reported as drift, only drift is retried, nothing of a failed copy stays but what a late branch writes; the copy ends |
| `backup` | the same two steps, a verified configuration and a best-effort one whose second step writes in branches, 1 retry, 2 versions, 2 faults | captures survive and stay usable, the bundle is exact but for late branches, its label honest, `BackupPromise` is implemented, no process stops without a cause from outside, resuming finishes the run |
| `edge` | two functions, two runners, 1 retry, 2 versions, 1 fault, three modes | index and sources agree, no late writes, `CapturePromise` is implemented: a stable result is one moment |
| `objects` | two objects (one without ETag) in two buckets, 2 attempts per download, 1 fault | indexed objects are stored, a stable result is the snapshot, `CapturePromise` is implemented, an end |
| `s3` | two processes, two parts, two packings, 2 faults, symmetric | what is committed can be fetched, the object is one packing, nothing is overwritten |
| `output` | all five kinds of output, one process at a time, 3 faults, 5 packings | the data is never lost half way, success is complete, finished outputs survive, no process stops for nothing, an output is reached |
| `client` | two requests of one project, 2 attempts each, a quota window of 2, delays up to 1 | effects are accounted for, a limit is run into only for a named reason, every request ends |
| `restore_plan` | the whole registry, five varied components with four statuses each, billable allowed or not | a ready plan is accepted by the executor, order and limits follow the dependencies |
| `restore` | two actions, the second on the first, each kind of handler (Edge Functions from bodies or sources among them), two units, both policies, 2 faults, 1 foreign change | restored means exact; effects are journaled; foundations are exact; `fail` removes nothing but what the property names, the root key of a Vault with secrets is spared; no process stops for nothing; resuming succeeds on a fresh target |
| `edge_drift` | no fault | *violation*: drift after a complete copy of a function ends the step |
| `output_age_resume` | age output, 1 fault | *violation*: the resumed process removes the finished encrypted file |
| `restore_resume` | API keys on Storage, 1 fault | *violation*: an interrupted restore of API keys cannot be resumed |

Bounds. Two steps are enough for an interaction between steps: an earlier one captured,
a later one being copied or cleaned; two versions for a difference. `MaxFaults` bounds
failures, lost answers, crashes, aborts and damage together, so that the liveness
properties read "if faults stop": two of them give a failure and another during its
recovery, three a third process; in `edge` and `objects`, where neither the source nor the abort
counts, one failing call. `Restless` in `copy` frees drift from that bound:
the copy must end even if the source changes without end. `MaxPacks` and `MaxUploads`
number packings and uploads; in `output` a packing past the last number is taken for the
same as the last, so that the operator may resume without end. In `edge` and `objects`
two runners and two items give the races of two workers, a runner that takes two items
and one that takes none. In `restore_plan` the varied components are the trunk of the
database, the Vault branch, the Storage branch and the network branch, on which most
others depend; the theorems of `RestorePlanProofs` cover every other input. In `client`
time is what is left of each delay; a second request is enough to be told of a limit while
the first one sleeps, and a window longer than the longest retry delay for a limit that
outlives it.
`CHECK_DEADLOCK FALSE` is set because every one of these programs ends.

Fairness. Each liveness property assumes weak fairness of the process's own next step
(`Step`, `Process`, `Publish`): a process is one async function, whose awaited calls are
answered or fail (Node.js runs the continuation). Resume and restart have weak fairness
where the property is about an operator who keeps resuming (`EventuallyFinished`,
`OutputIsReached`, `FreshRestoreSucceeds`). There is no fairness for source changes,
faults, aborts, or changes by others. `Process` includes the branches of a failed copy:
they are promises of the same event loop, and the process lives until they settle (`main`
only sets `process.exitCode`). In `client` each request's own step, its answer and `Tick`
are fair: timers fire, and `fetch` has time limits of its own for the headers and the body
of a response. That other calls are answered is an assumption: only the
CLI's own downloads have a timeout (`DOWNLOAD_TIMEOUT_MS`), most other calls have none.

## Theorems

TLAPS checks every theorem for all values of the constants that satisfy the modules'
`ASSUME`s: any number of steps, files, retries, functions, runners, processes, parts,
components, and any registry with acyclic dependencies.

- `BackupRunProofs`, the copy. `ReturnedCopyIsConsistent` speaks of the returned copy only.
  `CopyInv` adds what holds on the way: at a snapshot the step's scope is empty but for
  strays (`Bare`); from then on the scope holds what the copy made and nothing else
  but strays, in versions between the snapshot and now (`MadeIsRecent`). When the two
  snapshots are equal, both bounds are, and every file is that version. `CopyInv(tidy)`
  drops the emptiness for a step without `cleanupPartial`, so that `BackupRun` can use it.
  `CopyRefinesPromise` is the refinement of `CapturePromise`: each step of the copy is a
  step of the promise or stutters, a failed copy whose cleanup succeeded is `bare`, and
  what returns without drift is one version.
- `BackupRunProofs`, the run. `CapturesIntact` alone is not inductive: a cleanup could remove a
  captured file, and a process could work from a memory that forgot one. `CapturesInv`
  adds that steps complete in order, that a record lists only files of its step's scope,
  that the memory's captures are intact, that the memory covers the file's completed
  steps, and that the step being copied is the next one. As scopes are disjoint
  (`CopyAssumption`), no cleanup reaches a captured file. `ResumeStaysPossible` follows
  for every step taken while a process runs. `BundleInv` follows the files to the bundle:
  inside a step the copy keeps `CopyInv` (`StepInv`); every file is in some step's scope,
  the scope of a pending step is bare and that of a completed one holds what it lists, but
  for strays (`ScopeInv`); what is recorded without drift is one version, and the manifest
  says what the memory says (`SealInv`). `FinishedIsExact` and `LabelStaysHonest` follow.
  `RunKeepsPromise` is the refinement of `BackupPromise`: memory and checkpoint file agree
  on what is captured except while a completion is being written (`PromiseInv`), so that
  only `RecordCompleted` and the first `WriteManifest` are steps of the promise.
  `RunStops` is the safety half of `EventuallyFinished`: a copy never sets out to write a
  file it has written (`SoundCopy`), and what is about to be sealed is what is there
  (`SealsWhatIsThere`), so a run is not stopped by what it or a process before it left.
- `PublicationProofs`. `ObjectIsOnePack` needs that the upload in the state file, and
  the one a process uses, was made for the packing it is used for (`StateKnown`,
  `UploadsKnown`); `CommittedCanBeFetched` also that a process about to write the marker
  has read back an object that matches its digest (`MarkedIsVerified`), and that objects
  do not change (`RemoteIsWriteOnce`). For `BackupOutput`, `OutputInv` adds what one
  publisher at a time knows of state file and bucket (`PublisherInv`: an object without
  marker has a state file of its packing), what the stages of `publishBackupOutput` know
  of the local files (`StageInv`, `KindInv`), and when a transport is that of a begun
  upload (`BegunInv`). Checkpoint and workspace go only in stages that know of an archive
  or a marker: `NothingGetsLost`, `SuccessMeansComplete`, `ObjectStaysResumable`,
  `OutputStays`, `BegunKeepsTransport`. `UploadsStayKnown` states
  `UploadsGetLostOnlyAtCreation` of `BackupOutput`, where one process publishes at a time:
  the state file names an open upload until it is over (`StateForgetsNoOpenUpload`), and a
  process between its uploads holds none that is not over (`Spent`). `OutputStops` is the
  safety half of `OutputIsReached`: the publisher sends and reads back the packing its
  digest was taken of (`SendsItsPack`), and a first process, as well as any that publishes
  to a bucket, packs where no file is (`PacksInTheClear`); what is left as a cause of a
  failure is a call that fails, an upload the bucket dropped, a transport lost with
  the object half committed, or, in a local run, an earlier process's file.
- `RestorePlanProofs`. A limited action is limited for a reason (`StatusFromSource`);
  while a sweep has changed nothing, the part it has passed is closed under limits
  (`SweptIsClosed`); a placed action's dependencies were placed in earlier rounds
  (`RoundsFollow`); and no cycle is reported (`NoCycle`), because the dependencies have
  a depth (`PlanAssumption`), so that of the actions left one of least depth is ready.
- `RestoreRunProofs`. While a process runs, all earlier actions are completed in the
  file and exact on the target (`PrefixIsExact`): it has verified them itself, in
  reverification or after applying. The action it applies is `in_progress` in the file
  (`CurrentIsMarked`), and what it has set out to do keeps the policy
  (`IntentKeepsPolicy`) and spares the root key of a Vault that holds secrets
  (`IntentSparesSecrets`). An action that clears a bucket or an index takes other actions'
  units with it, but only of actions after it (`InsideIsAfter`): they need it, so the
  exact prefix stays exact. Others change the target only between processes. Only functions
  deployed from source can be `alike` on the target (`TargetInv`), and none is on a fresh
  one. `StopsForAReason` is the safety half of `FreshRestoreSucceeds`: the dependencies of
  an action come before it in the plan and are therefore completed, and on a fresh target
  whatever an action meets is the backup's own, so nothing is refused and nothing fails
  without a failing call. `CheckAssumption` says that the one component that is checked
  and not applied, the file metadata, rests on components that are applied; the
  dependency table of `plan.ts` has it so.
- `ManagementClientProofs`. An answer on its way already tells what the attempt did
  (`Accounted`), and what the client was told of the present limit covers what is left of it on each way it
  takes: in the answer (`AnswerTold`), in `notBefore` (`ScopeTold`), in the timer
  (`DelayTold`); together `Told`. `LimitsMetForAReason` follows: an attempt sent into a limit
  was told of it late, by a `Retry-After` beyond the cap or of another request, not at
  all, or had it overwritten.
- `CaptureLoopProofs`. `MapInv` adds to the two properties that a runner leaves only when
  the signal is aborted or the list is used up (`LeftForAReason`), that the signal is
  only aborted by an error or the caller (`StoppedByCause`), and that, without an error,
  an index given out is delivered or being worked on (`NoIndexIsLost`). `NoItemTwice`: no
  two runners work on one item, and nobody on one that is delivered (`Apart`). The module
  also holds the lemmas on the loop that both captures share.
- `EdgeCaptureProofs`. `EdgeUsesMapBounded` shows that every step of `EdgeCapture` is a
  step of `BoundedMap` or leaves its variables alone; `MapInvariant` and `NoItemTwice` then
  hold of it. With them `EdgeInv` is inductive: runners work on different functions of the
  listing, what a runner has downloaded is what was listed or the function has changed
  since, and outside of a copy the workspace is empty. `EdgeIndexMatches` and
  `EdgeLeavesNothing` follow. For `EdgeAccepted`, `ChainInv` orders what the requests of
  copy and snapshots have read: the index is what the listing of its capture read, and the
  digests of the secrets, whose versions only grow, lie between those of the two snapshots,
  so that equal snapshots leave no room for a change. That `ListOf` lists exactly the
  deployed functions, each once, is an assumption (`EdgeAssumption`), which TLC evaluates:
  the function is recursive over the listing, and induction over data is out of the
  provers' reach. `EdgeRefinesPromise` puts these together: the step, its workers and
  cleanups included, implements the same `CapturePromise` as the protocol without them.

- `ObjectCaptureProofs`. The step uses `BoundedMap` in the same way (`ObjectsUseMapBounded`).
  `ObjectInv` follows the workspace: empty outside of a copy and its clean-up
  (`EmptyAtFirst`), during the downloads never more than the catalog names (`CopyHolds`), no
  index before the last download (`NotIndexedYet`). `ObjectsIndexedAreStored` and
  `ObjectsLeaveNothing` follow. For `StableIsTheSnapshot`, `StandingInv` dates what was read:
  no version is given out twice, so an object that is what the first snapshot saw has been
  so all along, whatever came and went between the two queries of either snapshot.
  `ObjectsRefinePromise` is the refinement of `CapturePromise`.

- Steps are bounded. Liveness is out of the provers' reach, but the part of it that is about
  the code is a matter of counting: a measure that is a natural number, that every own step
  lowers, and that nothing done by others raises. It is proved of each loop:

  | Theorem | Whose steps | At most |
  |---|---|---|
  | `CopyStepsAreBounded` | `runConsistentCopy` | (`MaxRetries` + 1) * (files of the artifact set + 4) |
  | `ProcessStepsAreBounded` | a process of `executeBackup`, branches of a failed copy not counted | `NSteps` * (a copy + 4) + 7 |
  | `PublishingStepsAreBounded` | `publishS3Backup` beside other publishers | 2 * parts + 15 |
  | `OutputStepsAreBounded` | a process of `publishBackupOutput` | 2 * parts + 23 |
  | `PlanStepsAreBounded` | the sweeps and batches of `plan.ts` | a measure quadratic in the registry |
  | `RestoreStepsAreBounded` | a process of the restore | actions * (2 * units + 7) + 1 |
  | `RequestsHaveBoundedPatience` | a request, its waiting included | `MaxAttempts` * (`MaxWindow` + `MaxRetryDelay` + 4) |
  | `MapStepsAreBounded` | a call of `mapBounded` | 2 * items + runners + 1 |
  | `EdgeStepsAreBounded`, `ObjectStepsAreBounded` | the two captures | attempts, then places of the loop, then lists or queries, then steps of `mapBounded`, then stages or trials of the workers: each lowers the first of them it changes |

  Such a bound is what can go wrong in the code: a retry that does not count, a sweep that
  goes round without a change, a wait that others lengthen for ever. Two of these measures
  need that a name exists at all: with no possible slug or object, "not listed yet" and "an
  empty list" would be the same value (`EdgeAssumption`, `ObjectAssumption`).

Proved and therefore not repeated in the runs: all type invariants, `RetryBound` of `ConsistentCopy`, and what the
refinements of `CapturePromise` say by themselves: `ReturnedCopyIsConsistent`,
`NothingLeftBehind`, `AcceptedEdgeIsOneVersion`.

Assumed of the constants, besides types and bounds: the sets of files, restored units, parts
and runners are finite (`FilesAssumption`, `UnitsAssumption`, `S3Assumption`,
`MapAssumption`), as those of any one run are; scopes are disjoint, dependencies have a
depth, and the universes of names are not empty.

Only model-checked: the liveness properties, which TLAPS does not reach
(`CopyTerminates`, `EventuallyFinished`, `ObjectStepEnds`, `OutputIsReached`,
`RequestsEnd`, `FreshRestoreSucceeds`): what the bounds leave to them is that the next step
can always be taken (`ENABLED`), that it is taken (fairness), and that an operator who
resumes gets further; and the counterexamples of the three *violation*
runs. `UploadsGetLostOnlyAtCreation` is a property of one publisher at a time: of several
processes at once it does not hold, as one may overwrite the state file of another.

## Disagreements between code and documents

Three have a run (the *violation* rows above). Met while modelling, without a run of
their own:

- A branch of `Promise.all` outlives the failure of another (`specialized.ts:550`,
  `auth.ts:209`, `api-keys.ts:147`): it writes after the cleanup of the step. The retry then
  meets its file, or it stays in the finished bundle as an artifact no step lists, or it
  appears after the bundle was indexed, and the bundle no longer verifies.
- The file storage step lists the metadata dump the database step wrote, outside the window
  of its own snapshots (`product.ts:346`): a verified bundle may pair a dump and a catalog of
  different versions, where docs/05 line 39 snapshots "mutable surfaces" as a whole.
- docs/11-operations-reliability.md line 121 wants guidance of the server respected when it
  is stronger. The delay the client takes from `Retry-After` or the quota header is capped by
  `maxRetryDelayMs` (`client.ts:84`), and `Retry-After` holds back no other request of the
  scope. `notBefore` makes up for the cap, for the quota header only; an attempt looks at it
  once, before it sleeps, and a late answer overwrites it with the limit it tells of
  (`client.ts:216`). So a request is sent into a limit its own `Retry-After` named; with
  `MaxRetryDelay` 1 and `MaxWindow` 2 the run `client` reaches all of these.
  `LimitsAreMetForAReason` names them as the exceptions and states that there are no others.
  Every method is retried alike, where docs/11 line 97 asks for a policy per operation.
- The verification of an Edge Function deployed from source compares metadata only: an older
  source under the same metadata passes as restored.
- The write of a completed step fails or is aborted: the handler then attempts completed
  -> failed, which is refused, and the run reports `RESUME_STATE_INVALID` in place of
  the cause (`coordinator.ts:407`; `tests/unit/backup-coordinator-hardening.test.ts:283`
  covers only the step itself). The state stays resumable.
- Network restrictions are ordered in the last phase, but the order goes by rounds, so
  storage actions may come after them (`plan.ts:300`; docs/06 line 141: "Apply late to
  avoid locking the restore process out").
- A local archive run that died after the archive was linked meets `EEXIST` on every
  resume (`backup-output.ts:103`; docs/01 line 174); unlike the encrypted kind it loses
  nothing.
- An object or function deleted between its listing and its download answers 404, a
  plain error: a verified run fails where docs/01 line 204 says "retry drift".
- Two processes may resume one run: there is no lock (docs/11 line 65: "Prevent two
  processes from finalizing the same run/output"). `s3` shows that the bucket is safe
  all the same.
- Most requests have no timeout although docs/11 says every network request has.
- The upload state is removed before the checkpoint (`s3.ts:1136`): a crash between the
  two makes the next process pack again, and the marker it meets then names another
  archive.
- The Auth configuration, the tables of a publication, the state of a Webhook and the Vault
  root key are altered in place also under the policy `fail`, the root key as long as the
  target's Vault holds no secret (`vault-root-key-handler.ts:148`); `FailPolicyKeepsTarget`
  names the four and states that nothing else is.

## Not modelled

- In `ManagementClient`: schemas, redaction, URLs; what a second POST does is the platform's
  matter.
- What is read from the Management API, the database inventory, dumps and specialized
  storage: sequential reads whose results are the versions of the models.
- The CLI's options, the configuration, `doctor`, redaction, schemas, wording of errors.
- In `BackupRun`: attempt counters and failure codes of the checkpoint, refusals over
  another run's identity or configuration; `coverage.json` and `manifest.json` are one
  variable with two writes. The CLI passes no abort signal to the backup, so `Abort`
  concerns users of the library.
- Versions of a surface only grow in `ConsistentCopy` and `BackupRun` (no change and
  change back between two snapshots); in `EdgeCapture` and `ObjectCapture` presence may
  flip back. A database snapshot is atomic and current; the delay of PostgreSQL's
  statistics is left out.
- In `S3Publication`: repacking while another process publishes; the doctor's probe.
- In `RestoreRun`: changes by others while a restore is running, skipped actions,
  fingerprints, the parity report, requests that take effect after their process has
  died, the polling of configuration, keys the platform generates by itself. The secrets
  in the target's Vault are there from the start or put there by others; that their own
  restore, a later action, adds to them is left out: by then the root key is completed, and a
  completed action is only verified.
- `BackupRun.Resume` takes a process for gone with its branches: late branches are exercised
  against the retries, the later steps and the finalization of their own process, not against
  a resumed one in the same workspace. In `BackupOutput` the removals of the error handler
  for an encrypted archive are one step: some of them may fail, and a crash between them
  leaves the same files, but is not an end of its own.
- Temporary files of object downloads (hidden partial files of a crashed writer are in
  `BackupRun`).

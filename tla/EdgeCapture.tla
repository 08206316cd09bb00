----------------------------- MODULE EdgeCapture ------------------------------
(***************************************************************************)
(* The edge step of a backup: captureEdgeState (supabase/management/edge.ts) *)
(* as copy and as snapshot of runConsistentCopy, with the cleanups of the   *)
(* Edge consistency adapter.  A capture lists the functions and the secrets *)
(* side by side, then works through the functions with mapBounded: a worker *)
(* compares a function with its listing before and after the Supabase CLI   *)
(* has downloaded its source.                                               *)
(*                                                                          *)
(* Every change at the source is a new version: what a listing tells of a   *)
(* function includes its version and update time.                           *)
(***************************************************************************)
EXTENDS CaptureLoop, SequencesExt

CONSTANTS
  SlugOrder,   \* the functions there may be, in the order of their slugs
  MaxVersion   \* bound: changes at the source, and what it starts with

Slugs == ToSet(SlugOrder)
Absent == 0
NotRead == [s \in Slugs |-> MaxVersion + 1]
NoSecrets == MaxVersion + 1
Versions == 0..MaxVersion

ListOf(fns) == SelectSeq(SlugOrder, LAMBDA s : fns[s] # Absent)

\* The slugs are distinct, so that a list names the functions there are, once each.
\* There is a name to tell what was listed from NotRead; functions there may be none.
ASSUME EdgeAssumption ==
  /\ MaxVersion \in Nat \ {0} /\ Slugs # {}
  /\ \A fns \in [Slugs -> Versions] :
       LET list == ListOf(fns)
       IN  /\ list \in ItemLists
           /\ \A i, j \in DOMAIN list : list[i] = list[j] => i = j
           /\ {list[i] : i \in DOMAIN list} = {s \in Slugs : fns[s] # Absent}

VARIABLES
  live,     \* the version of every function at the source, Absent without it
  digests,  \* the version of the Edge secrets at the source
  clock,    \* the last version given out
  listed,   \* the functions as this capture listed them
  secrets,  \* the secrets as it listed them, or NoSecrets
  stage,    \* what the worker of a runner does next
  before,   \* the snapshot before the copy
  body,     \* the version of the sources in the workspace, Absent without them
  torn,     \* functions with part of their sources written
  index,    \* functions/index.json, or NotRead
  digestFile, \* secrets/edge-secret-digests.json, or NoSecrets
  seen      \* history: the source when the copy listed the functions

source == <<live, digests, clock>>
workspace == <<body, torn, index, digestFile>>
edgeVars == <<mapVars, cancelled, loopVars, faults, source, listed, secrets, stage,
              before, workspace, seen>>

Stages == {"detail", "source", "rest", "recheck"}

-----------------------------------------------------------------------------

\* The two lists are requested together and answered in any order.
ListFunctions ==
  /\ pc = "list" /\ listed = NotRead
  /\ listed' = live
  /\ seen' = IF phase = "copy" THEN <<live, digests>> ELSE seen
  /\ UNCHANGED <<mapVars, cancelled, loopVars, faults, source, secrets, stage,
                 before, workspace>>

ListSecrets ==
  /\ pc = "list" /\ secrets = NoSecrets
  /\ secrets' = digests
  /\ UNCHANGED <<mapVars, cancelled, loopVars, faults, source, listed, stage,
                 before, workspace, seen>>

\* The loop goes on; a new capture has nothing listed yet.
Relist ==
  IF pc' = "list" THEN listed' = NotRead /\ secrets' = NoSecrets
                  ELSE UNCHANGED <<listed, secrets>>

ListFails ==
  /\ pc = "list"
  /\ (Fault \/ (cancelled /\ UNCHANGED faults))
  /\ Caught("error") /\ Relist
  /\ UNCHANGED <<mapVars, cancelled, source, stage, before, workspace, seen>>

\* Both lists are there: the secret digests are written and mapBounded is called.
CallMap ==
  /\ pc = "list" /\ listed # NotRead /\ secrets # NoSecrets
  /\ digestFile' = IF phase = "copy" THEN secrets ELSE digestFile
  /\ StartMap(ListOf(listed))
  /\ pc' = "map" /\ stage' = [r \in Runners |-> "detail"]
  /\ UNCHANGED <<cancelled, mode, phase, attempt, drift, exc, faults, source, listed,
                 secrets, before, body, torn, index, seen>>

Slug(r) == items[work[r]]
mapOnly == <<cancelled, loopVars, source, listed, secrets, before, seen>>

TakeFunction(r) ==
  /\ pc = "map" /\ Take(r)
  /\ stage' = [stage EXCEPT ![r] = "detail"]
  /\ UNCHANGED <<mapOnly, faults, workspace>>

\* comparableFunction of the listing and of a detail read now; 404 is no drift.
Unchanged(r) == live[Slug(r)] = listed[Slug(r)]

UnlikeListing(r) ==
  /\ ~Unchanged(r)
  /\ Fail(r, IF live[Slug(r)] = Absent THEN "error" ELSE "drift")
  /\ UNCHANGED stage

\* A snapshot does not download the sources.
ReadDetail(r) ==
  /\ work[r] # 0 /\ stage[r] = "detail"
  /\ \/ UnlikeListing(r)
     \/ /\ Unchanged(r)
        /\ stage' = [stage EXCEPT ![r] = IF phase = "copy" THEN "source" ELSE "recheck"]
        /\ UNCHANGED mapVars
  /\ UNCHANGED <<mapOnly, faults, workspace>>

\* The CLI downloads what is deployed now; its first files are written.
Download(r) ==
  /\ work[r] # 0 /\ stage[r] = "source" /\ live[Slug(r)] # Absent
  /\ body' = [body EXCEPT ![Slug(r)] = live[Slug(r)]]
  /\ torn' = torn \cup {Slug(r)}
  /\ stage' = [stage EXCEPT ![r] = "rest"]
  /\ UNCHANGED <<mapOnly, mapVars, faults, index, digestFile>>

WriteRest(r) ==
  /\ work[r] # 0 /\ stage[r] = "rest"
  /\ torn' = torn \ {Slug(r)}
  /\ stage' = [stage EXCEPT ![r] = "recheck"]
  /\ UNCHANGED <<mapOnly, mapVars, faults, body, index, digestFile>>

\* Mutant: the function is not looked at again after the download.
RecheckNothing(r) ==
  /\ work[r] # 0 /\ stage[r] = "recheck"
  /\ Deliver(r) /\ UNCHANGED stage
  /\ UNCHANGED <<mapOnly, faults, workspace>>

Recheck(r) ==
  /\ work[r] # 0 /\ stage[r] = "recheck"
  /\ \/ UnlikeListing(r)
     \/ Unchanged(r) /\ Deliver(r) /\ UNCHANGED stage
  /\ UNCHANGED <<mapOnly, faults, workspace>>

\* A call of the worker fails, finds no function, or notices the shared signal.
WorkerFails(r) ==
  /\ work[r] # 0
  /\ \/ Fault /\ Fail(r, "error")
     \/ /\ stage[r] = "source" /\ live[Slug(r)] = Absent
        /\ Fail(r, "error") /\ UNCHANGED faults
     \/ stopped /\ Fail(r, "error") /\ UNCHANGED faults
  /\ UNCHANGED <<mapOnly, stage, workspace>>

LeaveOrSettle ==
  /\ pc = "map" /\ ((\E r \in Runners : Leave(r)) \/ Settle)
  /\ UNCHANGED <<mapOnly, faults, stage, workspace>>

Worker(r) ==
  TakeFunction(r) \/ ReadDetail(r) \/ Download(r) \/ WriteRest(r) \/ Recheck(r)

-----------------------------------------------------------------------------

\* mapBounded has settled; the loop goes on.
unmapped == <<mapVars, cancelled, source, stage, seen>>

CaptureRejected ==
  /\ pc = "map" /\ mapped = "rejected"
  /\ Caught(Thrown) /\ Relist
  /\ UNCHANGED <<unmapped, faults, before, workspace>>

\* The index is the last artifact of a copy.
CaptureTaken ==
  /\ pc = "map" /\ mapped = "returned"
  /\ Taken /\ Relist
  /\ before' = IF phase = "before" THEN <<listed, secrets>> ELSE before
  /\ index' = IF phase = "copy" THEN listed ELSE index
  /\ UNCHANGED <<unmapped, faults, body, torn, digestFile>>

\* Mutant: the second snapshot is compared without the secret digests.
AfterWithoutSecrets ==
  /\ pc = "map" /\ mapped = "returned"
  /\ Compared(before[1] = listed) /\ Relist
  /\ UNCHANGED <<unmapped, faults, before, workspace>>

AfterTaken ==
  /\ pc = "map" /\ mapped = "returned"
  /\ Compared(before = <<listed, secrets>>) /\ Relist
  /\ UNCHANGED <<unmapped, faults, before, workspace>>

-----------------------------------------------------------------------------

Emptied ==
  /\ body' = [s \in Slugs |-> Absent] /\ torn' = {}
  /\ index' = NotRead /\ digestFile' = NoSecrets

\* cleanupPartialEdgeArtifacts removes functions/ whole, then the digests.
CleanPartial ==
  /\ pc = "partial"
  /\ \/ Emptied /\ AfterCleanup
     \/ CleanupThrows /\ UNCHANGED workspace
     \/ /\ CleanupThrows
        /\ \E removed \in SUBSET Slugs :
             /\ body' = [s \in Slugs |-> IF s \in removed THEN Absent ELSE body[s]]
             /\ torn' = torn \ removed
        /\ UNCHANGED <<index, digestFile>>
  /\ Relist
  /\ UNCHANGED <<unmapped, before>>

\* For comparison: a scope that lets the files of a source tree pass.  With it in
\* the place of CleanCompleted, EdgeDriftIsRetried holds.
CleanCompletedTree ==
  /\ pc = "completed"
  /\ \/ Emptied /\ AfterCleanup
     \/ CleanupThrows /\ UNCHANGED workspace
  /\ Relist
  /\ UNCHANGED <<unmapped, before>>

\* cleanupEdgeArtifacts checks every artifact of the copy before it removes one:
\* functions/<slug>/source/<path> is outside of what assertEdgeArtifact admits.
CleanCompleted ==
  /\ pc = "completed"
  /\ \/ ListOf(index) = <<>> /\ Emptied /\ AfterCleanup
     \/ /\ ListOf(index) # <<>>
        /\ End("threw", "cleanup_failed") /\ UNCHANGED <<mode, drift, faults, workspace>>
     \/ CleanupThrows /\ UNCHANGED workspace
     \/ /\ ListOf(index) = <<>> /\ CleanupThrows
        /\ index' = NotRead /\ UNCHANGED <<body, torn, digestFile>>
  /\ Relist
  /\ UNCHANGED <<unmapped, before>>

-----------------------------------------------------------------------------

\* Somebody deploys or deletes a function, or sets a secret.
SourceChanges ==
  /\ \/ /\ clock < MaxVersion /\ clock' = clock + 1
        /\ \/ \E s \in Slugs : live' = [live EXCEPT ![s] = clock'] /\ UNCHANGED digests
           \/ digests' = clock' /\ UNCHANGED live
     \/ \E s \in Slugs :
          /\ live[s] # Absent /\ live' = [live EXCEPT ![s] = Absent]
          /\ UNCHANGED <<clock, digests>>
  /\ UNCHANGED <<mapVars, cancelled, loopVars, faults, listed, secrets, stage,
                 before, workspace, seen>>

Aborted ==
  /\ ~Ended /\ Cancel
  /\ UNCHANGED <<loopVars, faults, source, listed, secrets, stage, before,
                 workspace, seen>>

Init ==
  /\ LoopInit
  /\ live \in [Slugs -> {Absent, 1}] /\ digests = 1 /\ clock = 1
  /\ listed = NotRead /\ secrets = NoSecrets
  /\ stage = [r \in Runners |-> "detail"]
  /\ before = <<NotRead, NoSecrets>> /\ seen = <<NotRead, NoSecrets>>
  /\ body = [s \in Slugs |-> Absent] /\ torn = {}
  /\ index = NotRead /\ digestFile = NoSecrets

Step ==
  \/ ListFunctions \/ ListSecrets \/ ListFails \/ CallMap
  \/ \E r \in Runners : Worker(r) \/ WorkerFails(r)
  \/ LeaveOrSettle
  \/ CaptureRejected \/ CaptureTaken \/ AfterTaken
  \/ CleanPartial \/ CleanCompleted

Next == Step \/ SourceChanges \/ Aborted

Spec == Init /\ [][Next]_edgeVars

-----------------------------------------------------------------------------

EdgeTypeOK ==
  /\ LoopTypeOK
  /\ live \in [Slugs -> Versions] /\ digests \in Versions /\ clock \in Versions
  /\ stage \in [Runners -> Stages]
  /\ {before, seen} \subseteq [Slugs -> 0..NoSecrets] \X (0..NoSecrets)
  /\ {listed, index, body} \subseteq [Slugs -> 0..NoSecrets]
  /\ secrets \in 0..NoSecrets /\ digestFile \in 0..NoSecrets
  /\ torn \subseteq Slugs

(* The index of a copy never tells of a function version whose sources are  *)
(* not there whole and of that very version, in any consistency mode        *)
(* (captureEdgeState: detail before and after the download).                *)
IndexMatchesSources ==
  index # NotRead => \A s \in Slugs : body[s] = index[s] /\ s \notin torn

\* The workspace holds nothing of the step; or what the source was when listed.
Bare ==
  /\ torn = {} /\ \A s \in Slugs : body[s] = Absent
  /\ index = NotRead /\ digestFile = NoSecrets
OneVersion == index = seen[1] /\ body = seen[1] /\ digestFile = seen[2]

(* A stable result is the source as it was at one moment, when the copy     *)
(* listed the functions: index, sources and secret digests alike, although  *)
(* several runners read them one after the other (runConsistentCopy with    *)
(* captureEdgeState).                                                       *)
AcceptedEdgeIsOneVersion ==
  pc = "stable" => OneVersion

(* The Edge step keeps what runConsistentCopy promises: nothing but drift   *)
(* makes it try again, within its bound and over a workspace without a file *)
(* of the attempt before, whatever its workers were doing; a stable result  *)
(* is one version of the source (edge-consistency-adapter.ts).              *)
Promise == INSTANCE CapturePromise WITH
  bare <- Bare, consistent <- pc = "stable" /\ OneVersion, state <- Ending

EdgeKeepsPromise == Promise!Spec

(* A step that threw, but for a failed cleanup, leaves nothing in the       *)
(* workspace: no worker writes after the cleanup (cleanupAfterCopyFailure,  *)
(* mapBounded).                                                             *)
NothingIsLeftBehind ==
  pc = "threw" /\ exc # "cleanup_failed" => Bare

(* docs/05-backup-engine.md:39, "Snapshot mutable surfaces, copy, snapshot  *)
(* again, retry changed surfaces until stable": in a verified run with      *)
(* neither an abort nor a failing call, a change of the source never ends   *)
(* in a failed cleanup.                                                     *)
EdgeDriftIsRetried ==
  mode = "verified" /\ ~cancelled /\ faults = 0 => exc # "cleanup_failed"

=============================================================================

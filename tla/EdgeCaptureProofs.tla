-------------------------- MODULE EdgeCaptureProofs ---------------------------
(***************************************************************************)
(* The Edge step uses mapBounded as mapBounded is specified: every behaviour *)
(* of EdgeCapture is one of BoundedMap, whose theorems hold of it.  With    *)
(* them EdgeInv is inductive: what a runner holds is a listed function of   *)
(* its own (MapsListed, Apart), what it has downloaded is what was listed   *)
(* or the function has changed since (CopyHolds), and the workspace is      *)
(* empty outside of a copy and what follows it (EmptyAtFirst).  ChainInv    *)
(* then dates what an accepted result holds between its two snapshots.      *)
(* EdgeRefinesPromise puts them together: the step implements what          *)
(* CapturePromise says of every consistent copy.                            *)
(*                                                                         *)
(* EdgeStepsAreBounded: every step is less to do, counted in attempts, then*)
(* places of the loop, lists, steps of mapBounded, stages of its workers.  *)
(***************************************************************************)
EXTENDS EdgeCapture, CaptureLoopProofs

\* What mapBounded is called with is one of its lists, and one call at a time.
Callable ==
  /\ live \in [Slugs -> Versions] /\ clock \in Versions
  /\ listed \in [Slugs -> Versions] \cup {NotRead}
  /\ pc # "map" => mapped # "running"

\* A step of the map, or one that leaves it alone.
MapStep == [MapNext]_<<mapVars, cancelled>>

LEMMA InitCallable == Init => Callable
BY EdgeAssumption DEF Init, LoopInit, MapInit, Callable, Versions, Absent

LEMMA BetweenCaptures ==
  ASSUME Callable, pc' # "map", Relist, mapped # "running",
         UNCHANGED <<mapVars, cancelled, source>>
  PROVE  Callable' /\ MapStep
<1>1. listed' \in [Slugs -> Versions] \cup {NotRead}
  BY DEF Relist, Callable
<1> QED BY <1>1 DEF Callable, MapStep, mapVars, source

-----------------------------------------------------------------------------

LEMMA ListingStep ==
  ASSUME Callable, ListFunctions \/ ListSecrets \/ ListFails
  PROVE  Callable' /\ MapStep
<1>1. CASE ListFunctions
  BY <1>1 DEF ListFunctions, Callable, MapStep, mapVars, loopVars, source
<1>2. CASE ListSecrets
  BY <1>2 DEF ListSecrets, Callable, MapStep, mapVars, loopVars, source
<1>3. CASE ListFails
  <2>1. Caught("error") /\ Relist /\ UNCHANGED <<mapVars, cancelled, source>>
    BY <1>3 DEF ListFails
  <2>2. mapped # "running"
    BY <1>3 DEF ListFails, Callable
  <2> QED BY <2>1, <2>2, LoopGoesOn, BetweenCaptures
<1> QED BY <1>1, <1>2, <1>3

LEMMA CallStep ==
  ASSUME Callable, CallMap
  PROVE  Callable' /\ MapStep
<1>1. listed \in [Slugs -> Versions] /\ mapped # "running"
  BY DEF CallMap, Callable
<1>2. ListOf(listed) \in ItemLists
  BY <1>1, EdgeAssumption
<1>3. StartMap(ListOf(listed)) /\ UNCHANGED cancelled
  BY DEF CallMap
<1>4. MapNext
  BY <1>1, <1>2, <1>3 DEF MapNext
<1> QED BY <1>1, <1>4 DEF Callable, MapStep, CallMap, source

LEMMA WorkerStep ==
  ASSUME Callable, NEW r \in Runners, Worker(r) \/ WorkerFails(r)
  PROVE  Callable' /\ MapStep
<1>1. /\ UNCHANGED <<cancelled, source, listed, pc>>
      /\ \/ UNCHANGED mapVars \/ Take(r) \/ Deliver(r)
         \/ \E e \in {"drift", "error"} : Fail(r, e)
  BY DEF Worker, WorkerFails, TakeFunction, ReadDetail, Download, WriteRest, Recheck,
         UnlikeListing, mapOnly, loopVars
<1>2. MapStep
  BY <1>1, LoopAssumption DEF MapStep, MapNext
<1>3. mapped' = mapped
  BY <1>1 DEF Take, Deliver, Fail, mapVars
<1> QED BY <1>1, <1>2, <1>3 DEF Callable, source

LEMMA LeaveOrSettleStep ==
  ASSUME Callable, LeaveOrSettle
  PROVE  Callable' /\ MapStep
<1>1. UNCHANGED <<cancelled, source, listed, pc>> /\ pc = "map"
  BY DEF LeaveOrSettle, mapOnly, loopVars
<1>2. MapStep
  BY <1>1 DEF LeaveOrSettle, MapStep, MapNext
<1> QED BY <1>1, <1>2 DEF Callable, source

LEMMA CapturedStep ==
  ASSUME Callable, CaptureRejected \/ CaptureTaken \/ AfterTaken
  PROVE  Callable' /\ MapStep
<1>1. UNCHANGED <<mapVars, cancelled, source>> /\ Relist /\ mapped # "running"
  BY DEF CaptureRejected, CaptureTaken, AfterTaken, unmapped
<1>2. pc' # "map"
  BY LoopGoesOn DEF CaptureRejected, CaptureTaken, AfterTaken
<1> QED BY <1>1, <1>2, BetweenCaptures

LEMMA CleanupStep ==
  ASSUME Callable, CleanPartial \/ CleanCompleted
  PROVE  Callable' /\ MapStep
<1>1. UNCHANGED <<mapVars, cancelled, source>> /\ Relist /\ mapped # "running"
  BY DEF CleanPartial, CleanCompleted, unmapped, Callable
<1>2. pc' # "map"
  BY LoopGoesOn DEF CleanPartial, CleanCompleted
<1> QED BY <1>1, <1>2, BetweenCaptures

LEMMA SourceStep ==
  ASSUME Callable, SourceChanges
  PROVE  Callable' /\ MapStep
<1>1. clock' \in Versions /\ live' \in [Slugs -> Versions]
  BY EdgeAssumption DEF SourceChanges, Callable, Versions, Absent
<1>2. UNCHANGED <<mapVars, cancelled, pc, listed>>
  BY DEF SourceChanges, loopVars
<1>3. MapStep /\ mapped' = mapped
  BY <1>2 DEF MapStep, mapVars
<1> QED BY <1>1, <1>2, <1>3 DEF Callable

LEMMA AbortStep ==
  ASSUME Callable, Aborted
  PROVE  Callable' /\ MapStep
BY DEF Aborted, Cancel, Callable, MapStep, MapNext, loopVars, source

LEMMA EveryStep == Callable /\ [Next]_edgeVars => Callable' /\ MapStep
<1> SUFFICES ASSUME Callable, [Next]_edgeVars
             PROVE  Callable' /\ MapStep
  OBVIOUS
<1>1. CASE UNCHANGED edgeVars
  BY <1>1 DEF edgeVars, Callable, MapStep, mapVars, loopVars, source
<1>2. CASE Next
  BY <1>2, ListingStep, CallStep, WorkerStep, LeaveOrSettleStep, CapturedStep,
     CleanupStep, SourceStep, AbortStep DEF Next, Step
<1> QED BY <1>1, <1>2

\* Every behaviour of the step is one of mapBounded (captureEdgeState).
THEOREM EdgeUsesMapBounded == Spec => MapSpec
<1>1. Init => Callable /\ MapInit
  BY InitCallable DEF Init, LoopInit
<1>2. Callable /\ [Next]_edgeVars => Callable' /\ MapStep
  BY EveryStep
<1> QED BY <1>1, <1>2, PTL DEF Spec, MapSpec, MapStep

\* No worker of the Edge step runs on when its mapBounded has settled, so that no
\* write can come after the removal of a failed copy (mapBounded).
THEOREM EdgeSettledIsQuiet == Spec => []SettledIsQuiet
<1>1. MapInv => SettledIsQuiet
  BY DEF MapInv
<1> QED BY <1>1, EdgeUsesMapBounded, MapInvariant, PTL

\* The index is written from the result of every function (mapBounded).
THEOREM EdgeReturnedIsComplete == Spec => []ReturnedIsComplete
<1>1. MapInv => ReturnedIsComplete
  BY DEF MapInv
<1> QED BY <1>1, EdgeUsesMapBounded, MapInvariant, PTL

-----------------------------------------------------------------------------
\* Types.

\* mapBounded is called with the functions that are listed.
MapsListed == pc = "map" => listed # NotRead /\ secrets # NoSecrets /\ items = ListOf(listed)
MapInvariants == MapInv /\ Callable /\ Apart /\ MapsListed

LEMMA ListedSlugs ==
  ASSUME MapInvariants, pc = "map"
  PROVE  /\ listed \in [Slugs -> Versions]
         /\ \A i \in DOMAIN items : items[i] \in Slugs /\ listed[items[i]] # Absent
         /\ \A i, j \in DOMAIN items : items[i] = items[j] => i = j
         /\ \A s \in Slugs : listed[s] # Absent => \E i \in DOMAIN items : items[i] = s
<1>1. listed \in [Slugs -> Versions] /\ items = ListOf(listed)
  BY DEF MapInvariants, MapsListed, Callable
<1>2. /\ \A i, j \in DOMAIN items : items[i] = items[j] => i = j
      /\ {items[i] : i \in DOMAIN items} = {s \in Slugs : listed[s] # Absent}
  BY <1>1, EdgeAssumption
<1>. QED
  BY <1>1, <1>2

LEMMA WorkerSlug ==
  ASSUME MapInvariants, NEW r \in Runners, work[r] # 0
  PROVE  /\ pc = "map" /\ mapped = "running" /\ work[r] \in DOMAIN items
         /\ Slug(r) \in Slugs /\ listed[Slug(r)] # Absent
<1>1. work[r] \in 1..Len(items) /\ items \in ItemLists \cup {<<>>}
  BY DEF MapInvariants, MapInv, MapTypeOK
<1>2. pc = "map" /\ mapped = "running" /\ work[r] \in DOMAIN items
  BY <1>1, ListsHaveLengths DEF MapInvariants, MapInv, SettledIsQuiet, Callable
<1>. QED
  BY <1>2, ListedSlugs DEF Slug

LEMMA MapsListedKept == MapInvariants /\ [Next]_edgeVars => MapsListed'
<1> SUFFICES ASSUME MapInvariants, [Next]_edgeVars, pc' = "map"
             PROVE  listed' # NotRead /\ secrets' # NoSecrets /\ items' = ListOf(listed')
  BY DEF MapsListed
<1>1. CASE CallMap
  BY <1>1 DEF CallMap, StartMap
<1>2. ASSUME UNCHANGED <<pc, listed, secrets, items>>
      PROVE  listed' # NotRead /\ secrets' # NoSecrets /\ items' = ListOf(listed')
  BY <1>2 DEF MapInvariants, MapsListed
<1>3. CASE (\E r \in Runners : Worker(r) \/ WorkerFails(r)) \/ LeaveOrSettle \/ SourceChanges
           \/ Aborted \/ UNCHANGED edgeVars
  BY <1>2, <1>3 DEF Worker, WorkerFails, TakeFunction, ReadDetail, Download, WriteRest,
     Recheck, UnlikeListing, LeaveOrSettle, SourceChanges, Aborted, edgeVars, mapOnly,
     mapVars, loopVars, Take, Leave, Deliver, Fail, Settle, Cancel
<1>4. CASE ListFunctions \/ ListSecrets
  BY <1>4 DEF ListFunctions, ListSecrets, loopVars
<1>5. CASE ListFails \/ CaptureRejected \/ CaptureTaken \/ AfterTaken \/ CleanPartial
           \/ CleanCompleted
  BY <1>5, LoopGoesOn DEF ListFails, CaptureRejected, CaptureTaken, AfterTaken,
     CleanPartial, CleanCompleted
<1>. QED
  BY <1>1, <1>3, <1>4, <1>5 DEF Next, Step

Snapshots == [Slugs -> 0..NoSecrets] \X (0..NoSecrets)
DataTypes ==
  /\ live \in [Slugs -> Versions] /\ digests \in Versions /\ clock \in Versions
  /\ stage \in [Runners -> Stages]
  /\ before \in Snapshots /\ seen \in Snapshots
  /\ listed \in [Slugs -> 0..NoSecrets] /\ index \in [Slugs -> 0..NoSecrets]
  /\ body \in [Slugs -> 0..NoSecrets]
  /\ secrets \in 0..NoSecrets /\ digestFile \in 0..NoSecrets
  /\ torn \subseteq Slugs

LEMMA TypesAreTypes == MapInvariants /\ LoopTypes /\ DataTypes => EdgeTypeOK
BY DEF MapInvariants, MapInv, LoopTypes, DataTypes, Exceptions, Snapshots, EdgeTypeOK, LoopTypeOK

LEMMA VersionsAreSnapshots ==
  /\ MaxVersion \in Nat /\ 0 \in Versions /\ 1 \in Versions
  /\ Versions \subseteq 0..NoSecrets /\ NoSecrets \in 0..NoSecrets
  /\ NotRead \in [Slugs -> 0..NoSecrets] /\ [s \in Slugs |-> Absent] \in [Slugs -> 0..NoSecrets]
  /\ [Slugs -> Versions] \subseteq [Slugs -> 0..NoSecrets]
BY EdgeAssumption DEF Versions, NoSecrets, NotRead, Absent

LEMMA CleaningKeepsTypes ==
  ASSUME MapInvariants, LoopTypes, DataTypes, CleanPartial \/ CleanCompleted
  PROVE  LoopTypes' /\ DataTypes'
<1>1. /\ AfterCleanup \/ CleanupThrows
         \/ (End("threw", "cleanup_failed") /\ UNCHANGED <<mode, drift, faults>>)
      /\ Relist /\ UNCHANGED <<unmapped, before>>
  BY DEF CleanPartial, CleanCompleted
<1>2. LoopTypes'
  <2>1. CASE AfterCleanup \/ CleanupThrows
    <3>1. mode' = mode /\ faults' \in 0..MaxFaults
      BY <2>1, FaultKeepsTypes DEF AfterCleanup, CleanupThrows, LoopTypes
    <3>. QED
      BY <2>1, <3>1, LoopKeepsTypes
  <2>2. CASE End("threw", "cleanup_failed") /\ UNCHANGED <<mode, drift, faults>>
    BY <2>2 DEF End, LoopTypes, Exceptions
  <2>. QED
    BY <1>1, <2>1, <2>2
<1>3. /\ body' \in [Slugs -> 0..NoSecrets] /\ torn' \subseteq Slugs
      /\ index' \in [Slugs -> 0..NoSecrets] /\ digestFile' \in 0..NoSecrets
  BY VersionsAreSnapshots DEF CleanPartial, CleanCompleted, Emptied, DataTypes, workspace
<1>4. listed' \in [Slugs -> 0..NoSecrets] /\ secrets' \in 0..NoSecrets
  BY <1>1, VersionsAreSnapshots DEF Relist, DataTypes
<1>. QED
  BY <1>1, <1>2, <1>3, <1>4 DEF unmapped, source, DataTypes

LEMMA WorkerKeepsTypes ==
  ASSUME MapInvariants, LoopTypes, DataTypes, NEW r \in Runners, Worker(r) \/ WorkerFails(r)
  PROVE  LoopTypes' /\ DataTypes'
<1> USE VersionsAreSnapshots
<1>1. /\ UNCHANGED mapOnly /\ (UNCHANGED faults \/ Fault) /\ UNCHANGED <<index, digestFile>>
      /\ UNCHANGED stage \/ \E st \in Stages : stage' = [stage EXCEPT ![r] = st]
  BY DEF Worker, WorkerFails, TakeFunction, ReadDetail, Download, WriteRest, Recheck,
     UnlikeListing, workspace, Stages
<1>2. body' \in [Slugs -> 0..NoSecrets] /\ torn' \subseteq Slugs
  <2>1. CASE Download(r)
    BY <2>1, WorkerSlug DEF Download, DataTypes
  <2>2. CASE torn' \subseteq torn /\ UNCHANGED body
    BY <2>2 DEF DataTypes
  <2>. QED
    BY <2>1, <2>2 DEF Worker, WorkerFails, TakeFunction, ReadDetail, WriteRest, Recheck,
       workspace
<1>3. faults' \in 0..MaxFaults
  BY <1>1, FaultKeepsTypes DEF LoopTypes
<1>. QED
  BY <1>1, <1>2, <1>3 DEF mapOnly, loopVars, source, DataTypes, LoopTypes

LEMMA EdgeKeepsTypes ==
  ASSUME MapInvariants, LoopTypes, DataTypes, [Next]_edgeVars
  PROVE  LoopTypes' /\ DataTypes'
<1> USE VersionsAreSnapshots
<1>1. CASE ListFunctions \/ ListSecrets
  <2>1. <<live, digests>> \in Snapshots
    BY DEF DataTypes, Snapshots
  <2>. QED
    BY <1>1, <2>1 DEF ListFunctions, ListSecrets, DataTypes, LoopTypes, loopVars, source,
       workspace
<1>2. CASE ListFails
  <2>1. mode' = mode /\ faults' \in 0..MaxFaults
    BY <1>2, FaultKeepsTypes DEF ListFails, Caught, LoopTypes
  <2>. QED
    BY <1>2, <2>1, LoopKeepsTypes DEF ListFails, Relist, DataTypes, source, workspace
<1>3. CASE CallMap
  BY <1>3 DEF CallMap, DataTypes, LoopTypes, source, Stages
<1>4. CASE \E r \in Runners : Worker(r) \/ WorkerFails(r)
  BY <1>4, WorkerKeepsTypes
<1>5. CASE LeaveOrSettle \/ Aborted
  BY <1>5 DEF LeaveOrSettle, Aborted, mapOnly, DataTypes, LoopTypes, loopVars, source, workspace
<1>6. CASE CaptureRejected
  <2>1. mode' = mode /\ faults' \in 0..MaxFaults /\ LoopTypes'
    BY <1>6, ThrownTypes, LoopKeepsTypes DEF MapInvariants, CaptureRejected, Caught, LoopTypes
  <2>. QED
    BY <1>6, <2>1 DEF CaptureRejected, Relist, DataTypes, unmapped, source, workspace
<1>7. CASE CaptureTaken
  <2>1. mode' = mode /\ faults' \in 0..MaxFaults /\ LoopTypes'
    BY <1>7, LoopKeepsTypes DEF CaptureTaken, Taken, LoopTypes
  <2>2. <<listed, secrets>> \in Snapshots
    BY DEF DataTypes, Snapshots
  <2>. QED
    BY <1>7, <2>1, <2>2 DEF CaptureTaken, Relist, DataTypes, unmapped, source
<1>8. CASE AfterTaken
  <2>1. mode' = mode /\ faults' \in 0..MaxFaults /\ LoopTypes'
    BY <1>8, LoopKeepsTypes DEF AfterTaken, Compared, LoopTypes
  <2>. QED
    BY <1>8, <2>1 DEF AfterTaken, Relist, DataTypes, unmapped, source, workspace
<1>9. CASE CleanPartial \/ CleanCompleted
  BY <1>9, CleaningKeepsTypes
<1>10. CASE SourceChanges
  <2>1. /\ clock' \in Versions /\ digests' \in Versions /\ live' \in [Slugs -> Versions]
    BY <1>10, EdgeAssumption DEF SourceChanges, DataTypes, Versions, Absent
  <2>. QED
    BY <1>10, <2>1 DEF SourceChanges, DataTypes, LoopTypes, loopVars, workspace
<1>11. CASE UNCHANGED edgeVars
  BY <1>11 DEF edgeVars, DataTypes, LoopTypes, loopVars, source, workspace
<1>. QED
  BY <1>1, <1>2, <1>3, <1>4, <1>5, <1>6, <1>7, <1>8, <1>9, <1>10, <1>11 DEF Next, Step

LEMMA InitEdgeTypes == Init => MapsListed /\ Apart /\ LoopTypes /\ DataTypes
<1> SUFFICES ASSUME Init PROVE MapsListed /\ Apart /\ LoopTypes /\ DataTypes
  OBVIOUS
<1>1. LoopTypes
  <2>1. faults \in 0..MaxFaults /\ attempt \in 1..(MaxRetries + 1)
    BY LoopAssumption DEF Init, LoopInit
  <2>2. drift \in BOOLEAN
    BY DEF Init, LoopInit
  <2>3. /\ mode \in Modes /\ phase \in {"before", "copy", "after"}
        /\ pc \in {"list", "map", "partial", "completed", "stable", "unstable", "threw"}
        /\ exc \in Exceptions
    BY DEF Init, LoopInit, Exceptions
  <2>. QED
    BY <2>1, <2>2, <2>3 DEF LoopTypes
<1>2. MapsListed
  BY DEF Init, LoopInit, MapsListed
<1>3. Apart
  BY DEF Init, LoopInit, MapInit, Apart
<1>4. DataTypes
  BY VersionsAreSnapshots DEF Init, DataTypes, Snapshots, Absent, Stages
<1>. QED
  BY <1>1, <1>2, <1>3, <1>4

-----------------------------------------------------------------------------
\* What the workspace holds.

WorkspaceEmpty ==
  /\ body = [s \in Slugs |-> Absent] /\ torn = {}
  /\ index = NotRead /\ digestFile = NoSecrets
Reading == pc \in {"list", "map"}

\* Every version was given out by the clock.
Clocked ==
  /\ digests <= clock /\ \A s \in Slugs : live[s] <= clock
  /\ listed # NotRead => \A s \in Slugs : listed[s] <= clock
  /\ secrets # NoSecrets => secrets <= digests

\* The workspace is empty until a copy writes to it, and after a clean failure.
EmptyAtFirst ==
  \/ phase = "before" /\ Reading
  \/ phase = "copy" /\ pc = "list"
  \/ pc = "threw" /\ exc # "cleanup_failed"
  => WorkspaceEmpty

NotIndexedYet == pc = "partial" \/ (phase = "copy" /\ Reading) => index = NotRead

\* Only a copy downloads.
OnlyCopiesWrite ==
  phase # "copy" => \A r \in Runners : work[r] # 0 => stage[r] \in {"detail", "recheck"}

\* A function that is not as listed by now will not become so again.
Diverged(s) == live[s] # listed[s]

CopyHolds ==
  phase = "copy" /\ pc = "map" =>
    /\ \A s \in Slugs : listed[s] = Absent => body[s] = Absent /\ s \notin torn
    /\ \A i \in results : body[items[i]] = listed[items[i]] /\ items[i] \notin torn
    /\ \A r \in Runners : work[r] # 0 =>
         /\ stage[r] = "recheck" => Slug(r) \notin torn
         /\ stage[r] \in {"rest", "recheck"} =>
              body[Slug(r)] = listed[Slug(r)] \/ Diverged(Slug(r))

SourcesInv ==
  /\ Clocked /\ EmptyAtFirst /\ NotIndexedYet /\ OnlyCopiesWrite /\ CopyHolds
  /\ IndexMatchesSources

EdgeInv == MapInvariants /\ LoopTypes /\ DataTypes /\ SourcesInv

-----------------------------------------------------------------------------

LEMMA ClockedKept ==
  ASSUME EdgeInv, [Next]_edgeVars
  PROVE  Clocked'
<1> USE VersionsAreSnapshots
<1>1. /\ Clocked /\ digests \in Versions /\ clock \in Versions /\ live \in [Slugs -> Versions]
      /\ listed \in [Slugs -> 0..NoSecrets] /\ Versions \subseteq Nat
  BY DEF EdgeInv, SourcesInv, DataTypes, Versions
<1>2. CASE UNCHANGED source
  <2>1. CASE UNCHANGED <<listed, secrets>>
    BY <1>1, <1>2, <2>1 DEF source, Clocked
  <2>2. CASE ListFunctions
    BY <1>1, <1>2, <2>2 DEF ListFunctions, source, Clocked
  <2>3. CASE ListSecrets
    BY <1>1, <1>2, <2>3 DEF ListSecrets, source, Clocked
  <2>4. CASE Relist
    BY <1>1, <1>2, <2>4 DEF Relist, source, Clocked
  <2>. QED
    BY <2>1, <2>2, <2>3, <2>4 DEF Next, Step, ListFails, CallMap, Worker, WorkerFails,
       TakeFunction, ReadDetail, Download, WriteRest, Recheck, LeaveOrSettle, CaptureRejected,
       CaptureTaken, AfterTaken, CleanPartial, CleanCompleted, SourceChanges, Aborted,
       mapOnly, edgeVars
<1>3. CASE SourceChanges
  <2>1. /\ UNCHANGED <<listed, secrets>> /\ clock <= clock' /\ digests <= digests'
        /\ digests' <= clock' /\ \A s \in Slugs : live'[s] <= clock'
        /\ clock' \in Nat /\ digests' \in Nat
    BY <1>1, <1>3 DEF SourceChanges, Clocked, Absent
  <2>2. ASSUME listed # NotRead, NEW s \in Slugs PROVE listed[s] <= clock'
    <3>1. listed[s] <= clock /\ listed[s] \in Nat
      BY <1>1, <2>2 DEF Clocked, NoSecrets
    <3>. QED
      BY <1>1, <2>1, <3>1
  <2>3. ASSUME secrets # NoSecrets PROVE secrets <= digests'
    <3>1. secrets <= digests /\ secrets \in Nat
      BY <1>1, <2>3 DEF Clocked, EdgeInv, DataTypes, NoSecrets
    <3>. QED
      BY <1>1, <2>1, <3>1
  <2>. QED
    BY <2>1, <2>2, <2>3 DEF Clocked
<1>. QED
  BY <1>2, <1>3 DEF Next, Step, ListFunctions, ListSecrets, ListFails, CallMap, Worker,
     WorkerFails, TakeFunction, ReadDetail, Download, WriteRest, Recheck, LeaveOrSettle,
     CaptureRejected, CaptureTaken, AfterTaken, CleanPartial, CleanCompleted, Aborted,
     mapOnly, unmapped, edgeVars

\* Between two calls of mapBounded nobody works.
LEMMA NobodyWorks ==
  ASSUME EdgeInv, pc # "map" \/ mapped # "running"
  PROVE  \A r \in Runners : work[r] = 0
BY DEF EdgeInv, MapInvariants, MapInv, Callable, SettledIsQuiet

\* What happens in a call to the runner r, and to the workspace.
LEMMA WorkerKeepsSources ==
  ASSUME EdgeInv, NEW r \in Runners, work[r] # 0,
         ReadDetail(r) \/ Download(r) \/ WriteRest(r) \/ Recheck(r) \/ WorkerFails(r)
  PROVE  EmptyAtFirst' /\ NotIndexedYet' /\ OnlyCopiesWrite' /\ CopyHolds' /\ IndexMatchesSources'
<1>1. /\ pc = "map" /\ work[r] \in DOMAIN items /\ Slug(r) \in Slugs /\ listed[Slug(r)] # Absent
      /\ stage \in [Runners -> Stages] /\ body \in [Slugs -> 0..NoSecrets]
      /\ SourcesInv
  BY WorkerSlug DEF EdgeInv, DataTypes
<1>2. \A q \in Runners \ {r} : work[q] # 0 => work[q] \in DOMAIN items /\ Slug(q) # Slug(r)
  <2> SUFFICES ASSUME NEW q \in Runners \ {r}, work[q] # 0
               PROVE  work[q] \in DOMAIN items /\ Slug(q) # Slug(r)
    OBVIOUS
  <2>1. work[q] \in DOMAIN items /\ work[q] # work[r]
    BY WorkerSlug DEF EdgeInv, MapInvariants, Apart
  <2>. QED
    BY <1>1, <2>1, ListedSlugs DEF EdgeInv, Slug
<1>3. \A i \in results : i \in DOMAIN items /\ items[i] # Slug(r)
  <2>1. \A i \in results : i \in DOMAIN items /\ i # work[r]
    BY DEF EdgeInv, MapInvariants, MapInv, MapTypeOK, Apart
  <2>. QED
    BY <1>1, <2>1, ListedSlugs DEF EdgeInv, Slug
<1>4. /\ UNCHANGED <<pc, phase, exc, listed, live, items, index, digestFile>>
      /\ \A q \in Runners : work'[q] = work[q] \/ (q = r /\ work'[q] = 0)
      /\ \A q \in Runners \ {r} : stage'[q] = stage[q]
      /\ \A s \in Slugs \ {Slug(r)} : body'[s] = body[s] /\ (s \in torn' <=> s \in torn)
  BY <1>1 DEF ReadDetail, Download, WriteRest, Recheck, WorkerFails, UnlikeListing, Deliver,
     Fail, mapVars, mapOnly, loopVars, workspace, source, EdgeInv, MapInvariants, MapInv, MapTypeOK
<1>5. phase # "copy" => UNCHANGED workspace /\ (stage'[r] = stage[r] \/ stage'[r] = "recheck")
  BY <1>1 DEF ReadDetail, Download, WriteRest, Recheck, WorkerFails, UnlikeListing, SourcesInv,
     OnlyCopiesWrite
<1>6. EmptyAtFirst' /\ NotIndexedYet'
  BY <1>1, <1>4, <1>5 DEF SourcesInv, EmptyAtFirst, NotIndexedYet, Reading, WorkspaceEmpty,
     workspace
<1>7. OnlyCopiesWrite'
  BY <1>1, <1>4, <1>5 DEF SourcesInv, OnlyCopiesWrite
<1>8. IndexMatchesSources'
  BY <1>1, <1>4, <1>5 DEF SourcesInv, IndexMatchesSources, NotIndexedYet, Reading, workspace
<1>9. ASSUME phase = "copy" PROVE CopyHolds'
  <2>1. \A s \in Slugs : listed[s] = Absent => body'[s] = Absent /\ s \notin torn'
    BY <1>1, <1>4, <1>9 DEF SourcesInv, CopyHolds
  <2>2. \A q \in Runners : work'[q] # 0 => Slug(q)' = Slug(q)
    BY <1>4 DEF Slug
  <2>3. \A q \in Runners \ {r} : work'[q] # 0 =>
          /\ stage'[q] = "recheck" => Slug(q)' \notin torn'
          /\ stage'[q] \in {"rest", "recheck"} =>
               body'[Slug(q)'] = listed'[Slug(q)'] \/ live'[Slug(q)'] # listed'[Slug(q)']
    <3> SUFFICES ASSUME NEW q \in Runners \ {r}, work'[q] # 0
                 PROVE  /\ stage[q] = "recheck" => Slug(q) \notin torn'
                        /\ stage[q] \in {"rest", "recheck"} =>
                             body'[Slug(q)] = listed[Slug(q)] \/ Diverged(Slug(q))
      BY <1>4, <2>2 DEF Diverged
    <3>1. work[q] # 0 /\ Slug(q) # Slug(r) /\ Slug(q) \in Slugs
      BY <1>2, <1>4, WorkerSlug DEF EdgeInv
    <3>. QED
      BY <1>1, <1>4, <1>9, <3>1 DEF SourcesInv, CopyHolds
  <2>4. work'[r] # 0 =>
          /\ stage'[r] = "recheck" => Slug(r)' \notin torn'
          /\ stage'[r] \in {"rest", "recheck"} =>
               body'[Slug(r)'] = listed'[Slug(r)'] \/ live'[Slug(r)'] # listed'[Slug(r)']
    <3> SUFFICES ASSUME work'[r] # 0
                 PROVE  /\ stage'[r] = "recheck" => Slug(r) \notin torn'
                        /\ stage'[r] \in {"rest", "recheck"} =>
                             body'[Slug(r)] = listed[Slug(r)] \/ Diverged(Slug(r))
      BY <1>4, <2>2 DEF Diverged
    <3>1. CASE ReadDetail(r)
      BY <1>1, <1>9, <3>1 DEF ReadDetail, UnlikeListing, Fail, EdgeInv, MapInvariants, MapInv,
         MapTypeOK
    <3>2. CASE Download(r)
      BY <1>1, <1>4, <3>2 DEF Download, Diverged
    <3>3. CASE WriteRest(r)
      BY <1>1, <1>4, <1>9, <3>3 DEF WriteRest, SourcesInv, CopyHolds, Diverged
    <3>4. CASE Recheck(r) \/ WorkerFails(r)
      BY <3>4 DEF Recheck, WorkerFails, UnlikeListing, Fail, Deliver, EdgeInv, MapInvariants,
         MapInv, MapTypeOK
    <3>. QED
      BY <3>1, <3>2, <3>3, <3>4
  <2>5. \A i \in results' : body'[items'[i]] = listed'[items'[i]] /\ items'[i] \notin torn'
    <3>1. \A i \in results : body'[items[i]] = listed[items[i]] /\ items[i] \notin torn'
      BY <1>1, <1>3, <1>4, <1>9, ListedSlugs DEF EdgeInv, SourcesInv, CopyHolds
    <3>2. CASE results' = results
      BY <1>4, <3>1, <3>2
    <3>3. CASE results' # results
      <4>1. /\ results' = results \cup {work[r]} /\ UNCHANGED workspace
            /\ stage[r] = "recheck" /\ ~Diverged(Slug(r))
        BY <3>3 DEF ReadDetail, Download, WriteRest, Recheck, WorkerFails, UnlikeListing,
           Deliver, Fail, Unchanged, Diverged, mapVars
      <4>2. body[Slug(r)] = listed[Slug(r)] /\ Slug(r) \notin torn
        BY <1>1, <1>9, <4>1 DEF SourcesInv, CopyHolds
      <4>. QED
        BY <1>4, <3>1, <4>1, <4>2 DEF Slug, workspace
    <3>. QED
      BY <3>2, <3>3
  <2>. QED
    BY <1>4, <2>1, <2>3, <2>4, <2>5 DEF CopyHolds, Diverged
<1>10. CopyHolds'
  BY <1>4, <1>9 DEF CopyHolds
<1>. QED
  BY <1>6, <1>7, <1>8, <1>10

(* A step that leaves the workspace, the listing, the workers and the place *)
(* of the capture alone.                                                    *)
LEMMA BystanderKeepsSources ==
  ASSUME EdgeInv, UNCHANGED <<pc, phase, exc, listed, items, results, work, stage, workspace>>,
         \A s \in Slugs : listed[s] # Absent /\ Diverged(s) => live'[s] # listed[s]
  PROVE  EmptyAtFirst' /\ NotIndexedYet' /\ OnlyCopiesWrite' /\ CopyHolds' /\ IndexMatchesSources'
<1>1. UNCHANGED <<body, torn, index, digestFile>>
  BY DEF workspace
<1>2. EmptyAtFirst' /\ NotIndexedYet' /\ OnlyCopiesWrite' /\ IndexMatchesSources'
  BY <1>1 DEF EdgeInv, SourcesInv, EmptyAtFirst, NotIndexedYet, OnlyCopiesWrite,
     IndexMatchesSources, WorkspaceEmpty, Reading
<1>3. ASSUME phase = "copy", pc = "map", NEW r \in Runners, work[r] # 0,
             stage[r] \in {"rest", "recheck"}
      PROVE  body[Slug(r)] = listed[Slug(r)] \/ live'[Slug(r)] # listed[Slug(r)]
  <2>1. Slug(r) \in Slugs /\ listed[Slug(r)] # Absent
    BY <1>3, WorkerSlug DEF EdgeInv
  <2>2. body[Slug(r)] = listed[Slug(r)] \/ Diverged(Slug(r))
    BY <1>3 DEF EdgeInv, SourcesInv, CopyHolds
  <2>. QED
    BY <2>1, <2>2
<1>4. CopyHolds'
  BY <1>1, <1>3 DEF EdgeInv, SourcesInv, CopyHolds, Diverged, Slug
<1>. QED
  BY <1>2, <1>4

(* The loop goes on from a capture that is over; the copy leaves its index. *)
LEMMA GoingOnKeepsSources ==
  ASSUME EdgeInv, ListFails \/ CaptureRejected \/ CaptureTaken \/ AfterTaken
  PROVE  EmptyAtFirst' /\ NotIndexedYet' /\ OnlyCopiesWrite' /\ CopyHolds' /\ IndexMatchesSources'
<1>1. /\ Reading /\ (pc # "map" \/ mapped # "running") /\ UNCHANGED <<work, body, torn, digestFile>>
      /\ SourcesInv /\ phase \in {"before", "copy", "after"}
  BY DEF ListFails, CaptureRejected, CaptureTaken, AfterTaken, Reading, unmapped, mapVars,
     workspace, EdgeInv, LoopTypes
<1>2. pc' # "map"
  BY LoopGoesOn DEF ListFails, CaptureRejected, CaptureTaken, AfterTaken
<1>3. OnlyCopiesWrite' /\ CopyHolds'
  BY <1>1, <1>2, NobodyWorks DEF OnlyCopiesWrite, CopyHolds
<1>4. CASE ListFails \/ CaptureRejected
  <2>1. index' = index /\ \E e \in {"drift", "error", "aborted"} : Caught(e)
    BY <1>4, ThrownTypes DEF ListFails, CaptureRejected, workspace, EdgeInv, MapInvariants
  <2>2. /\ phase' = phase
        /\ phase = "before" => pc' \in {"threw", "list"}
        /\ phase = "copy" => pc' = "partial"
        /\ phase = "after" => pc' \in {"unstable", "completed"}
    BY <2>1, CaughtGoesOn DEF EdgeInv
  <2>3. EmptyAtFirst' /\ NotIndexedYet' /\ IndexMatchesSources'
    BY <1>1, <2>1, <2>2 DEF SourcesInv, EmptyAtFirst, NotIndexedYet, IndexMatchesSources,
       Reading, WorkspaceEmpty
  <2>. QED
    BY <1>3, <2>3
<1>5. CASE AfterTaken
  <2>1. index' = index /\ phase = "after" /\ phase' = phase
        /\ pc' \in {"stable", "unstable", "completed"}
    BY <1>5 DEF AfterTaken, Compared, End, workspace
  <2>. QED
    BY <1>1, <1>3, <2>1 DEF SourcesInv, EmptyAtFirst, NotIndexedYet, IndexMatchesSources,
       Reading, WorkspaceEmpty
<1>6. CASE CaptureTaken
  <2>1. /\ pc = "map" /\ mapped = "returned" /\ Taken
        /\ index' = IF phase = "copy" THEN listed ELSE index
    BY <1>6 DEF CaptureTaken
  <2>2. CASE phase = "before"
    <3>1. WorkspaceEmpty /\ index' = index
      BY <1>1, <2>1, <2>2 DEF SourcesInv, EmptyAtFirst
    <3>. QED
      BY <1>1, <1>3, <2>1, <2>2, <3>1, TakenGoesOn DEF SourcesInv, EmptyAtFirst, NotIndexedYet,
         IndexMatchesSources, Reading, WorkspaceEmpty
  <2>3. CASE phase = "copy"
    <3>1. \A s \in Slugs : body[s] = listed[s] /\ s \notin torn
      <4>1. results = DOMAIN items
        BY <2>1 DEF EdgeInv, MapInvariants, MapInv, ReturnedIsComplete
      <4>. QED
        BY <1>1, <2>1, <2>3, <4>1, ListedSlugs DEF EdgeInv, SourcesInv, CopyHolds
    <3>2. IndexMatchesSources'
      BY <1>1, <2>1, <2>3, <3>1 DEF IndexMatchesSources
    <3>3. EmptyAtFirst' /\ NotIndexedYet'
      BY <2>1, <2>3, TakenGoesOn DEF EmptyAtFirst, NotIndexedYet, Reading
    <3>. QED
      BY <1>3, <3>2, <3>3
  <2>. QED
    BY <2>1, <2>2, <2>3, TakenGoesOn
<1>. QED
  BY <1>4, <1>5, <1>6

LEMMA CleaningKeepsSources ==
  ASSUME EdgeInv, CleanPartial \/ CleanCompleted
  PROVE  EmptyAtFirst' /\ NotIndexedYet' /\ OnlyCopiesWrite' /\ CopyHolds' /\ IndexMatchesSources'
<1>1. /\ UNCHANGED work /\ pc \in {"partial", "completed"} /\ SourcesInv
  BY DEF CleanPartial, CleanCompleted, unmapped, mapVars, EdgeInv
<1>2. pc' # "map" /\ pc' # "partial"
  BY DEF CleanPartial, CleanCompleted, AfterCleanup, Rethrow, DriftAction, End, StartCapture,
     CleanupThrows
<1>3. OnlyCopiesWrite' /\ CopyHolds'
  BY <1>1, <1>2, NobodyWorks DEF OnlyCopiesWrite, CopyHolds
<1>4. CASE Emptied /\ AfterCleanup
  <2>1. WorkspaceEmpty'
    BY <1>4 DEF Emptied, WorkspaceEmpty
  <2>2. EmptyAtFirst' /\ NotIndexedYet' /\ IndexMatchesSources'
    BY <1>2, <2>1 DEF EmptyAtFirst, NotIndexedYet, IndexMatchesSources, WorkspaceEmpty
  <2>. QED
    BY <1>3, <2>2
<1>5. CASE ~(Emptied /\ AfterCleanup)
  <2>1. /\ End("threw", "cleanup_failed")
        /\ \/ UNCHANGED workspace
           \/ pc = "partial" /\ index' = index
           \/ index' = NotRead
    BY <1>5 DEF CleanPartial, CleanCompleted, CleanupThrows
  <2>2. pc' = "threw" /\ exc' = "cleanup_failed"
    BY <2>1 DEF End
  <2>3. IndexMatchesSources'
    BY <1>1, <2>1 DEF SourcesInv, NotIndexedYet, IndexMatchesSources, workspace
  <2>4. EmptyAtFirst' /\ NotIndexedYet'
    BY <2>2 DEF EmptyAtFirst, NotIndexedYet, Reading
  <2>. QED
    BY <1>3, <2>3, <2>4
<1>. QED
  BY <1>4, <1>5

LEMMA CallKeepsSources ==
  ASSUME EdgeInv, CallMap
  PROVE  EmptyAtFirst' /\ NotIndexedYet' /\ OnlyCopiesWrite' /\ CopyHolds' /\ IndexMatchesSources'
<1>1. /\ pc = "list" /\ pc' = "map" /\ UNCHANGED <<phase, exc, body, torn, index, listed>>
      /\ phase # "copy" => digestFile' = digestFile
      /\ results' = {} /\ \A r \in Runners : work'[r] = 0
      /\ SourcesInv
  BY DEF CallMap, StartMap, EdgeInv
<1>2. OnlyCopiesWrite' /\ IndexMatchesSources'
  BY <1>1 DEF SourcesInv, OnlyCopiesWrite, IndexMatchesSources
<1>3. EmptyAtFirst' /\ NotIndexedYet'
  BY <1>1 DEF SourcesInv, EmptyAtFirst, NotIndexedYet, Reading, WorkspaceEmpty
<1>4. CopyHolds'
  BY <1>1 DEF SourcesInv, EmptyAtFirst, WorkspaceEmpty, CopyHolds
<1>. QED
  BY <1>2, <1>3, <1>4

LEMMA SourcesKept ==
  ASSUME EdgeInv, [Next]_edgeVars
  PROVE  SourcesInv'
<1> USE DEF SourcesInv
<1>1. CASE ListFunctions \/ ListSecrets
  <2>1. /\ pc = "list" /\ UNCHANGED <<pc, phase, exc, work, stage, body, torn, index, digestFile>>
    BY <1>1 DEF ListFunctions, ListSecrets, mapVars, loopVars, workspace
  <2>. QED
    BY <2>1, ClockedKept DEF EdgeInv, EmptyAtFirst, NotIndexedYet, OnlyCopiesWrite, CopyHolds,
       IndexMatchesSources, WorkspaceEmpty, Reading
<1>2. CASE ListFails \/ CaptureRejected \/ CaptureTaken \/ AfterTaken
  BY <1>2, GoingOnKeepsSources, ClockedKept
<1>3. CASE CallMap
  BY <1>3, CallKeepsSources, ClockedKept
<1>4. ASSUME NEW r \in Runners, TakeFunction(r) PROVE SourcesInv'
  <2>1. /\ pc = "map" /\ work[r] = 0 /\ UNCHANGED <<pc, phase, exc, listed, live, items, results>>
        /\ UNCHANGED <<body, torn, index, digestFile>>
        /\ stage' = [stage EXCEPT ![r] = "detail"]
        /\ work' = [work EXCEPT ![r] = cursor]
    BY <1>4 DEF TakeFunction, Take, Free, mapOnly, loopVars, source, workspace
  <2>2. /\ \A q \in Runners \ {r} : work'[q] = work[q] /\ stage'[q] = stage[q]
        /\ stage'[r] = "detail"
    BY <2>1 DEF EdgeInv, DataTypes, MapInvariants, MapInv, MapTypeOK
  <2>3. EmptyAtFirst' /\ NotIndexedYet' /\ OnlyCopiesWrite' /\ IndexMatchesSources'
    BY <2>1, <2>2 DEF EdgeInv, EmptyAtFirst, NotIndexedYet, OnlyCopiesWrite,
       IndexMatchesSources, WorkspaceEmpty, Reading
  <2>4. CopyHolds'
    BY <2>1, <2>2 DEF EdgeInv, CopyHolds, Diverged, Slug
  <2>. QED
    BY <2>3, <2>4, ClockedKept
<1>5. ASSUME NEW r \in Runners,
             ReadDetail(r) \/ Download(r) \/ WriteRest(r) \/ Recheck(r) \/ WorkerFails(r)
      PROVE  SourcesInv'
  <2>1. work[r] # 0
    BY <1>5 DEF ReadDetail, Download, WriteRest, Recheck, WorkerFails
  <2>. QED
    BY <1>5, <2>1, WorkerKeepsSources, ClockedKept
<1>6. CASE LeaveOrSettle \/ Aborted \/ UNCHANGED edgeVars
  <2>1. UNCHANGED <<pc, phase, exc, listed, live, items, results, work, stage, workspace>>
    BY <1>6 DEF LeaveOrSettle, Aborted, Leave, Settle, Cancel, mapOnly, loopVars, source,
       edgeVars, mapVars
  <2>. QED
    BY <2>1, BystanderKeepsSources, ClockedKept DEF Diverged
<1>7. CASE CleanPartial \/ CleanCompleted
  BY <1>7, CleaningKeepsSources, ClockedKept
<1>8. CASE SourceChanges
  <2>1. UNCHANGED <<pc, phase, exc, listed, items, results, work, stage, workspace>>
    BY <1>8 DEF SourceChanges, mapVars, loopVars
  <2>2. ASSUME NEW s \in Slugs, listed[s] # Absent, Diverged(s), live'[s] # live[s]
        PROVE  live'[s] # listed[s]
    <3>1. live'[s] = Absent \/ (live'[s] = clock + 1 /\ clock < MaxVersion)
      BY <1>8, <2>2 DEF SourceChanges, EdgeInv, DataTypes
    <3>2. CASE listed # NotRead
      <4>1. listed[s] <= clock /\ listed[s] \in Nat /\ clock \in Nat
        BY <3>2 DEF EdgeInv, Clocked, DataTypes, Versions
      <4>. QED
        BY <2>2, <3>1, <4>1
    <3>3. CASE listed = NotRead
      <4>1. listed[s] = MaxVersion + 1
        BY <3>3 DEF NotRead
      <4>2. clock \in Nat /\ MaxVersion \in Nat
        BY EdgeAssumption DEF EdgeInv, DataTypes, Versions
      <4>. QED
        BY <3>1, <4>1, <4>2 DEF Absent
    <3>. QED
      BY <3>2, <3>3
  <2>. QED
    BY <2>1, <2>2, BystanderKeepsSources, ClockedKept DEF Diverged
<1>. QED
  BY <1>1, <1>2, <1>3, <1>4, <1>5, <1>6, <1>7, <1>8 DEF Next, Step, Worker

LEMMA InitEdgeInv == Init => EdgeInv
<1> SUFFICES ASSUME Init PROVE EdgeInv
  OBVIOUS
<1>1. MapInvariants /\ LoopTypes /\ DataTypes
  <2>1. MapInv
    BY MapStarts DEF Init, LoopInit
  <2>. QED
    BY <2>1, InitCallable, InitEdgeTypes DEF MapInvariants
<1>2. Clocked
  BY EdgeAssumption DEF Init, Clocked, Absent
<1>3. WorkspaceEmpty /\ index = NotRead /\ phase = "before" /\ pc = "list"
      /\ \A r \in Runners : work[r] = 0
  BY DEF Init, LoopInit, MapInit, WorkspaceEmpty
<1>4. EmptyAtFirst /\ NotIndexedYet /\ OnlyCopiesWrite /\ CopyHolds /\ IndexMatchesSources
  BY <1>3 DEF EmptyAtFirst, NotIndexedYet, OnlyCopiesWrite, CopyHolds, IndexMatchesSources
<1>. QED
  BY <1>1, <1>2, <1>4 DEF EdgeInv, SourcesInv

LEMMA EdgeInvKept == EdgeInv /\ [Next]_edgeVars => EdgeInv'
<1> SUFFICES ASSUME EdgeInv, [Next]_edgeVars PROVE EdgeInv'
  OBVIOUS
<1>1. MapInvariants /\ LoopTypes /\ DataTypes
  BY DEF EdgeInv
<1>2. MapInvariants'
  <2>1. MapInv /\ Callable /\ Apart
    BY <1>1 DEF MapInvariants
  <2>2. Callable' /\ MapStep
    BY <2>1, EveryStep
  <2>3. MapInv' /\ Apart'
    BY <2>1, <2>2, MapStepKeeps, ApartKeeps DEF MapStep
  <2>. QED
    BY <1>1, <2>2, <2>3, MapsListedKept DEF MapInvariants
<1>3. LoopTypes' /\ DataTypes'
  BY <1>1, EdgeKeepsTypes
<1>. QED
  BY <1>2, <1>3, SourcesKept DEF EdgeInv

\* The inductive invariant of the Edge step.
THEOREM EdgeInvariant == Spec => []EdgeInv
BY InitEdgeInv, EdgeInvKept, PTL DEF Spec

\* The types of the Edge step (captureEdgeState, runConsistentCopy, mapBounded).
THEOREM EdgeTypeCorrect == Spec => []EdgeTypeOK
<1>1. EdgeInv => EdgeTypeOK
  BY TypesAreTypes DEF EdgeInv
<1> QED BY <1>1, EdgeInvariant, PTL

\* The index of a copy names no version whose sources are not there, whole and of
\* that version, whatever is deployed or deleted while the runners download.
THEOREM EdgeIndexMatches == Spec => []IndexMatchesSources
<1>1. EdgeInv => IndexMatchesSources
  BY DEF EdgeInv, SourcesInv
<1> QED BY <1>1, EdgeInvariant, PTL

\* A step that threw leaves nothing in the workspace unless a cleanup failed.
THEOREM EdgeLeavesNothing == Spec => []NothingIsLeftBehind
<1>1. EdgeInv => NothingIsLeftBehind
  BY DEF EdgeInv, SourcesInv, EmptyAtFirst, WorkspaceEmpty, NothingIsLeftBehind, Bare
<1> QED BY <1>1, EdgeInvariant, PTL

-----------------------------------------------------------------------------
\* What an accepted result is.

(* The secrets only get newer, so that what is read between two equal        *)
(* readings is of their version.                                            *)
CopyChain ==
  phase = "copy" /\ Reading =>
    /\ before[2] <= digests
    /\ secrets # NoSecrets => before[2] <= secrets
    /\ listed # NotRead => seen[1] = listed /\ before[2] <= seen[2] /\ seen[2] <= digests
    /\ pc = "map" => digestFile = secrets

AfterChain ==
  phase = "after" /\ Reading =>
    /\ index # NotRead /\ index = seen[1]
    /\ before[2] <= seen[2] /\ seen[2] <= digests
    /\ before[2] <= digestFile /\ digestFile <= digests
    /\ secrets # NoSecrets => seen[2] <= secrets /\ digestFile <= secrets

ChainInv == CopyChain /\ AfterChain /\ AcceptedEdgeIsOneVersion

LEMMA ChainNumbers ==
  EdgeInv => /\ before[2] \in Nat /\ seen[2] \in Nat /\ digests \in Nat
             /\ secrets \in Nat /\ digestFile \in Nat /\ seen[1] \in [Slugs -> 0..NoSecrets]
<1>1. NoSecrets \in Nat /\ MaxVersion \in Nat
  BY EdgeAssumption DEF NoSecrets
<1> QED BY <1>1 DEF EdgeInv, DataTypes, Snapshots, Versions

\* Outside of a capture for a copy or a second snapshot there is nothing to hold.
LEMMA NotReading ==
  ASSUME pc' # "stable", phase' = "before" \/ pc' \notin {"list", "map"}
  PROVE  ChainInv'
BY DEF ChainInv, CopyChain, AfterChain, AcceptedEdgeIsOneVersion, Reading

LEMMA ListingKeepsChain ==
  ASSUME EdgeInv, ChainInv, ListFunctions \/ ListSecrets
  PROVE  ChainInv'
<1>1. /\ pc = "list" /\ UNCHANGED <<pc, phase, digests, before, index, digestFile>>
      /\ digests # NoSecrets
  <2>1. digests # NoSecrets
    BY EdgeAssumption DEF EdgeInv, DataTypes, Versions, NoSecrets
  <2>. QED
    BY <2>1 DEF ListFunctions, ListSecrets, loopVars, source, workspace
<1>2. CopyChain'
  BY <1>1, ChainNumbers DEF ListFunctions, ListSecrets, ChainInv, CopyChain, Reading
<1>3. AfterChain'
  BY <1>1, ChainNumbers DEF ListFunctions, ListSecrets, ChainInv, AfterChain, Reading
<1>. QED
  BY <1>1, <1>2, <1>3 DEF ChainInv, AcceptedEdgeIsOneVersion

LEMMA CallKeepsChain ==
  ASSUME EdgeInv, ChainInv, CallMap
  PROVE  ChainInv'
BY DEF CallMap, ChainInv, CopyChain, AfterChain, AcceptedEdgeIsOneVersion, Reading, source

LEMMA BystanderKeepsChain ==
  ASSUME EdgeInv, ChainInv,
         UNCHANGED <<pc, phase, listed, secrets, before, index, digestFile, seen>>,
         digests <= digests', digests' \in Nat,
         pc = "stable" => body' = body
  PROVE  ChainInv'
<1>1. CopyChain'
  BY ChainNumbers DEF ChainInv, CopyChain, Reading
<1>2. AfterChain'
  BY ChainNumbers DEF ChainInv, AfterChain, Reading
<1>. QED
  BY <1>1, <1>2 DEF ChainInv, AcceptedEdgeIsOneVersion, OneVersion

LEMMA TakenKeepsChain ==
  ASSUME EdgeInv, ChainInv, CaptureTaken
  PROVE  ChainInv'
<1>1. /\ pc = "map" /\ mapped = "returned" /\ Taken /\ Relist
      /\ UNCHANGED <<digests, seen, digestFile>>
      /\ before' = IF phase = "before" THEN <<listed, secrets>> ELSE before
      /\ index' = IF phase = "copy" THEN listed ELSE index
      /\ listed # NotRead /\ secrets # NoSecrets /\ secrets <= digests
  BY DEF CaptureTaken, unmapped, source, EdgeInv, MapInvariants, MapsListed, SourcesInv, Clocked
<1>2. CASE phase' = "before" \/ pc' \notin {"list", "map"}
  BY <1>1, <1>2, TakenGoesOn, NotReading
<1>3. CASE phase = "before" /\ phase' = "copy" /\ pc' = "list"
  <2>1. before'[2] = secrets /\ listed' = NotRead /\ secrets' = NoSecrets
    BY <1>1, <1>3 DEF Relist
  <2>. QED
    BY <1>1, <1>3, <2>1 DEF ChainInv, CopyChain, AfterChain, AcceptedEdgeIsOneVersion, OneVersion
<1>4. CASE phase = "copy" /\ phase' = "after" /\ pc' = "list"
  <2>1. /\ before' = before /\ index' = listed /\ secrets' = NoSecrets
        /\ seen[1] = listed /\ before[2] <= seen[2] /\ seen[2] <= digests
        /\ before[2] <= secrets /\ digestFile = secrets
    BY <1>1, <1>4 DEF Relist, ChainInv, CopyChain, Reading
  <2>. QED
    BY <1>1, <1>4, <2>1 DEF ChainInv, CopyChain, AfterChain, AcceptedEdgeIsOneVersion, OneVersion
<1>. QED
  BY <1>1, <1>2, <1>3, <1>4, TakenGoesOn

LEMMA AfterTakenKeepsChain ==
  ASSUME EdgeInv, ChainInv, AfterTaken
  PROVE  ChainInv'
<1>1. /\ pc = "map" /\ phase = "after" /\ pc' \in {"stable", "unstable", "completed"}
      /\ pc' = "stable" => before = <<listed, secrets>>
      /\ UNCHANGED <<seen, body, torn, index, digestFile>>
  BY DEF AfterTaken, Compared, End, unmapped, workspace
<1>2. ASSUME pc' = "stable"
      PROVE  index = seen[1] /\ body = seen[1] /\ digestFile = seen[2]
  <2>1. /\ index # NotRead /\ index = seen[1] /\ before[2] = secrets
        /\ before[2] <= seen[2] /\ before[2] <= digestFile
        /\ seen[2] <= secrets /\ digestFile <= secrets
    BY <1>1, <1>2 DEF ChainInv, AfterChain, Reading, EdgeInv, MapInvariants, MapsListed
  <2>2. digestFile = seen[2]
    BY <2>1, ChainNumbers
  <2>3. body = index
    BY <2>1 DEF EdgeInv, DataTypes, SourcesInv, IndexMatchesSources
  <2>. QED
    BY <2>1, <2>2, <2>3
<1>. QED
  BY <1>1, <1>2 DEF ChainInv, CopyChain, AfterChain, AcceptedEdgeIsOneVersion, OneVersion, Reading

LEMMA ChainKept == EdgeInv /\ ChainInv /\ [Next]_edgeVars => ChainInv'
<1> SUFFICES ASSUME EdgeInv, ChainInv, [Next]_edgeVars PROVE ChainInv'
  OBVIOUS
<1>1. CASE ListFails \/ CaptureRejected
  <2>1. \E e \in {"drift", "error", "aborted"} : Caught(e)
    BY <1>1, ThrownTypes DEF ListFails, CaptureRejected, EdgeInv, MapInvariants
  <2>2. phase \in {"before", "copy", "after"} /\ LoopTypes
    BY DEF EdgeInv, LoopTypes
  <2>. QED
    BY <2>1, <2>2, CaughtGoesOn, NotReading
<1>2. CASE CleanPartial \/ CleanCompleted
  <2>1. AfterCleanup \/ CleanupThrows \/ End("threw", "cleanup_failed")
    BY <1>2 DEF CleanPartial, CleanCompleted
  <2>2. pc' = "threw" \/ (pc' = "list" /\ phase' = "before")
    BY <2>1, CleanedGoesOn DEF CleanupThrows, End
  <2>. QED
    BY <2>2, NotReading
<1>3. ASSUME NEW r \in Runners, Worker(r) \/ WorkerFails(r) PROVE ChainInv'
  <2>1. /\ UNCHANGED <<pc, phase, listed, secrets, before, index, digestFile, seen, digests>>
        /\ UNCHANGED body \/ work[r] # 0
    BY <1>3 DEF Worker, WorkerFails, TakeFunction, ReadDetail, Download, WriteRest, Recheck,
       mapOnly, loopVars, source, workspace
  <2>2. pc = "stable" => body' = body
    BY <2>1, WorkerSlug DEF EdgeInv
  <2>. QED
    BY <2>1, <2>2, ChainNumbers, BystanderKeepsChain
<1>4. CASE LeaveOrSettle \/ Aborted \/ UNCHANGED edgeVars
  <2>1. UNCHANGED <<pc, phase, listed, secrets, before, index, digestFile, seen, digests, body>>
    BY <1>4 DEF LeaveOrSettle, Aborted, mapOnly, loopVars, source, workspace, edgeVars
  <2>. QED
    BY <2>1, ChainNumbers, BystanderKeepsChain
<1>5. CASE SourceChanges
  <2>1. UNCHANGED <<pc, phase, listed, secrets, before, index, digestFile, seen, body>>
    BY <1>5 DEF SourceChanges, loopVars, workspace
  <2>2. digests <= digests' /\ digests' \in Nat
    <3>1. digests \in Nat /\ clock \in Nat /\ digests <= clock
      BY DEF EdgeInv, DataTypes, Versions, SourcesInv, Clocked
    <3>. QED
      BY <1>5, <3>1 DEF SourceChanges
  <2>. QED
    BY <2>1, <2>2, BystanderKeepsChain
<1>. QED
  BY <1>1, <1>2, <1>3, <1>4, <1>5, ListingKeepsChain, CallKeepsChain, TakenKeepsChain,
     AfterTakenKeepsChain DEF Next, Step

\* A stable result is the source as it was when the copy listed the functions, for
\* every number of functions, runners and retries.
THEOREM EdgeAccepted == Spec => []AcceptedEdgeIsOneVersion
<1>1. Init => ChainInv
  BY DEF Init, LoopInit, ChainInv, CopyChain, AfterChain, AcceptedEdgeIsOneVersion
<1>2. ChainInv => AcceptedEdgeIsOneVersion
  BY DEF ChainInv
<1> QED BY <1>1, <1>2, ChainKept, EdgeInvariant, PTL DEF Spec

-----------------------------------------------------------------------------
\* The refinement of CapturePromise.

\* A step of the loop, or one of what it waits for.
LEMMA EdgeTurns ==
  ASSUME EdgeInv, ErrorOnItsWay, ~Ended, [Next]_edgeVars
  PROVE  Turn
<1> USE DEF EdgeInv
<1>1. CASE UNCHANGED loopVars
  BY <1>1 DEF Turn, loopVars, ErrorOnItsWay, Ended
<1>2. CASE ListFails \/ CaptureRejected
  <2>1. mode' = mode /\ \E e \in {"drift", "error", "aborted"} : Caught(e)
    BY <1>2, ThrownTypes DEF ListFails, CaptureRejected, Caught, MapInvariants
  <2>. QED
    BY <2>1, LoopTurns
<1>3. CASE CaptureTaken
  BY <1>3, LoopTurns DEF CaptureTaken, Taken
<1>4. CASE AfterTaken
  BY <1>4, LoopTurns DEF AfterTaken, Compared
<1>5. CASE CleanPartial \/ CleanCompleted
  <2>1. /\ mode' = mode
        /\ AfterCleanup \/ CleanupThrows \/ (End("threw", "cleanup_failed") /\ UNCHANGED drift)
    BY <1>5 DEF CleanPartial, CleanCompleted, AfterCleanup, CleanupThrows
  <2>. QED
    BY <2>1, LoopTurns
<1>6. CASE CallMap
  BY <1>6 DEF CallMap, Turn, ErrorOnItsWay, Ended
<1>. QED
  BY <1>1, <1>2, <1>3, <1>4, <1>5, <1>6 DEF Next, Step, ListFunctions, ListSecrets, Worker,
     WorkerFails, TakeFunction, ReadDetail, Download, WriteRest, Recheck, LeaveOrSettle,
     SourceChanges, Aborted, mapOnly, edgeVars

\* After its end the step writes nothing more: no worker is left that could.
LEMMA EdgeRests ==
  ASSUME EdgeInv, Ended, [Next]_edgeVars
  PROVE  UNCHANGED <<loopVars, workspace, seen>>
<1>1. pc \in {"stable", "unstable", "threw"} /\ \A r \in Runners : work[r] = 0
  BY NobodyWorks DEF Ended
<1>2. CASE SourceChanges \/ UNCHANGED edgeVars
  BY <1>2 DEF SourceChanges, edgeVars
<1>. QED
  BY <1>1, <1>2 DEF Next, Step, ListFunctions, ListSecrets, ListFails, CallMap, Worker,
     WorkerFails, TakeFunction, ReadDetail, Download, WriteRest, Recheck, LeaveOrSettle,
     CaptureRejected, CaptureTaken, AfterTaken, CleanPartial, CleanCompleted, Aborted, Ended

\* Nothing is there when an attempt starts, or when an error is thrown.
BareBetween ==
  (phase = "before" /\ pc = "list") \/ (pc = "threw" /\ exc # "cleanup_failed") => Bare

(* The Edge step implements CapturePromise: it is tried again for drift     *)
(* alone, within the bound and over an empty workspace; a stable result is  *)
(* one version of the source; an error leaves nothing but a failed cleanup  *)
(* does; and its end is final (edge-consistency-adapter.ts).                *)
THEOREM EdgeRefinesPromise == Spec => EdgeKeepsPromise
<1>1. Init => Promise!Init /\ ErrorOnItsWay /\ ChainInv
  BY LoopAssumption DEF Init, LoopInit, Promise!Init, Bare, Ending, Ended, ErrorOnItsWay,
     ChainInv, CopyChain, AfterChain, AcceptedEdgeIsOneVersion
<1>2. EdgeInv => EndsAreSeen /\ BareBetween
  BY EndingsAreSeen DEF EdgeInv, SourcesInv, EmptyAtFirst, Reading, WorkspaceEmpty, BareBetween,
     Bare
<1>3. ASSUME EdgeInv, EndsAreSeen, EndsAreSeen', BareBetween', ChainInv', ErrorOnItsWay,
             [Next]_edgeVars
      PROVE  ErrorOnItsWay' /\ [Promise!Next]_(Promise!promiseVars)
  <2>1. CASE Ended
    <3>1. UNCHANGED <<loopVars, workspace, seen>>
      BY <1>3, <2>1, EdgeRests
    <3>2. UNCHANGED <<mode, attempt, drift, Bare, pc = "stable" /\ OneVersion, Ending>>
      BY <3>1 DEF loopVars, workspace, Bare, OneVersion, Ending, Ended
    <3>. QED
      BY <2>1, <3>1, <3>2 DEF Promise!promiseVars, loopVars, ErrorOnItsWay, Ended
  <2>2. CASE ~Ended
    <3>1. Turn
      BY <1>3, <2>2, EdgeTurns
    <3>2. Ending = "working"
      BY <1>3, <2>2 DEF EndsAreSeen
    <3>. USE DEF Turn
    <3>3. CASE Retried
      <4>1. Bare' /\ Ending' = "working"
        BY <1>3, <3>3 DEF BareBetween, EndsAreSeen, Retried, Ended
      <4>2. Promise!Retry
        BY <3>1, <3>3, <4>1 DEF Retried, Promise!Retry
      <4>. QED
        BY <3>1, <3>2, <4>2 DEF Promise!Next
    <3>4. CASE attempt' = attempt /\ ~Ended'
      <4>1. Promise!Work
        BY <1>3, <3>1, <3>4 DEF EndsAreSeen, Promise!Work
      <4>. QED
        BY <3>1, <3>2, <4>1 DEF Promise!Next
    <3>5. CASE attempt' = attempt /\ pc' = "unstable" /\ mode = "best-effort" /\ drift'
      <4>1. Promise!Return
        BY <1>3, <3>1, <3>5 DEF EndsAreSeen, Promise!Return
      <4>. QED
        BY <3>1, <3>2, <4>1 DEF Promise!Next
    <3>6. CASE attempt' = attempt /\ pc' = "stable"
      <4>1. OneVersion'
        BY <1>3, <3>6 DEF ChainInv, AcceptedEdgeIsOneVersion
      <4>2. Promise!Return
        BY <1>3, <3>1, <3>6, <4>1 DEF EndsAreSeen, Promise!Return
      <4>. QED
        BY <3>1, <3>2, <4>2 DEF Promise!Next
    <3>7. CASE attempt' = attempt /\ GaveUp
      <4>1. CASE exc' = "cleanup_failed"
        <5>1. Promise!Spoil
          BY <1>3, <3>1, <3>7, <4>1 DEF EndsAreSeen, Promise!Spoil, GaveUp
        <5>. QED
          BY <3>1, <3>2, <5>1 DEF Promise!Next
      <4>2. CASE exc' # "cleanup_failed"
        <5>1. Bare'
          BY <1>3, <3>7, <4>2 DEF BareBetween, GaveUp
        <5>2. /\ Ending' \in {"drifted", "failed"}
              /\ Ending' = "drifted" => exc' \in {"changed", "unsettled"}
          BY <1>3, <3>7, <4>2 DEF EndsAreSeen, GaveUp, Ended
        <5>3. Promise!Throw
          BY <3>1, <3>7, <5>1, <5>2 DEF Promise!Throw, GaveUp
        <5>. QED
          BY <3>1, <3>2, <5>3 DEF Promise!Next
      <4>. QED
        BY <4>1, <4>2
    <3>. QED
      BY <3>1, <3>3, <3>4, <3>5, <3>6, <3>7
  <2>. QED
    BY <2>1, <2>2
<1>. QED
  BY <1>1, <1>2, <1>3, EdgeInvariant, ChainKept, PTL DEF Spec, EdgeKeepsPromise, Promise!Spec

-----------------------------------------------------------------------------
\* What the step has left to do.

\* The two lists of a capture, and the functions the workers are at.
ListsLeft ==
  IF pc # "list" THEN 0
  ELSE (IF listed = NotRead THEN 1 ELSE 0) + (IF secrets = NoSecrets THEN 1 ELSE 0)
After(s) ==
  CASE s = "detail" -> {"source", "rest", "recheck"} [] s = "source" -> {"rest", "recheck"}
    [] s = "rest" -> {"recheck"} [] s = "recheck" -> {}
StagesLeft ==
  {slot \in Runners \X Stages : work[slot[1]] # 0 /\ slot[2] \in After(stage[slot[1]])}

LessToDo ==
  \/ MovesOn
  \/ /\ UNCHANGED <<attempt, PlaceLeft>>
     /\ \/ ListsLeft' < ListsLeft
        \/ UNCHANGED ListsLeft /\ MapStepsLeft' < MapStepsLeft
        \/ /\ UNCHANGED <<ListsLeft, MapStepsLeft>>
           /\ StagesLeft' \subseteq StagesLeft /\ StagesLeft' # StagesLeft

ToDoIsFinite ==
  /\ attempt \in 1..(MaxRetries + 1) /\ PlaceLeft \in 0..7 /\ ListsLeft \in 0..2
  /\ MapStepsLeft \in Nat /\ IsFiniteSet(StagesLeft)

EdgeStepsAreCounted ==
  /\ []ToDoIsFinite
  /\ [][IF Step THEN LessToDo
        ELSE UNCHANGED <<attempt, PlaceLeft, ListsLeft, MapStepsLeft, StagesLeft>>]_edgeVars

LEMMA StagesAreFinite == IsFiniteSet(StagesLeft)
<1>1. IsFiniteSet(Stages)
  <2>1. Stages = (({"detail"} \cup {"source"}) \cup {"rest"}) \cup {"recheck"}
    BY DEF Stages
  <2>. QED
    BY <2>1, FS_Singleton, FS_Union
<1>2. IsFiniteSet(Runners \X Stages)
  BY <1>1, MapAssumption, FS_Product
<1>. QED
  BY <1>2, FS_Subset DEF StagesLeft

LEMMA ToDoTyped == EdgeInv => ToDoIsFinite
<1>1. ListsLeft \in 0..2
  BY DEF ListsLeft
<1>. QED
  BY <1>1, StagesAreFinite, MapStepsTyped, PlacesAreCounted
  DEF EdgeInv, MapInvariants, LoopTypes, ToDoIsFinite

(* A worker that goes on with its function leaves less of it.               *)
LEMMA StageIsTaken ==
  ASSUME stage \in [Runners -> Stages], NEW r \in Runners, work[r] # 0, UNCHANGED work,
         NEW st \in After(stage[r]), stage' = [stage EXCEPT ![r] = st]
  PROVE  StagesLeft' \subseteq StagesLeft /\ StagesLeft' # StagesLeft
<1>1. st \in Stages /\ stage[r] \in Stages
  BY DEF After, Stages
<1>2. st \notin After(st) /\ After(st) \subseteq After(stage[r])
  BY <1>1 DEF After, Stages
<1>3. stage'[r] = st /\ \A q \in Runners \ {r} : stage'[q] = stage[q]
  OBVIOUS
<1>4. \A q \in Runners : After(stage'[q]) \subseteq After(stage[q])
  BY <1>2, <1>3
<1>5. StagesLeft' \subseteq StagesLeft
  BY <1>4 DEF StagesLeft
<1>6. <<r, st>> \in StagesLeft /\ <<r, st>> \notin StagesLeft'
  BY <1>1, <1>2, <1>3 DEF StagesLeft
<1>. QED
  BY <1>5, <1>6

LEMMA WorkerHasLessToDo ==
  ASSUME EdgeInv, NEW r \in Runners, Worker(r) \/ WorkerFails(r)
  PROVE  LessToDo
<1> USE DEF EdgeInv
<1>1. UNCHANGED mapOnly
  BY DEF Worker, WorkerFails, TakeFunction, ReadDetail, Download, WriteRest, Recheck
<1>2. mapped = "running"
  <2>1. CASE work[r] = 0
    BY <2>1 DEF Worker, WorkerFails, TakeFunction, Take, Free, ReadDetail, Download, WriteRest,
       Recheck
  <2>2. CASE work[r] # 0
    BY <2>2 DEF MapInvariants, MapInv, SettledIsQuiet
  <2>. QED
    BY <2>1, <2>2
<1>3. UNCHANGED <<attempt, PlaceLeft, ListsLeft, cancelled>>
  BY <1>1 DEF mapOnly, loopVars, PlaceLeft, ListsLeft
<1>4. [MapNext]_<<mapVars, cancelled>>
  BY WorkerStep DEF MapInvariants, MapStep
<1>5. CASE MapStepsLeft' < MapStepsLeft
  BY <1>3, <1>5 DEF LessToDo
<1>6. CASE UNCHANGED mapVars
  <2>1. MapStepsLeft' = MapStepsLeft /\ UNCHANGED work
    BY <1>6 DEF mapVars, MapStepsLeft, Busy
  <2>2. ~TakeFunction(r) /\ ~WorkerFails(r) /\ ~Recheck(r) /\ ~(\E e : Fail(r, e))
    <3>1. cursor \in Nat /\ work \in [Runners -> Nat]
      BY ListsHaveLengths DEF MapInvariants, MapInv, MapTypeOK
    <3>2. ~Take(r)
      BY <1>6, <3>1 DEF Take, mapVars
    <3>3. ~Deliver(r) /\ ~(\E e : Fail(r, e))
      BY <1>6, <3>1 DEF Deliver, Fail, mapVars
    <3>. QED
      BY <3>2, <3>3 DEF TakeFunction, WorkerFails, Recheck, UnlikeListing
  <2>3. work[r] # 0 /\ \E st \in After(stage[r]) : stage' = [stage EXCEPT ![r] = st]
    <3>1. CASE ReadDetail(r)
      BY <2>2, <3>1 DEF ReadDetail, UnlikeListing, After
    <3>2. CASE Download(r)
      BY <3>2 DEF Download, After
    <3>3. CASE WriteRest(r)
      BY <3>3 DEF WriteRest, After
    <3>. QED
      BY <2>2, <3>1, <3>2, <3>3 DEF Worker
  <2>. QED
    BY <1>3, <2>1, <2>3, StageIsTaken DEF LessToDo, DataTypes
<1>. QED
  BY <1>2, <1>3, <1>4, <1>5, <1>6, MapGoesOn DEF MapInvariants

LEMMA StepHasLessToDo ==
  ASSUME EdgeInv, Step, edgeVars' # edgeVars
  PROVE  LessToDo
<1> USE DEF EdgeInv
<1>1. CASE ListFunctions \/ ListSecrets
  <2>1. /\ UNCHANGED <<loopVars, mapVars, cancelled, faults, source, stage, before, workspace>>
        /\ pc = "list"
        /\ \/ listed = NotRead /\ UNCHANGED secrets
           \/ secrets = NoSecrets /\ UNCHANGED <<listed, seen>>
    BY <1>1 DEF ListFunctions, ListSecrets
  <2>2. CASE UNCHANGED secrets /\ listed = NotRead /\ listed' # NotRead
    <3>1. ListsLeft' < ListsLeft /\ UNCHANGED <<attempt, PlaceLeft>>
      BY <2>1, <2>2 DEF ListsLeft, PlaceLeft, loopVars
    <3>. QED
      BY <3>1 DEF LessToDo
  <2>3. CASE UNCHANGED listed /\ secrets = NoSecrets /\ secrets' # NoSecrets
    <3>1. ListsLeft' < ListsLeft /\ UNCHANGED <<attempt, PlaceLeft>>
      BY <2>1, <2>3 DEF ListsLeft, PlaceLeft, loopVars
    <3>. QED
      BY <3>1 DEF LessToDo
  <2>4. ListFunctions => listed' # NotRead
    <3>1. live \in [Slugs -> Versions] /\ MaxVersion + 1 \notin Versions
      BY EdgeAssumption DEF DataTypes, Versions
    <3>2. PICK s \in Slugs : TRUE
      BY EdgeAssumption
    <3>3. live[s] # NotRead[s]
      BY <3>1, <3>2 DEF NotRead
    <3>. QED
      BY <3>3 DEF ListFunctions
  <2>5. ListSecrets => secrets' # NoSecrets
    <3>1. digests # NoSecrets
      BY EdgeAssumption DEF DataTypes, Versions, NoSecrets
    <3>. QED
      BY <3>1 DEF ListSecrets
  <2>. QED
    BY <1>1, <2>2, <2>3, <2>4, <2>5 DEF ListFunctions, ListSecrets
<1>2. CASE ListFails \/ CaptureRejected \/ CaptureTaken \/ AfterTaken
  <2>1. pc \in {"list", "map"} /\ \E e, equal : Caught(e) \/ Taken \/ Compared(equal)
    BY <1>2 DEF ListFails, CaptureRejected, CaptureTaken, AfterTaken
  <2>. QED
    BY <2>1, CaptureMovesOn DEF LessToDo
<1>3. CASE CleanPartial \/ CleanCompleted
  <2>1. /\ pc \in {"partial", "completed"}
        /\ AfterCleanup \/ CleanupThrows \/ End("threw", "cleanup_failed")
    BY <1>3 DEF CleanPartial, CleanCompleted
  <2>. QED
    BY <2>1, CleanupMovesOn DEF LessToDo
<1>4. CASE CallMap
  <2>1. pc = "list" /\ pc' = "map" /\ UNCHANGED <<attempt, phase>>
    BY <1>4 DEF CallMap
  <2>2. PlaceLeft' < PlaceLeft
    BY <2>1 DEF PlaceLeft, LoopTypes
  <2>. QED
    BY <2>1, <2>2 DEF LessToDo, MovesOn
<1>5. CASE LeaveOrSettle
  <2>1. UNCHANGED <<attempt, PlaceLeft, ListsLeft>>
    BY <1>5 DEF LeaveOrSettle, mapOnly, loopVars, PlaceLeft, ListsLeft
  <2>2. MapStepsLeft' < MapStepsLeft
    BY <1>5, LeaveIsCounted, SettleIsCounted DEF LeaveOrSettle, MapInvariants
  <2>. QED
    BY <2>1, <2>2 DEF LessToDo
<1>. QED
  BY <1>1, <1>2, <1>3, <1>4, <1>5, WorkerHasLessToDo DEF Step

(* Every step of its own brings the Edge step nearer to its end, whatever   *)
(* deployments, failing calls and aborts come in between: the attempts of   *)
(* the loop, the steps of the bounded map and the stages of a worker are    *)
(* all used up (runConsistentCopy with captureEdgeState).                   *)
THEOREM EdgeStepsAreBounded == Spec => EdgeStepsAreCounted
<1>1. EdgeInv /\ [Next]_edgeVars =>
        [IF Step THEN LessToDo
         ELSE UNCHANGED <<attempt, PlaceLeft, ListsLeft, MapStepsLeft, StagesLeft>>]_edgeVars
  <2>. SUFFICES ASSUME EdgeInv, Next, edgeVars' # edgeVars
                PROVE  IF Step THEN LessToDo
                       ELSE UNCHANGED <<attempt, PlaceLeft, ListsLeft, MapStepsLeft, StagesLeft>>
    OBVIOUS
  <2>1. CASE Step
    BY <2>1, StepHasLessToDo
  <2>2. CASE ~Step
    <3>1. UNCHANGED <<loopVars, listed, secrets, stage, items, cursor, work, gone, mapped>>
      BY <2>2 DEF Next, SourceChanges, Aborted, Cancel, mapVars
    <3>2. UNCHANGED <<attempt, PlaceLeft, ListsLeft, MapStepsLeft, StagesLeft>>
      BY <3>1 DEF loopVars, PlaceLeft, ListsLeft, MapStepsLeft, Busy, StagesLeft
    <3>. QED
      BY <2>2, <3>2
  <2>. QED
    BY <2>1, <2>2
<1>. QED
  BY <1>1, ToDoTyped, EdgeInvariant, PTL DEF Spec, EdgeStepsAreCounted

=============================================================================

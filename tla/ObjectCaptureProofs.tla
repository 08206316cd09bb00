------------------------- MODULE ObjectCaptureProofs --------------------------
(***************************************************************************)
(* The file-storage step, for any number of objects, buckets, runners and   *)
(* attempts, and any subset of objects with an ETag.                        *)
(*                                                                         *)
(* The step uses mapBounded as mapBounded is specified, so that MapInv      *)
(* holds of it.  ObjectInv follows the workspace: empty outside of a copy   *)
(* and what follows it (EmptyAtFirst), and during the downloads never more  *)
(* than the catalog names (CopyHolds).  StandingInv dates what a stable     *)
(* result holds: an object that still is what the first snapshot saw has    *)
(* been so all along, because no version is given out twice.                *)
(* ObjectsRefinePromise: the step implements CapturePromise.                *)
(*                                                                         *)
(* ObjectStepsAreBounded: every step is less to do, counted in attempts,   *)
(* then places of the loop, queries, steps of mapBounded, trials.          *)
(***************************************************************************)
EXTENDS ObjectCapture, CaptureLoopProofs

Listings == [Objects -> 0..(MaxVersion + 1)]

\* What mapBounded is called with is one of its lists, and one call at a time.
Callable ==
  /\ live \in [Objects -> Versions] /\ clock \in Versions
  /\ listed \in [Objects -> Versions] \cup {NotRead}
  /\ pc # "map" => mapped # "running"

\* The downloads are those of the catalog, in the copy.
MapsListed ==
  pc = "map" =>
    /\ phase = "copy" /\ listed # NotRead /\ catalog = listed
    /\ items = ListOf(listed)

\* A step of the map, or one that leaves it alone.
MapStep == [MapNext]_<<mapVars, cancelled>>

LEMMA VersionsAreListings ==
  /\ MaxVersion \in Nat /\ 0 \in Versions /\ 1 \in Versions
  /\ Versions \subseteq 0..(MaxVersion + 1)
  /\ NotRead \in Listings /\ Nothing \in [Objects -> Versions]
  /\ [Objects -> Versions] \subseteq Listings
BY ObjectAssumption DEF Versions, NotRead, Nothing, Absent, Listings

LEMMA InitCallable == Init => Callable
BY ObjectAssumption DEF Init, LoopInit, MapInit, Callable, Versions, Absent

\* Between two captures, and out of the loop.
LEMMA BetweenCaptures ==
  ASSUME Callable, pc' # "map", Relist, mapped # "running",
         UNCHANGED <<mapVars, cancelled, source>>
  PROVE  Callable' /\ MapStep
<1>1. listed' \in [Objects -> Versions] \cup {NotRead}
  BY DEF Relist, Callable, listing
<1> QED BY <1>1 DEF Callable, MapStep, mapVars, source

LEMMA QueryStep ==
  ASSUME Callable, QueryBuckets \/ QueryObjects
  PROVE  Callable' /\ MapStep
<1>1. UNCHANGED <<mapVars, cancelled, source, pc>>
  BY DEF QueryBuckets, QueryObjects, loopVars
<1>2. listed' \in [Objects -> Versions] \cup {NotRead}
  <2>1. CASE QueryBuckets
    BY <2>1 DEF QueryBuckets, Callable
  <2>2. CASE QueryObjects
    BY <2>2, VersionsAreListings DEF QueryObjects, Callable, Absent
  <2>. QED
    BY <2>1, <2>2
<1>. QED
  BY <1>1, <1>2 DEF Callable, MapStep, mapVars, source

LEMMA CapturedStep ==
  ASSUME Callable,
         QueryFails \/ BeforeTaken \/ AfterTaken \/ DownloadsRejected \/ DownloadsTaken
           \/ CleanPartial \/ CleanCompleted
  PROVE  Callable' /\ MapStep /\ pc' # "map"
<1>1. UNCHANGED <<mapVars, cancelled, source>> /\ Relist /\ mapped # "running"
  BY DEF QueryFails, BeforeTaken, AfterTaken, DownloadsRejected, DownloadsTaken,
     CleanPartial, CleanCompleted, unmapped, queried, Callable
<1>2. pc' # "map"
  BY LoopGoesOn DEF QueryFails, BeforeTaken, AfterTaken, DownloadsRejected, DownloadsTaken,
     CleanPartial, CleanCompleted, Removal
<1> QED BY <1>1, <1>2, BetweenCaptures

LEMMA StartStep ==
  ASSUME Callable, StartDownloads
  PROVE  Callable' /\ MapStep
<1>1. listed \in [Objects -> Versions] /\ mapped # "running"
  BY DEF StartDownloads, queried, Callable
<1>2. ListOf(listed) \in ItemLists
  BY <1>1, ObjectAssumption
<1>3. StartMap(ListOf(listed)) /\ UNCHANGED <<cancelled, source, listed>> /\ pc' = "map"
  BY DEF StartDownloads, listing
<1>4. MapNext
  BY <1>1, <1>2, <1>3 DEF MapNext
<1> QED BY <1>1, <1>3, <1>4 DEF Callable, MapStep, source

LEMMA WorkerStep ==
  ASSUME Callable, NEW r \in Runners, Worker(r)
  PROVE  Callable' /\ MapStep
<1>1. /\ UNCHANGED <<cancelled, source, listed, pc>>
      /\ \/ UNCHANGED mapVars \/ Take(r) \/ Deliver(r)
         \/ \E e \in {"drift", "error"} : Fail(r, e)
  BY DEF Worker, TakeObject, Request, Store, Tidy, AttemptFails, Again, Refused, mapOnly, loopVars,
     listing
<1>2. MapStep
  BY <1>1, LoopAssumption DEF MapStep, MapNext
<1>3. mapped' = mapped
  BY <1>1 DEF Take, Deliver, Fail, mapVars
<1> QED BY <1>1, <1>2, <1>3 DEF Callable, source

LEMMA LeaveOrSettleStep ==
  ASSUME Callable, LeaveOrSettle
  PROVE  Callable' /\ MapStep
<1>1. UNCHANGED <<cancelled, source, listed, pc>> /\ pc = "map"
  BY DEF LeaveOrSettle, mapOnly, loopVars, listing
<1>2. MapStep
  BY <1>1 DEF LeaveOrSettle, MapStep, MapNext
<1> QED BY <1>1, <1>2 DEF Callable, source

LEMMA SourceStep ==
  ASSUME Callable, SourceChanges
  PROVE  Callable' /\ MapStep
<1>1. clock' \in Versions /\ live' \in [Objects -> Versions]
  BY VersionsAreListings DEF SourceChanges, Callable, Versions, Absent
<1>2. UNCHANGED <<mapVars, cancelled, pc, listed>>
  BY DEF SourceChanges, loopVars, listing
<1>3. MapStep /\ mapped' = mapped
  BY <1>2 DEF MapStep, mapVars
<1> QED BY <1>1, <1>2, <1>3 DEF Callable

LEMMA AbortStep ==
  ASSUME Callable, Aborted
  PROVE  Callable' /\ MapStep
BY DEF Aborted, Cancel, Callable, MapStep, MapNext, loopVars, source, listing

LEMMA EveryStep == Callable /\ [Next]_objectVars => Callable' /\ MapStep
<1> SUFFICES ASSUME Callable, [Next]_objectVars
             PROVE  Callable' /\ MapStep
  OBVIOUS
<1>1. CASE UNCHANGED objectVars
  BY <1>1 DEF objectVars, Callable, MapStep, mapVars, loopVars, source, listing
<1>2. CASE Next
  BY <1>2, QueryStep, CapturedStep, StartStep, WorkerStep, LeaveOrSettleStep,
     SourceStep, AbortStep DEF Next, Step
<1> QED BY <1>1, <1>2

\* Every behaviour of the step is one of mapBounded (fileStorageStep).
THEOREM ObjectsUseMapBounded == Spec => MapSpec
<1>1. Init => Callable /\ MapInit
  BY InitCallable DEF Init, LoopInit
<1>2. Callable /\ [Next]_objectVars => Callable' /\ MapStep
  BY EveryStep
<1> QED BY <1>1, <1>2, PTL DEF Spec, MapSpec, MapStep

-----------------------------------------------------------------------------
\* Types.

\* A runner between two objects knows nothing of the last one.
Idle == \A r \in Runners : work[r] = 0 => stage[r] = "request"
MapInvariants == MapInv /\ Callable /\ MapsListed /\ Idle

Rooms == SUBSET (Buckets \cup {"unread"})
Stages == {"request", "body", "linked"}
DownloadTypes ==
  /\ stage \in [Runners -> Stages] /\ tries \in [Runners -> 1..MaxAttempts]
  /\ got \in [Runners -> Versions] /\ stored \in [Objects -> Versions]
DataTypes ==
  /\ live \in [Objects -> Versions] /\ open \subseteq Buckets /\ clock \in Versions
  /\ rooms \in Rooms /\ listed \in Listings /\ before \in Rooms \X Listings
  /\ catalog \in Listings /\ index \in Listings
  /\ DownloadTypes

LEMMA TypesAreTypes == MapInvariants /\ LoopTypes /\ DataTypes => ObjectTypeOK
BY DEF MapInvariants, MapInv, LoopTypes, DataTypes, DownloadTypes, Exceptions, Rooms, Listings,
       Stages, ObjectTypeOK, LoopTypeOK

LEMMA ListedObjects ==
  ASSUME MapInvariants, pc = "map"
  PROVE  /\ listed \in [Objects -> Versions]
         /\ \A i \in DOMAIN items : items[i] \in Objects /\ listed[items[i]] # Absent
         /\ \A o \in Objects : listed[o] # Absent => \E i \in DOMAIN items : items[i] = o
<1>1. listed \in [Objects -> Versions] /\ items = ListOf(listed)
  BY DEF MapInvariants, MapsListed, Callable
<1>2. {items[i] : i \in DOMAIN items} = {o \in Objects : listed[o] # Absent}
  BY <1>1, ObjectAssumption
<1>. QED
  BY <1>1, <1>2

LEMMA WorkerObject ==
  ASSUME MapInvariants, NEW r \in Runners, work[r] # 0
  PROVE  /\ pc = "map" /\ mapped = "running" /\ work[r] \in DOMAIN items
         /\ Object(r) \in Objects /\ listed[Object(r)] # Absent
<1>1. work[r] \in 1..Len(items) /\ items \in ItemLists \cup {<<>>}
  BY DEF MapInvariants, MapInv, MapTypeOK
<1>2. pc = "map" /\ mapped = "running" /\ work[r] \in DOMAIN items
  BY <1>1, ListsHaveLengths DEF MapInvariants, MapInv, SettledIsQuiet, Callable
<1>. QED
  BY <1>2, ListedObjects DEF Object

\* Outside of a call of mapBounded nobody works.
LEMMA NobodyWorks ==
  ASSUME MapInvariants, pc # "map" \/ mapped # "running"
  PROVE  \A r \in Runners : work[r] = 0
BY DEF MapInvariants, MapInv, Callable, SettledIsQuiet

\* What a worker may do to the variables of its runner.
LEMMA WorkerActs ==
  ASSUME MapInvariants, DownloadTypes, NEW r \in Runners, Worker(r)
  PROVE  /\ UNCHANGED mapOnly /\ (UNCHANGED faults \/ Fault)
         /\ DownloadTypes'
         /\ UNCHANGED <<items, mapped>>
         /\ \A q \in Runners \ {r} : /\ work'[q] = work[q] /\ stage'[q] = stage[q]
                                     /\ got'[q] = got[q]
         /\ work'[r] = 0 => stage'[r] = "request"
         /\ work[r] = 0 => pc = "map"
<1> USE VersionsAreListings DEF MapInvariants, MapInv, MapTypeOK, DownloadTypes
<1>1. 1 \in 1..MaxAttempts /\ Absent \in Versions /\ live \in [Objects -> Versions]
  BY ObjectAssumption DEF Absent, Callable
<1>2. ASSUME Leaves(r), work' = [work EXCEPT ![r] = 0], UNCHANGED stored
      PROVE  /\ DownloadTypes' /\ stage'[r] = "request"
             /\ \A q \in Runners \ {r} : /\ work'[q] = work[q] /\ stage'[q] = stage[q]
                                         /\ got'[q] = got[q]
  BY <1>1, <1>2 DEF Leaves, Stages
<1>3. CASE TakeObject(r)
  <2>1. UNCHANGED download /\ work' = [work EXCEPT ![r] = cursor] /\ work[r] = 0
    BY <1>3 DEF TakeObject, Take, Free
  <2>2. stage[r] = "request"
    BY <2>1 DEF Idle
  <2>. QED
    BY <1>3, <2>1, <2>2 DEF TakeObject, Take, download
<1>4. CASE Request(r)
  <2>1. CASE \E e \in {"drift", "error"} : Fail(r, e) /\ Leaves(r) /\ UNCHANGED stored
    BY <1>2, <1>4, <2>1 DEF Request, At, Fail
  <2>2. CASE ~\E e \in {"drift", "error"} : Fail(r, e) /\ Leaves(r) /\ UNCHANGED stored
    <3>1. /\ got' = [got EXCEPT ![r] = live[Object(r)]] /\ Goto(r, "body")
          /\ UNCHANGED <<mapVars, tries, stored>> /\ work[r] # 0
      BY <1>4, <2>2 DEF Request, At
    <3>2. live[Object(r)] \in Versions
      BY <1>1, <3>1, WorkerObject
    <3>. QED
      BY <1>4, <3>1, <3>2 DEF Request, Goto, Stages, mapVars
  <2>. QED
    BY <2>1, <2>2
<1>5. CASE Store(r)
  <2>1. CASE Fail(r, "drift") /\ Leaves(r) /\ UNCHANGED stored
    BY <1>2, <1>5, <2>1 DEF Store, At, Fail
  <2>2. CASE stored' = [stored EXCEPT ![Object(r)] = got[r]] /\ Goto(r, "linked")
             /\ UNCHANGED <<mapVars, tries, got>>
    BY <1>5, <2>2 DEF Store, At, Goto, Stages, mapVars
  <2>. QED
    BY <1>5, <2>1, <2>2 DEF Store
<1>6. CASE Tidy(r)
  BY <1>2, <1>6 DEF Tidy, At, Deliver
<1>7. CASE AttemptFails(r)
  <2>1. CASE Fail(r, "error") /\ Leaves(r)
    BY <1>2, <1>7, <2>1 DEF AttemptFails, Fail
  <2>2. CASE /\ tries[r] < MaxAttempts /\ tries' = [tries EXCEPT ![r] = tries[r] + 1]
             /\ Goto(r, "request") /\ got' = [got EXCEPT ![r] = Absent] /\ UNCHANGED mapVars
    <3>1. tries[r] + 1 \in 1..MaxAttempts
      BY <2>2, ObjectAssumption
    <3>. QED
      BY <1>1, <1>7, <2>2, <3>1 DEF AttemptFails, Goto, Stages, mapVars
  <2>. QED
    BY <1>7, <2>1, <2>2 DEF AttemptFails, Again, Refused
<1>. QED
  BY <1>3, <1>4, <1>5, <1>6, <1>7 DEF Worker

LEMMA MapsListedKept ==
  ASSUME MapInvariants, DownloadTypes, [Next]_objectVars
  PROVE  MapsListed'
<1> SUFFICES ASSUME pc' = "map"
             PROVE  /\ phase' = "copy" /\ listed' # NotRead /\ catalog' = listed'
                    /\ items' = ListOf(listed')
  BY DEF MapsListed
<1> USE DEF MapInvariants
<1>1. CASE StartDownloads
  BY <1>1 DEF StartDownloads, queried, StartMap, listing
<1>2. CASE \E r \in Runners : Worker(r)
  BY <1>2, WorkerActs DEF MapsListed, mapOnly, loopVars, listing
<1>3. CASE LeaveOrSettle \/ SourceChanges \/ Aborted \/ UNCHANGED objectVars
  BY <1>3 DEF MapsListed, LeaveOrSettle, SourceChanges, Aborted, objectVars, mapOnly,
     mapVars, loopVars, listing, workspace, Leave, Settle, Cancel
<1>4. CASE QueryBuckets \/ QueryObjects
  BY <1>4 DEF QueryBuckets, QueryObjects, loopVars
<1>. QED
  BY <1>1, <1>2, <1>3, <1>4, CapturedStep DEF Next, Step

LEMMA IdleKept ==
  ASSUME MapInvariants, DownloadTypes, [Next]_objectVars
  PROVE  Idle'
<1>1. CASE UNCHANGED <<work, stage>>
  BY <1>1 DEF MapInvariants, Idle
<1>2. CASE StartDownloads
  <2>1. \A r \in Runners : work[r] = 0
    BY <1>2, NobodyWorks DEF StartDownloads, queried
  <2>. QED
    BY <1>2, <2>1 DEF StartDownloads, download, MapInvariants, Idle
<1>3. ASSUME NEW r \in Runners, Worker(r) PROVE Idle'
  BY <1>3, WorkerActs DEF MapInvariants, Idle
<1>. QED
  BY <1>1, <1>2, <1>3 DEF Next, Step, QueryBuckets, QueryObjects, QueryFails, BeforeTaken,
     AfterTaken, LeaveOrSettle, Leave, Settle, DownloadsRejected, DownloadsTaken, CleanPartial,
     CleanCompleted, SourceChanges, Aborted, Cancel, unmapped, mapVars, download, objectVars

\* What a step of the loop does to the variables of the loop.
LEMMA CapturedKeepsTypes ==
  ASSUME MapInvariants, LoopTypes, DataTypes,
         QueryFails \/ BeforeTaken \/ AfterTaken \/ DownloadsRejected \/ DownloadsTaken
           \/ CleanPartial \/ CleanCompleted
  PROVE  LoopTypes' /\ DataTypes'
<1> USE VersionsAreListings DEF DataTypes
<1>1. /\ UNCHANGED <<source, download>> /\ Relist
      /\ mode' = mode /\ (UNCHANGED faults \/ Fault)
      /\ \/ Caught("error") \/ Caught(Thrown) \/ Taken \/ AfterCleanup \/ CleanupThrows
         \/ Compared(before = <<rooms, listed>>)
  BY DEF QueryFails, BeforeTaken, AfterTaken, DownloadsRejected, DownloadsTaken,
     CleanPartial, CleanCompleted, Removal, AfterCleanup, CleanupThrows, unmapped, Caught,
     Taken, Compared
<1>2. LoopTypes'
  <2>1. faults' \in 0..MaxFaults
    BY <1>1, FaultKeepsTypes DEF LoopTypes
  <2>2. Thrown \in {"drift", "error", "aborted"}
    BY ThrownTypes DEF MapInvariants
  <2>. QED
    BY <1>1, <2>1, <2>2, LoopKeepsTypes
<1>3. rooms' \in Rooms /\ listed' \in Listings
  BY <1>1 DEF Relist, listing, Rooms
<1>4. before' \in Rooms \X Listings /\ catalog' \in Listings /\ index' \in Listings
  BY DEF QueryFails, BeforeTaken, AfterTaken, DownloadsRejected, DownloadsTaken,
     CleanPartial, CleanCompleted, Removal, PartlyRemoved, unmapped, workspace
<1>5. stored' \in [Objects -> Versions]
  BY DEF QueryFails, BeforeTaken, AfterTaken, DownloadsRejected, DownloadsTaken,
     CleanPartial, CleanCompleted, Removal, PartlyRemoved, workspace, DownloadTypes, Absent
<1>. QED
  BY <1>1, <1>2, <1>3, <1>4, <1>5 DEF source, download, DownloadTypes

LEMMA ObjectsKeepTypes ==
  ASSUME MapInvariants, LoopTypes, DataTypes, [Next]_objectVars
  PROVE  LoopTypes' /\ DataTypes'
<1> USE VersionsAreListings
<1>1. CASE QueryBuckets
  BY <1>1 DEF QueryBuckets, DataTypes, DownloadTypes, LoopTypes, loopVars, source, download,
     workspace, Rooms
<1>2. CASE QueryObjects
  <2>1. listed' \in Listings
    BY <1>2 DEF QueryObjects, DataTypes, Absent, Listings
  <2>. QED
    BY <1>2, <2>1 DEF QueryObjects, DataTypes, DownloadTypes, LoopTypes, loopVars, source,
       download, workspace
<1>3. CASE StartDownloads
  BY <1>3 DEF StartDownloads, DataTypes, DownloadTypes, LoopTypes, source, listing, download
<1>4. ASSUME NEW r \in Runners, Worker(r) PROVE LoopTypes' /\ DataTypes'
  <2>1. /\ UNCHANGED mapOnly /\ (UNCHANGED faults \/ Fault) /\ DownloadTypes'
    BY <1>4, WorkerActs DEF DataTypes
  <2>2. faults' \in 0..MaxFaults
    BY <2>1, FaultKeepsTypes DEF LoopTypes
  <2>. QED
    BY <2>1, <2>2 DEF mapOnly, loopVars, source, listing, DataTypes, LoopTypes
<1>5. CASE LeaveOrSettle \/ Aborted \/ UNCHANGED objectVars
  BY <1>5 DEF LeaveOrSettle, Aborted, objectVars, mapOnly, DataTypes, DownloadTypes, LoopTypes,
     loopVars, source, listing, download, workspace
<1>6. CASE SourceChanges
  <2>1. /\ clock' \in Versions /\ live' \in [Objects -> Versions] /\ open' \subseteq Buckets
    BY <1>6 DEF SourceChanges, DataTypes, Versions, Absent
  <2>. QED
    BY <1>6, <2>1 DEF SourceChanges, DataTypes, DownloadTypes, LoopTypes, loopVars, listing,
       download, workspace
<1>. QED
  BY <1>1, <1>2, <1>3, <1>4, <1>5, <1>6, CapturedKeepsTypes DEF Next, Step

LEMMA InitObjectTypes == Init => MapsListed /\ Idle /\ LoopTypes /\ DataTypes
<1> SUFFICES ASSUME Init PROVE MapsListed /\ Idle /\ LoopTypes /\ DataTypes
  OBVIOUS
<1>1. LoopTypes
  <2>1. faults \in 0..MaxFaults /\ attempt \in 1..(MaxRetries + 1)
    BY LoopAssumption DEF Init, LoopInit
  <2>2. drift \in BOOLEAN
    BY DEF Init, LoopInit
  <2>3. /\ mode \in Modes /\ phase \in {"before", "copy", "after"}
        /\ pc \in {"list", "map", "partial", "completed", "stable", "unstable", "threw"}
        /\ exc \in Exceptions
    BY DEF Init, LoopInit, Exceptions
  <2>. QED
    BY <2>1, <2>2, <2>3 DEF LoopTypes
<1>2. MapsListed /\ Idle
  BY DEF Init, LoopInit, MapsListed, Idle
<1>3. DownloadTypes
  BY VersionsAreListings, ObjectAssumption DEF Init, DownloadTypes, Stages, Absent
<1>4. DataTypes
  BY <1>3, VersionsAreListings DEF Init, DataTypes, Rooms, Absent
<1>. QED
  BY <1>1, <1>2, <1>4

-----------------------------------------------------------------------------
\* What the workspace holds.

Reading == pc \in {"list", "map"}

\* The workspace is empty until a copy writes to it, and after a clean failure.
EmptyAtFirst ==
  \/ phase = "before" /\ Reading
  \/ phase = "copy" /\ pc = "list"
  \/ pc = "threw" /\ exc # "cleanup_failed"
  => Bare

NotIndexedYet == pc = "partial" \/ (phase = "copy" /\ Reading) => index = NotRead

\* Version v is one that the catalog lets object o have.
Admitted(o, v) == listed[o] # Absent /\ (o \in Tagged => v = listed[o])

\* What a runner knows of its download.
Knows(r) ==
  /\ stage[r] = "body" => got[r] # Absent /\ Admitted(Object(r), got[r])
  /\ stage[r] = "linked" => stored[Object(r)] # Absent

CopyHolds ==
  pc = "map" =>
    /\ \A o \in Objects : stored[o] # Absent => Admitted(o, stored[o])
    /\ \A i \in results : stored[items[i]] # Absent
    /\ \A r \in Runners : work[r] # 0 => Knows(r)

FailedCleanupEnds == exc = "cleanup_failed" => pc = "threw"

StoredInv ==
  /\ EmptyAtFirst /\ NotIndexedYet /\ FailedCleanupEnds /\ CopyHolds
  /\ IndexedObjectsAreStored

ObjectInv == MapInvariants /\ LoopTypes /\ DataTypes /\ StoredInv

-----------------------------------------------------------------------------

\* How the runner of a worker stands after a step of it.
LEMMA WorkerKeepsHold ==
  ASSUME ObjectInv, NEW r \in Runners, Worker(r)
  PROVE  CopyHolds'
<1> USE DEF ObjectInv, MapInvariants, DataTypes, DownloadTypes
<1>1. /\ UNCHANGED <<pc, listed, items>> /\ CopyHolds /\ work \in [Runners -> 0..Len(items)]
      /\ \A q \in Runners \ {r} : /\ work'[q] = work[q] /\ stage'[q] = stage[q]
                                  /\ got'[q] = got[q]
  BY WorkerActs DEF mapOnly, loopVars, listing, StoredInv, MapInv, MapTypeOK
<1> SUFFICES ASSUME pc = "map"
             PROVE  CopyHolds'
  BY <1>1 DEF CopyHolds
<1>2. CASE Store(r) /\ UNCHANGED <<mapVars, got>>
  <2>1. /\ work[r] # 0 /\ stage[r] = "body" /\ stored' = [stored EXCEPT ![Object(r)] = got[r]]
        /\ stage' = [stage EXCEPT ![r] = "linked"]
    BY <1>2 DEF Store, At, Goto, Fail, Leaves, mapVars
  <2>2. Object(r) \in Objects /\ got[r] # Absent /\ Admitted(Object(r), got[r])
    BY <1>1, <2>1, WorkerObject DEF CopyHolds, Knows
  <2>3. \A q \in Runners : Object(q)' = Object(q)
    BY <1>2 DEF Object, mapVars
  <2>4. \A i \in results : items[i] \in Objects
    BY ListedObjects DEF MapInv, MapTypeOK
  <2>5. \A q \in Runners : work[q] # 0 => Object(q) \in Objects
    BY WorkerObject
  <2>. QED
    BY <1>1, <1>2, <2>1, <2>2, <2>3, <2>4, <2>5 DEF CopyHolds, Knows, Admitted, mapVars
<1>3. CASE ~(Store(r) /\ UNCHANGED <<mapVars, got>>)
  <2>1. stored' = stored
    BY <1>3 DEF Worker, TakeObject, Request, Store, Tidy, AttemptFails, mapVars
  <2>2. \A i \in results' : stored[items[i]] # Absent
    <3>1. CASE results' = results
      BY <1>1, <3>1 DEF CopyHolds
    <3>2. CASE Tidy(r)
      BY <1>1, <3>2 DEF Tidy, At, Deliver, CopyHolds, Knows, Object
    <3>. QED
      BY <3>1, <3>2 DEF Worker, TakeObject, Take, Request, Store, AttemptFails, Again, Refused,
         Fail, mapVars
  <2>3. work'[r] # 0 => Knows(r)'
    <3>1. CASE TakeObject(r)
      <4>1. stage'[r] = "request"
        BY <3>1 DEF TakeObject, Take, Free, download, Idle
      <4>. QED
        BY <4>1 DEF Knows
    <3>2. CASE Request(r)
      <4>1. CASE work'[r] # 0
        <5>1. /\ got' = [got EXCEPT ![r] = live[Object(r)]] /\ live[Object(r)] # Absent
              /\ stage' = [stage EXCEPT ![r] = "body"] /\ work[r] # 0 /\ work' = work
              /\ Object(r) \in Tagged => live[Object(r)] = listed[Object(r)]
          BY <1>1, <3>2, <4>1 DEF Request, Fail, Goto, At, mapVars
        <5>2. Object(r)' = Object(r) /\ listed[Object(r)] # Absent
          BY <1>1, <5>1, WorkerObject DEF Object
        <5>. QED
          BY <1>1, <5>1, <5>2 DEF Knows, Admitted
      <4>. QED
        BY <4>1
    <3>3. CASE Store(r) \/ Tidy(r)
      <4>1. work'[r] = 0
        BY <1>1, <1>3, <3>3 DEF Store, Tidy, Fail, Deliver
      <4>. QED
        BY <4>1
    <3>4. CASE AttemptFails(r)
      <4>1. work'[r] = 0 \/ stage'[r] = "request"
        BY <1>1, <3>4 DEF AttemptFails, Again, Refused, Fail, Goto
      <4>. QED
        BY <4>1 DEF Knows
    <3>. QED
      BY <3>1, <3>2, <3>3, <3>4 DEF Worker
  <2>4. ASSUME NEW q \in Runners \ {r}, work'[q] # 0 PROVE Knows(q)'
    <3>1. Knows(q)
      BY <1>1, <2>4 DEF CopyHolds
    <3>. QED
      BY <1>1, <2>1, <3>1 DEF Knows, Admitted, Object
  <2>. QED
    BY <1>1, <2>1, <2>2, <2>3, <2>4 DEF CopyHolds, Admitted
<1>. QED
  BY <1>2, <1>3

LEMMA WorkerKeepsStored ==
  ASSUME ObjectInv, NEW r \in Runners, Worker(r)
  PROVE  StoredInv'
<1>1. pc = "map" /\ phase = "copy" /\ UNCHANGED <<pc, phase, exc, catalog, index>>
  BY WorkerActs, WorkerObject DEF ObjectInv, DataTypes, MapInvariants, MapsListed, mapOnly, loopVars
<1>2. index = NotRead
  BY <1>1 DEF ObjectInv, StoredInv, NotIndexedYet, Reading
<1>. QED
  BY <1>1, <1>2, WorkerKeepsHold DEF ObjectInv, StoredInv, EmptyAtFirst, NotIndexedYet,
     FailedCleanupEnds, Reading, IndexedObjectsAreStored

(* A step that leaves the workspace, the listing, the workers and the place *)
(* of the capture alone.                                                    *)
LEMMA BystanderKeepsStored ==
  ASSUME ObjectInv,
         UNCHANGED <<pc, phase, exc, listed, items, results, work, download, workspace>>
  PROVE  StoredInv'
BY DEF ObjectInv, StoredInv, EmptyAtFirst, NotIndexedYet, FailedCleanupEnds, CopyHolds, Knows, Admitted, Object,
       IndexedObjectsAreStored, Bare, Reading, download, workspace

\* Queries, and the call of mapBounded.
LEMMA StartKeepsStored ==
  ASSUME ObjectInv, QueryBuckets \/ QueryObjects \/ StartDownloads
  PROVE  StoredInv'
<1> USE DEF ObjectInv, StoredInv
<1>1. CASE QueryBuckets \/ QueryObjects
  <2>1. pc = "list" /\ UNCHANGED <<pc, phase, exc, workspace>>
    BY <1>1 DEF QueryBuckets, QueryObjects, loopVars
  <2>. QED
    BY <2>1 DEF EmptyAtFirst, NotIndexedYet, FailedCleanupEnds, CopyHolds, IndexedObjectsAreStored, Bare,
       Reading, workspace
<1>2. CASE StartDownloads
  <2>1. /\ pc = "list" /\ phase = "copy" /\ pc' = "map" /\ UNCHANGED <<phase, exc, stored, index>>
        /\ results' = {} /\ \A r \in Runners : work'[r] = 0
    BY <1>2 DEF StartDownloads, queried, StartMap
  <2>2. stored = Nothing /\ index = NotRead
    BY <2>1 DEF EmptyAtFirst, Bare
  <2>. QED
    BY <2>1, <2>2 DEF EmptyAtFirst, NotIndexedYet, FailedCleanupEnds, CopyHolds,
       IndexedObjectsAreStored, Nothing, Reading
<1>. QED
  BY <1>1, <1>2

(* The loop goes on from a capture that is over; the copy leaves its index. *)
LEMMA GoingOnKeepsStored ==
  ASSUME ObjectInv, QueryFails \/ BeforeTaken \/ AfterTaken \/ DownloadsRejected \/ DownloadsTaken
  PROVE  StoredInv'
<1> USE DEF ObjectInv, StoredInv
<1>1. /\ Reading /\ stored' = stored /\ phase \in {"before", "copy", "after"}
      /\ pc = "map" => phase = "copy"
  BY DEF QueryFails, BeforeTaken, AfterTaken, DownloadsRejected, DownloadsTaken, queried,
     Reading, workspace, LoopTypes, MapInvariants, MapsListed
<1>2. pc' # "map" /\ CopyHolds' /\ FailedCleanupEnds' /\ exc # "cleanup_failed"
  <2>1. pc' # "map" /\ CopyHolds'
    BY CapturedStep DEF MapInvariants, CopyHolds
  <2>2. exc # "cleanup_failed"
    BY <1>1 DEF FailedCleanupEnds, Reading
  <2>3. exc' # "cleanup_failed"
    <3>1. CASE BeforeTaken \/ AfterTaken \/ DownloadsTaken
      BY <2>2, <3>1 DEF BeforeTaken, AfterTaken, DownloadsTaken, Taken, Compared, End,
         StartCapture
    <3>2. CASE QueryFails \/ DownloadsRejected
      <4>1. \E e \in {"drift", "error", "aborted"} : Caught(e)
        BY <3>2, ThrownTypes DEF QueryFails, DownloadsRejected, MapInvariants
      <4>. QED
        BY <2>2, <4>1 DEF Caught, Rethrow, DriftAction, End, StartCapture
    <3>. QED
      BY <3>1, <3>2
  <2>. QED
    BY <2>1, <2>2, <2>3 DEF FailedCleanupEnds
<1>3. CASE QueryFails \/ DownloadsRejected
  <2>1. UNCHANGED workspace /\ \E e \in {"drift", "error", "aborted"} : Caught(e)
    BY <1>3, ThrownTypes DEF QueryFails, DownloadsRejected, MapInvariants
  <2>2. /\ phase' = phase
        /\ phase = "before" => pc' \in {"threw", "list"}
        /\ phase = "copy" => pc' = "partial"
        /\ phase = "after" => pc' \in {"unstable", "completed"}
    BY <2>1, CaughtGoesOn
  <2>3. EmptyAtFirst' /\ NotIndexedYet' /\ IndexedObjectsAreStored'
    BY <1>1, <1>2, <2>1, <2>2 DEF EmptyAtFirst, NotIndexedYet, IndexedObjectsAreStored,
       Reading, Bare, workspace
  <2>. QED
    BY <1>2, <2>3
<1>4. CASE AfterTaken
  <2>1. UNCHANGED workspace /\ phase = "after" /\ phase' = phase
        /\ pc' \in {"stable", "unstable", "completed"}
    BY <1>4 DEF AfterTaken, Compared, End
  <2>2. IndexedObjectsAreStored'
    BY <1>2, <1>4, <2>1 DEF AfterTaken, queried, IndexedObjectsAreStored, workspace
  <2>. QED
    BY <1>2, <2>1, <2>2 DEF EmptyAtFirst, NotIndexedYet, Reading
<1>5. CASE BeforeTaken
  <2>1. /\ UNCHANGED workspace /\ Bare
    BY <1>1, <1>5 DEF BeforeTaken, EmptyAtFirst
  <2>. QED
    BY <1>2, <2>1 DEF EmptyAtFirst, NotIndexedYet, IndexedObjectsAreStored, Bare,
       workspace
<1>6. CASE DownloadsTaken
  <2>1. /\ pc = "map" /\ mapped = "returned" /\ Taken /\ phase = "copy"
        /\ index' = listed /\ UNCHANGED catalog /\ catalog = listed
    BY <1>6 DEF DownloadsTaken, MapInvariants, MapsListed
  <2>2. /\ \A o \in Objects : stored[o] # Absent => Admitted(o, stored[o])
        /\ \A o \in Objects : listed[o] # Absent => stored[o] # Absent
    <3>1. results = DOMAIN items
      BY <2>1 DEF MapInvariants, MapInv, ReturnedIsComplete
    <3>. QED
      BY <2>1, <3>1, ListedObjects DEF CopyHolds
  <2>3. Tagged \subseteq Objects
    BY ObjectAssumption
  <2>4. IndexedObjectsAreStored'
    BY <1>1, <2>1, <2>2, <2>3 DEF IndexedObjectsAreStored, Admitted
  <2>. QED
    BY <1>2, <2>1, <2>4, TakenGoesOn DEF EmptyAtFirst, NotIndexedYet, Reading
<1>. QED
  BY <1>3, <1>4, <1>5, <1>6

LEMMA CleaningKeepsStored ==
  ASSUME ObjectInv, CleanPartial \/ CleanCompleted
  PROVE  StoredInv'
<1> USE DEF ObjectInv, StoredInv
<1>1. pc' # "map" /\ pc' # "partial" /\ CopyHolds' /\ FailedCleanupEnds'
  BY DEF FailedCleanupEnds, CleanPartial, CleanCompleted, Removal, AfterCleanup, Rethrow,
     DriftAction, End, StartCapture, CleanupThrows, CopyHolds
<1>2. CASE Bare' /\ AfterCleanup
  BY <1>1, <1>2 DEF EmptyAtFirst, NotIndexedYet, IndexedObjectsAreStored, Bare
<1>3. CASE CleanupThrows
  <2>1. pc' = "threw" /\ exc' = "cleanup_failed"
    BY <1>3 DEF CleanupThrows, End
  <2>. QED
    BY <1>1, <2>1 DEF EmptyAtFirst, NotIndexedYet, IndexedObjectsAreStored, Reading
<1>. QED
  BY <1>2, <1>3 DEF CleanPartial, CleanCompleted, Removal, Bare

LEMMA InitObjectInv == Init => ObjectInv
<1> SUFFICES ASSUME Init PROVE ObjectInv
  OBVIOUS
<1>1. MapInvariants /\ LoopTypes /\ DataTypes
  BY MapStarts, InitCallable, InitObjectTypes DEF MapInvariants, Init, LoopInit
<1>2. Bare /\ pc = "list" /\ exc = "none"
  BY DEF Init, LoopInit, Bare
<1>. QED
  BY <1>1, <1>2 DEF ObjectInv, StoredInv, EmptyAtFirst, NotIndexedYet, FailedCleanupEnds,
     CopyHolds, IndexedObjectsAreStored, Bare

LEMMA ObjectInvKept == ObjectInv /\ [Next]_objectVars => ObjectInv'
<1> SUFFICES ASSUME ObjectInv, [Next]_objectVars PROVE ObjectInv'
  OBVIOUS
<1>1. MapInvariants /\ LoopTypes /\ DataTypes /\ DownloadTypes
  BY DEF ObjectInv, DataTypes
<1>2. MapInvariants'
  <2>1. MapInv /\ Callable
    BY <1>1 DEF MapInvariants
  <2>2. Callable' /\ MapStep
    BY <2>1, EveryStep
  <2>3. MapInv'
    BY <2>1, <2>2, MapStepKeeps DEF MapStep
  <2>. QED
    BY <1>1, <2>2, <2>3, MapsListedKept, IdleKept DEF MapInvariants
<1>3. LoopTypes' /\ DataTypes'
  BY <1>1, ObjectsKeepTypes
<1>4. StoredInv'
  <2>1. CASE LeaveOrSettle \/ SourceChanges \/ Aborted \/ UNCHANGED objectVars
    <3>1. UNCHANGED <<pc, phase, exc, listed, items, results, work, download, workspace>>
      BY <2>1 DEF LeaveOrSettle, Leave, Settle, SourceChanges, Aborted, Cancel, objectVars,
         mapOnly, mapVars, loopVars, listing, workspace
    <3>. QED
      BY <3>1, BystanderKeepsStored
  <2>. QED
    BY <2>1, WorkerKeepsStored, StartKeepsStored, GoingOnKeepsStored, CleaningKeepsStored
       DEF Next, Step
<1>. QED
  BY <1>2, <1>3, <1>4 DEF ObjectInv

\* The inductive invariant of the file-storage step.
THEOREM ObjectInvariant == Spec => []ObjectInv
BY InitObjectInv, ObjectInvKept, PTL DEF Spec

\* The types of the file-storage step (fileStorageStep, runConsistentCopy, mapBounded).
THEOREM ObjectTypeCorrect == Spec => []ObjectTypeOK
<1>1. ObjectInv => ObjectTypeOK
  BY TypesAreTypes DEF ObjectInv
<1> QED BY <1>1, ObjectInvariant, PTL

\* The index names an object exactly when it is stored, and in the version of the
\* catalog where there is an ETag, whatever is uploaded or deleted meanwhile.
THEOREM ObjectsIndexedAreStored == Spec => []IndexedObjectsAreStored
<1>1. ObjectInv => IndexedObjectsAreStored
  BY DEF ObjectInv, StoredInv
<1> QED BY <1>1, ObjectInvariant, PTL

\* A step that threw leaves none of its files unless a cleanup failed.
THEOREM ObjectsLeaveNothing == Spec => []NoObjectIsLeftBehind
<1>1. ObjectInv => NoObjectIsLeftBehind
  BY DEF ObjectInv, StoredInv, EmptyAtFirst, Bare, NoObjectIsLeftBehind
<1> QED BY <1>1, ObjectInvariant, PTL

-----------------------------------------------------------------------------
\* What a stable result is.

\* Every version was given out by the clock, and an object lies in an open bucket.
Clocked ==
  /\ \A o \in Objects : live[o] <= clock /\ (live[o] # Absent => BucketOf[o] \in open)
  /\ listed # NotRead => \A o \in Objects : listed[o] <= clock
  /\ before[2] # NotRead => \A o \in Objects : before[2][o] <= clock

\* Object o still is what the first snapshot saw.
Standing(o) == before[2][o] # Absent /\ live[o] = before[2][o]

CopyStands ==
  phase = "copy" =>
    \A o \in Objects : Standing(o) =>
      /\ pc = "list" /\ rooms # {"unread"} => BucketOf[o] \in rooms
      /\ Reading /\ listed # NotRead => listed[o] = before[2][o]
      /\ pc = "map" =>
           /\ stored[o] \in {Absent, before[2][o]}
           /\ \A r \in Runners :
                work[r] # 0 /\ Object(r) = o /\ stage[r] = "body" => got[r] = before[2][o]

\* The object is what the first snapshot saw, as far as the second one knows.
Matching(o) ==
  before[2][o] # Absent /\ before[2][o] = IF listed = NotRead THEN live[o] ELSE listed[o]

AfterStands ==
  phase = "after" /\ pc = "list" =>
    \A o \in Objects : Matching(o) => stored[o] = before[2][o] /\ catalog[o] = before[2][o]

StandingInv == Clocked /\ CopyStands /\ AfterStands /\ StableObjectsAreTheSnapshot

LEMMA StandingNumbers ==
  ObjectInv => /\ clock \in Nat /\ MaxVersion \in Nat /\ clock <= MaxVersion
               /\ live \in [Objects -> Nat] /\ listed \in [Objects -> Nat]
               /\ before[2] \in [Objects -> Nat]
               /\ \A o \in Objects : live[o] <= MaxVersion
<1>1. MaxVersion \in Nat
  BY ObjectAssumption
<1> QED BY <1>1 DEF ObjectInv, DataTypes, Versions, Listings

LEMMA ClockedKept ==
  ASSUME ObjectInv, Clocked, [Next]_objectVars
  PROVE  Clocked'
<1> USE StandingNumbers, ObjectAssumption
<1>1. CASE UNCHANGED <<source, listed, before>>
  BY <1>1 DEF Clocked, source
<1>2. CASE SourceChanges
  <2>1. UNCHANGED <<listed, before>> /\ clock <= clock' /\ clock' \in Nat
    BY <1>2 DEF SourceChanges, listing
  <2>2. \A o \in Objects : live'[o] <= clock' /\ (live'[o] # Absent => BucketOf[o] \in open')
    BY <1>2, <2>1 DEF SourceChanges, Clocked, Absent
  <2>3. ASSUME NEW seen \in [Objects -> Nat], \A o \in Objects : seen[o] <= clock
        PROVE  \A o \in Objects : seen[o] <= clock'
    <3> SUFFICES ASSUME NEW o \in Objects PROVE seen[o] <= clock'
      OBVIOUS
    <3>1. seen[o] <= clock /\ seen[o] \in Nat
      BY <2>3
    <3>. QED
      BY <2>1, <3>1
  <2>. QED
    BY <2>1, <2>2, <2>3 DEF Clocked
<1>3. CASE QueryObjects
  BY <1>3 DEF QueryObjects, Clocked, source, Absent
<1>4. CASE BeforeTaken
  <2>1. before' = <<rooms, listed>> /\ UNCHANGED source /\ Relist /\ listed # NotRead
    BY <1>4 DEF BeforeTaken, queried
  <2>. QED
    BY <2>1 DEF Clocked, source, Relist, listing
<1>5. CASE UNCHANGED <<source, before>> /\ Relist
  BY <1>5 DEF Clocked, source, Relist, listing
<1>. QED
  BY <1>1, <1>2, <1>3, <1>4, <1>5, WorkerActs DEF Next, Step, QueryBuckets, QueryFails,
     AfterTaken, StartDownloads, LeaveOrSettle, DownloadsRejected, DownloadsTaken,
     CleanPartial, CleanCompleted, Aborted, ObjectInv, DataTypes, mapOnly, unmapped, listing,
     objectVars

\* Once it stands no longer an object never will again.
LEMMA NeverAgain ==
  ASSUME ObjectInv, Clocked, [Next]_objectVars, UNCHANGED before, NEW o \in Objects,
         Standing(o)'
  PROVE  Standing(o)
<1>1. CASE UNCHANGED live
  BY <1>1 DEF Standing
<1>2. CASE SourceChanges
  <2>1. live'[o] = live[o] \/ live'[o] = Absent \/ (live'[o] = clock + 1 /\ clock < MaxVersion)
    BY <1>2, StandingNumbers DEF SourceChanges
  <2>2. CASE live'[o] = clock + 1 /\ clock < MaxVersion
    <3>1. before[2][o] = clock + 1 /\ clock < MaxVersion
      BY <2>2 DEF Standing
    <3>2. before[2] # NotRead
      BY <3>1, StandingNumbers DEF NotRead
    <3>. QED
      BY <3>1, <3>2, StandingNumbers DEF Clocked
  <2>. QED
    BY <2>1, <2>2 DEF Standing
<1>. QED
  BY <1>1, <1>2, WorkerActs DEF Next, Step, QueryBuckets, QueryObjects, QueryFails, BeforeTaken,
     AfterTaken, StartDownloads, LeaveOrSettle, DownloadsRejected, DownloadsTaken,
     CleanPartial, CleanCompleted, Aborted, ObjectInv, DataTypes, mapOnly, unmapped, source,
     objectVars

\* Outside of a capture for a copy or a second snapshot there is nothing to hold.
LEMMA NotReading ==
  ASSUME pc' # "stable", phase' = "before" \/ pc' \notin {"list", "map"}
  PROVE  CopyStands' /\ AfterStands' /\ StableObjectsAreTheSnapshot'
BY DEF CopyStands, AfterStands, StableObjectsAreTheSnapshot, Reading

Stands == CopyStands /\ AfterStands /\ StableObjectsAreTheSnapshot

LEMMA QueriesKeepStands ==
  ASSUME ObjectInv, StandingInv, QueryBuckets \/ QueryObjects
  PROVE  Stands'
<1> USE DEF StandingInv, Stands
<1>1. pc = "list" /\ UNCHANGED <<pc, phase, live, before, work, workspace>>
  BY DEF QueryBuckets, QueryObjects, loopVars, source, mapVars
<1>2. \A o \in Objects : Standing(o) => BucketOf[o] \in open
  BY DEF Clocked, Standing
<1>3. CopyStands'
  BY <1>1, <1>2 DEF CopyStands, Standing, QueryBuckets, QueryObjects, Reading
<1>4. AfterStands'
  <2>1. CASE QueryBuckets
    BY <1>1, <2>1 DEF QueryBuckets, AfterStands, Matching, workspace
  <2>2. CASE QueryObjects
    <3>1. ASSUME NEW o \in Objects, Matching(o)' PROVE Matching(o)
      <4>1. listed'[o] = live[o] \/ listed'[o] = Absent
        BY <2>2 DEF QueryObjects
      <4>2. listed' # NotRead
        BY <4>1, StandingNumbers DEF NotRead, Absent
      <4>. QED
        BY <1>1, <2>2, <3>1, <4>1, <4>2 DEF QueryObjects, Matching
    <3>. QED
      BY <1>1, <3>1 DEF AfterStands, workspace
  <2>. QED
    BY <2>1, <2>2
<1>. QED
  BY <1>1, <1>3, <1>4 DEF StableObjectsAreTheSnapshot

LEMMA BystanderKeepsStands ==
  ASSUME ObjectInv, StandingInv, [Next]_objectVars,
         UNCHANGED <<pc, phase, listing, before, items, work, download, workspace>>
  PROVE  Stands'
<1> USE DEF StandingInv, Stands, listing, workspace, download
<1>1. \A o \in Objects : Standing(o)' => Standing(o)
  BY NeverAgain
<1>2. CopyStands'
  BY <1>1 DEF CopyStands, Standing, Reading, Object
<1>3. \A o \in Objects : Matching(o)' => Matching(o)
  BY <1>1 DEF Matching, Standing
<1>. QED
  BY <1>2, <1>3 DEF AfterStands, StableObjectsAreTheSnapshot, TheSnapshot

LEMMA WorkerKeepsStands ==
  ASSUME ObjectInv, StandingInv, NEW r \in Runners, Worker(r)
  PROVE  Stands'
<1> USE DEF StandingInv, Stands, ObjectInv, MapInvariants, DataTypes
<1>1. /\ pc = "map" /\ phase = "copy" /\ UNCHANGED <<pc, phase, live, listed, before, items>>
      /\ \A q \in Runners \ {r} : /\ work'[q] = work[q] /\ stage'[q] = stage[q]
                                  /\ got'[q] = got[q]
      /\ work \in [Runners -> 0..Len(items)] /\ DownloadTypes
  BY WorkerActs, WorkerObject DEF MapsListed, mapOnly, loopVars, source, listing, MapInv, MapTypeOK
<1> SUFFICES ASSUME NEW o \in Objects, Standing(o)
             PROVE  /\ stored'[o] \in {Absent, before[2][o]}
                    /\ \A q \in Runners :
                         work'[q] # 0 /\ Object(q)' = o /\ stage'[q] = "body" =>
                           got'[q] = before[2][o]
  BY <1>1 DEF CopyStands, AfterStands, StableObjectsAreTheSnapshot, Standing, Reading
<1>2. /\ stored[o] \in {Absent, before[2][o]}
      /\ \A q \in Runners :
           work[q] # 0 /\ Object(q) = o /\ stage[q] = "body" => got[q] = before[2][o]
  BY <1>1 DEF CopyStands
<1>3. stored'[o] \in {Absent, before[2][o]}
  <2>1. CASE stored' = stored
    BY <1>2, <2>1
  <2>2. CASE stored' # stored
    <3>1. /\ work[r] # 0 /\ stage[r] = "body"
          /\ stored' = [stored EXCEPT ![Object(r)] = got[r]]
      BY <2>2 DEF Worker, TakeObject, Request, Store, At, Tidy, AttemptFails
    <3>. QED
      BY <1>1, <1>2, <3>1 DEF DownloadTypes
  <2>. QED
    BY <2>1, <2>2
<1>4. ASSUME NEW q \in Runners \ {r}, work'[q] # 0, Object(q)' = o, stage'[q] = "body"
      PROVE  got'[q] = before[2][o]
  BY <1>1, <1>2, <1>4 DEF Object
<1>5. ASSUME work'[r] # 0, Object(r)' = o, stage'[r] = "body"
      PROVE  got'[r] = before[2][o]
  <2>1. CASE TakeObject(r)
    <3>1. stage'[r] = "request"
      BY <2>1 DEF TakeObject, Take, Free, download, Idle
    <3>. QED
      BY <1>5, <3>1
  <2>2. CASE Request(r)
    <3>1. got' = [got EXCEPT ![r] = live[Object(r)]] /\ UNCHANGED mapVars
      BY <1>1, <1>5, <2>2 DEF Request, Fail
    <3>2. Object(r) = o /\ got'[r] = live[Object(r)]
      BY <1>1, <1>5, <3>1 DEF Object, mapVars, DownloadTypes
    <3>. QED
      BY <3>2 DEF Standing
  <2>3. CASE Store(r) \/ Tidy(r) \/ AttemptFails(r)
    <3>1. work'[r] = 0 \/ stage'[r] \in {"linked", "request"}
      BY <1>1, <2>3 DEF Store, Tidy, AttemptFails, Again, Refused, Fail, Deliver, Goto, DownloadTypes
    <3>. QED
      BY <1>5, <3>1
  <2>. QED
    BY <2>1, <2>2, <2>3 DEF Worker
<1>. QED
  BY <1>3, <1>4, <1>5

LEMMA StartKeepsStands ==
  ASSUME ObjectInv, StandingInv, StartDownloads
  PROVE  Stands'
<1> USE DEF StandingInv, Stands
<1>1. /\ pc = "list" /\ phase = "copy" /\ listed # NotRead /\ pc' = "map"
      /\ UNCHANGED <<phase, live, listed, before, stored>> /\ \A r \in Runners : work'[r] = 0
  BY DEF StartDownloads, queried, StartMap, source, listing
<1>2. \A o \in Objects : stored[o] = Absent
  BY <1>1 DEF ObjectInv, StoredInv, EmptyAtFirst, Bare, Nothing
<1>. QED
  BY <1>1, <1>2 DEF CopyStands, AfterStands, StableObjectsAreTheSnapshot, Standing, Reading

LEMMA TakenKeepsStands ==
  ASSUME ObjectInv, StandingInv, BeforeTaken \/ AfterTaken \/ DownloadsTaken
  PROVE  Stands'
<1> USE DEF StandingInv, Stands
<1>1. CASE BeforeTaken
  <2>1. Taken /\ Relist /\ phase = "before"
    BY <1>1 DEF BeforeTaken
  <2>2. CASE phase' = "copy" /\ pc' = "list"
    BY <2>1, <2>2 DEF Relist, CopyStands, AfterStands, StableObjectsAreTheSnapshot, Reading
  <2>. QED
    BY <2>1, <2>2, TakenGoesOn, NotReading
<1>2. CASE AfterTaken
  <2>1. /\ phase = "after" /\ pc = "list" /\ listed # NotRead
        /\ pc' \in {"stable", "unstable", "completed"}
        /\ pc' = "stable" => before = <<rooms, listed>>
        /\ UNCHANGED <<before, stored, catalog>>
    BY <1>2 DEF AfterTaken, queried, Compared, End, workspace
  <2>2. ASSUME pc' = "stable", NEW o \in Objects, before[2][o] # Absent
        PROVE  stored[o] = before[2][o] /\ catalog[o] = before[2][o]
    BY <2>1, <2>2 DEF AfterStands, Matching
  <2>. QED
    BY <2>1, <2>2 DEF CopyStands, AfterStands, StableObjectsAreTheSnapshot, TheSnapshot, Reading
<1>3. CASE DownloadsTaken
  <2>1. /\ pc = "map" /\ mapped = "returned" /\ Taken /\ Relist
        /\ phase = "copy" /\ catalog = listed /\ listed # NotRead
        /\ UNCHANGED <<live, before, stored, catalog>>
    BY <1>3 DEF DownloadsTaken, ObjectInv, MapInvariants, MapsListed, unmapped, source
  <2>2. CASE phase' = "after" /\ pc' = "list"
    <3>1. listed' = NotRead
      BY <2>1, <2>2 DEF Relist
    <3>2. results = DOMAIN items
      BY <2>1 DEF ObjectInv, MapInvariants, MapInv, ReturnedIsComplete
    <3>3. \A o \in Objects : listed[o] # Absent => stored[o] # Absent
      BY <2>1, <3>2, ListedObjects DEF ObjectInv, StoredInv, CopyHolds
    <3>4. ASSUME NEW o \in Objects, Matching(o)'
          PROVE  stored[o] = before[2][o] /\ catalog[o] = before[2][o]
      <4>1. Standing(o) /\ before[2][o] # Absent
        BY <2>1, <3>1, <3>4 DEF Matching, Standing
      <4>2. listed[o] = before[2][o] /\ stored[o] \in {Absent, before[2][o]}
        BY <2>1, <4>1 DEF CopyStands, Reading
      <4>. QED
        BY <2>1, <3>3, <4>1, <4>2
    <3>. QED
      BY <2>1, <2>2, <3>4 DEF CopyStands, AfterStands, StableObjectsAreTheSnapshot
  <2>. QED
    BY <2>1, <2>2, TakenGoesOn, NotReading
<1>. QED
  BY <1>1, <1>2, <1>3

LEMMA StandingKept == ObjectInv /\ StandingInv /\ [Next]_objectVars => StandingInv'
<1> SUFFICES ASSUME ObjectInv, StandingInv, [Next]_objectVars PROVE StandingInv'
  OBVIOUS
<1>1. Clocked'
  BY ClockedKept DEF StandingInv
<1>2. CASE QueryFails \/ DownloadsRejected
  <2>1. \E e \in {"drift", "error", "aborted"} : Caught(e)
    BY <1>2, ThrownTypes DEF QueryFails, DownloadsRejected, ObjectInv, MapInvariants
  <2>2. phase \in {"before", "copy", "after"} /\ LoopTypes
    BY DEF ObjectInv, LoopTypes
  <2>. QED
    BY <1>1, <2>1, <2>2, CaughtGoesOn, NotReading DEF StandingInv
<1>3. CASE CleanPartial \/ CleanCompleted
  <2>1. AfterCleanup \/ CleanupThrows
    BY <1>3 DEF CleanPartial, CleanCompleted, Removal
  <2>2. pc' = "threw" \/ (pc' = "list" /\ phase' = "before")
    BY <2>1, CleanedGoesOn DEF CleanupThrows, End
  <2>. QED
    BY <1>1, <2>2, NotReading DEF StandingInv
<1>4. CASE LeaveOrSettle \/ SourceChanges \/ Aborted \/ UNCHANGED objectVars
  <2>1. UNCHANGED <<pc, phase, listing, before, items, work, download, workspace>>
    BY <1>4 DEF LeaveOrSettle, Leave, Settle, SourceChanges, Aborted, Cancel, objectVars,
       mapOnly, mapVars, loopVars, workspace
  <2>. QED
    BY <1>1, <2>1, BystanderKeepsStands DEF StandingInv, Stands
<1>. QED
  BY <1>1, <1>2, <1>3, <1>4, QueriesKeepStands, WorkerKeepsStands, StartKeepsStands,
     TakenKeepsStands DEF Next, Step, StandingInv, Stands

LEMMA StandingAtFirst == Init => StandingInv
<1> SUFFICES ASSUME Init PROVE StandingInv
  OBVIOUS
<1>1. Clocked
  BY ObjectAssumption DEF Init, Clocked, Absent
<1>. QED
  BY <1>1 DEF Init, LoopInit, StandingInv, CopyStands, AfterStands,
     StableObjectsAreTheSnapshot

\* A stable result holds every object of the snapshots in their version, with or
\* without an ETag, for any number of objects, runners, attempts and retries.
THEOREM StableIsTheSnapshot == Spec => []StableObjectsAreTheSnapshot
<1>1. Init => StandingInv
  BY StandingAtFirst
<1>2. StandingInv => StableObjectsAreTheSnapshot
  BY DEF StandingInv
<1> QED BY <1>1, <1>2, StandingKept, ObjectInvariant, PTL DEF Spec

-----------------------------------------------------------------------------
\* The refinement of CapturePromise.

\* A step of the loop, or one of what it waits for.
LEMMA ObjectsTurn ==
  ASSUME ObjectInv, ErrorOnItsWay, ~Ended, [Next]_objectVars
  PROVE  Turn
<1> USE DEF ObjectInv
<1>1. CASE UNCHANGED loopVars
  BY <1>1 DEF Turn, loopVars, ErrorOnItsWay, Ended
<1>2. CASE QueryFails \/ DownloadsRejected
  <2>1. mode' = mode /\ \E e \in {"drift", "error", "aborted"} : Caught(e)
    BY <1>2, ThrownTypes DEF QueryFails, DownloadsRejected, Caught, MapInvariants
  <2>. QED
    BY <2>1, LoopTurns
<1>3. CASE BeforeTaken \/ DownloadsTaken
  BY <1>3, LoopTurns DEF BeforeTaken, DownloadsTaken, Taken
<1>4. CASE AfterTaken
  BY <1>4, LoopTurns DEF AfterTaken, Compared
<1>5. CASE CleanPartial \/ CleanCompleted
  <2>1. mode' = mode /\ (AfterCleanup \/ CleanupThrows)
    BY <1>5 DEF CleanPartial, CleanCompleted, Removal, AfterCleanup, CleanupThrows
  <2>. QED
    BY <2>1, LoopTurns
<1>6. CASE StartDownloads
  BY <1>6 DEF StartDownloads, Turn, ErrorOnItsWay, Ended
<1>7. ASSUME NEW r \in Runners, Worker(r) PROVE UNCHANGED loopVars
  BY <1>7, WorkerActs DEF mapOnly, DataTypes
<1>. QED
  BY <1>1, <1>2, <1>3, <1>4, <1>5, <1>6, <1>7 DEF Next, Step, QueryBuckets, QueryObjects,
     LeaveOrSettle, SourceChanges, Aborted, mapOnly, objectVars

\* After its end the step writes nothing more: no worker is left that could.
LEMMA ObjectsRest ==
  ASSUME ObjectInv, Ended, [Next]_objectVars
  PROVE  UNCHANGED <<loopVars, workspace, before>>
<1>1. pc \in {"stable", "unstable", "threw"}
  BY DEF Ended
<1>2. CASE SourceChanges \/ UNCHANGED objectVars
  BY <1>2 DEF SourceChanges, objectVars
<1>3. ASSUME NEW r \in Runners PROVE ~Worker(r)
  BY <1>1, NobodyWorks, WorkerActs DEF ObjectInv, DataTypes
<1>. QED
  BY <1>1, <1>2, <1>3 DEF Next, Step, QueryBuckets, QueryObjects, queried, QueryFails,
     BeforeTaken, AfterTaken, StartDownloads, LeaveOrSettle, DownloadsRejected, DownloadsTaken,
     CleanPartial, CleanCompleted, Aborted, Ended

\* Nothing is there when an attempt starts, or when an error is thrown.
BareBetween ==
  (phase = "before" /\ pc = "list") \/ (pc = "threw" /\ exc # "cleanup_failed") => Bare

(* The file-storage step implements CapturePromise: it is tried again for   *)
(* drift alone, within the bound and over an empty workspace; a stable      *)
(* result is the snapshot; an error leaves nothing but a failed cleanup     *)
(* does; and its end is final (file-storage-consistency-adapter.ts).        *)
THEOREM ObjectsRefinePromise == Spec => ObjectsKeepPromise
<1>1. Init => Promise!Init /\ ErrorOnItsWay /\ StandingInv
  BY StandingAtFirst, LoopAssumption DEF Init, LoopInit, Promise!Init, Bare, Ending, Ended,
     ErrorOnItsWay
<1>2. ObjectInv => EndsAreSeen /\ BareBetween
  BY EndingsAreSeen DEF ObjectInv, StoredInv, EmptyAtFirst, Reading, BareBetween,
     Bare
<1>3. ASSUME ObjectInv, EndsAreSeen, EndsAreSeen', BareBetween', StandingInv', ErrorOnItsWay,
             [Next]_objectVars
      PROVE  ErrorOnItsWay' /\ [Promise!Next]_(Promise!promiseVars)
  <2>1. CASE Ended
    <3>1. UNCHANGED <<loopVars, workspace, before>>
      BY <1>3, <2>1, ObjectsRest
    <3>2. UNCHANGED <<mode, attempt, drift, Bare, pc = "stable" /\ TheSnapshot, Ending>>
      BY <3>1 DEF loopVars, workspace, Bare, TheSnapshot, Ending, Ended
    <3>. QED
      BY <2>1, <3>1, <3>2 DEF Promise!promiseVars, loopVars, ErrorOnItsWay, Ended
  <2>2. CASE ~Ended
    <3>1. Turn
      BY <1>3, <2>2, ObjectsTurn
    <3>2. Ending = "working"
      BY <1>3, <2>2 DEF EndsAreSeen
    <3>. USE DEF Turn
    <3>3. CASE Retried
      <4>1. Bare' /\ Ending' = "working"
        BY <1>3, <3>3 DEF BareBetween, EndsAreSeen, Retried, Ended
      <4>2. Promise!Retry
        BY <3>1, <3>3, <4>1 DEF Retried, Promise!Retry
      <4>. QED
        BY <3>1, <3>2, <4>2 DEF Promise!Next
    <3>4. CASE attempt' = attempt /\ ~Ended'
      <4>1. Promise!Work
        BY <1>3, <3>1, <3>4 DEF EndsAreSeen, Promise!Work
      <4>. QED
        BY <3>1, <3>2, <4>1 DEF Promise!Next
    <3>5. CASE attempt' = attempt /\ pc' = "unstable" /\ mode = "best-effort" /\ drift'
      <4>1. Promise!Return
        BY <1>3, <3>1, <3>5 DEF EndsAreSeen, Promise!Return
      <4>. QED
        BY <3>1, <3>2, <4>1 DEF Promise!Next
    <3>6. CASE attempt' = attempt /\ pc' = "stable"
      <4>1. TheSnapshot'
        BY <1>3, <3>6 DEF StandingInv, StableObjectsAreTheSnapshot
      <4>2. Promise!Return
        BY <1>3, <3>1, <3>6, <4>1 DEF EndsAreSeen, Promise!Return
      <4>. QED
        BY <3>1, <3>2, <4>2 DEF Promise!Next
    <3>7. CASE attempt' = attempt /\ GaveUp
      <4>1. CASE exc' = "cleanup_failed"
        <5>1. Promise!Spoil
          BY <1>3, <3>1, <3>7, <4>1 DEF EndsAreSeen, Promise!Spoil, GaveUp
        <5>. QED
          BY <3>1, <3>2, <5>1 DEF Promise!Next
      <4>2. CASE exc' # "cleanup_failed"
        <5>1. Bare'
          BY <1>3, <3>7, <4>2 DEF BareBetween, GaveUp
        <5>2. /\ Ending' \in {"drifted", "failed"}
              /\ Ending' = "drifted" => exc' \in {"changed", "unsettled"}
          BY <1>3, <3>7, <4>2 DEF EndsAreSeen, GaveUp, Ended
        <5>3. Promise!Throw
          BY <3>1, <3>7, <5>1, <5>2 DEF Promise!Throw, GaveUp
        <5>. QED
          BY <3>1, <3>2, <5>3 DEF Promise!Next
      <4>. QED
        BY <4>1, <4>2
    <3>. QED
      BY <3>1, <3>3, <3>4, <3>5, <3>6, <3>7
  <2>. QED
    BY <2>1, <2>2
<1>. QED
  BY <1>1, <1>2, <1>3, ObjectInvariant, StandingKept, PTL DEF Spec, ObjectsKeepPromise, Promise!Spec

-----------------------------------------------------------------------------
\* What the step has left to do.

\* The two queries of a capture, and the trials of the downloads on their way.
QueriesLeft ==
  IF pc # "list" THEN 0
  ELSE IF rooms = {"unread"} THEN 2 ELSE IF listed = NotRead THEN 1 ELSE 0
Later(s) ==
  CASE s = "request" -> {"body", "linked"} [] s = "body" -> {"linked"} [] s = "linked" -> {}
TrialsLeft ==
  {trial \in Runners \X ((1..MaxAttempts) \X Stages) :
     LET r == trial[1]
         t == trial[2][1]
     IN  /\ work[r] # 0
         /\ tries[r] < t \/ (tries[r] = t /\ trial[2][2] \in Later(stage[r]))}

LessToDo ==
  \/ MovesOn
  \/ /\ UNCHANGED <<attempt, PlaceLeft>>
     /\ \/ QueriesLeft' < QueriesLeft
        \/ UNCHANGED QueriesLeft /\ MapStepsLeft' < MapStepsLeft
        \/ /\ UNCHANGED <<QueriesLeft, MapStepsLeft>>
           /\ TrialsLeft' \subseteq TrialsLeft /\ TrialsLeft' # TrialsLeft

ToDoIsFinite ==
  /\ attempt \in 1..(MaxRetries + 1) /\ PlaceLeft \in 0..7 /\ QueriesLeft \in 0..2
  /\ MapStepsLeft \in Nat /\ IsFiniteSet(TrialsLeft)

ObjectStepsAreCounted ==
  /\ []ToDoIsFinite
  /\ [][IF Step THEN LessToDo
        ELSE UNCHANGED <<attempt, PlaceLeft, QueriesLeft, MapStepsLeft, TrialsLeft>>]_objectVars

LEMMA TrialsAreFinite == IsFiniteSet(TrialsLeft)
<1>1. IsFiniteSet(Stages)
  <2>1. Stages = ({"request"} \cup {"body"}) \cup {"linked"}
    BY DEF Stages
  <2>. QED
    BY <2>1, FS_Singleton, FS_Union
<1>2. IsFiniteSet(1..MaxAttempts) /\ IsFiniteSet(Runners)
  BY FS_Interval, ObjectAssumption, MapAssumption
<1>3. IsFiniteSet((1..MaxAttempts) \X Stages)
  BY <1>1, <1>2, FS_Product
<1>4. IsFiniteSet(Runners \X ((1..MaxAttempts) \X Stages))
  BY <1>2, <1>3, FS_Product
<1>. QED
  BY <1>4, FS_Subset DEF TrialsLeft

LEMMA ToDoTyped == ObjectInv => ToDoIsFinite
<1>1. QueriesLeft \in 0..2
  BY DEF QueriesLeft
<1>. QED
  BY <1>1, TrialsAreFinite, MapStepsTyped, PlacesAreCounted
  DEF ObjectInv, MapInvariants, LoopTypes, ToDoIsFinite

(* A worker that goes on with its download leaves less of it.               *)
LEMMA TrialIsTaken ==
  ASSUME DownloadTypes, NEW r \in Runners, work[r] # 0, UNCHANGED work,
         \A q \in Runners \ {r} : tries'[q] = tries[q] /\ stage'[q] = stage[q],
         \/ tries'[r] = tries[r] /\ stage'[r] \in Later(stage[r])
              /\ Later(stage'[r]) \subseteq Later(stage[r]) \ {stage'[r]}
         \/ tries'[r] = tries[r] + 1 /\ tries'[r] \in 1..MaxAttempts /\ stage'[r] = "request"
  PROVE  TrialsLeft' \subseteq TrialsLeft /\ TrialsLeft' # TrialsLeft
<1>1. tries[r] \in 1..MaxAttempts /\ stage[r] \in Stages /\ MaxAttempts \in Nat
  BY ObjectAssumption DEF DownloadTypes
<1>2. TrialsLeft' \subseteq TrialsLeft
  <2>1. SUFFICES ASSUME NEW trial \in TrialsLeft' PROVE trial \in TrialsLeft
    OBVIOUS
  <2>2. PICK q \in Runners, t \in 1..MaxAttempts, s \in Stages : trial = <<q, <<t, s>>>>
    BY <2>1 DEF TrialsLeft
  <2>3. work[q] # 0 /\ (tries'[q] < t \/ (tries'[q] = t /\ s \in Later(stage'[q])))
    BY <2>1, <2>2 DEF TrialsLeft
  <2>4. tries[q] < t \/ (tries[q] = t /\ s \in Later(stage[q]))
    <3>1. CASE q # r
      BY <2>3, <3>1
    <3>2. CASE q = r /\ tries'[r] = tries[r]
      BY <1>1, <2>3, <3>2
    <3>3. CASE q = r /\ tries'[r] = tries[r] + 1
      BY <1>1, <2>3, <3>3
    <3>. QED
      BY <3>1, <3>2, <3>3
  <2>. QED
    BY <2>2, <2>3, <2>4 DEF TrialsLeft
<1>3. \E t \in 1..MaxAttempts, s \in Stages :
        <<r, <<t, s>>>> \in TrialsLeft /\ <<r, <<t, s>>>> \notin TrialsLeft'
  <2>1. CASE tries'[r] = tries[r] /\ stage'[r] \in Later(stage[r])
               /\ Later(stage'[r]) \subseteq Later(stage[r]) \ {stage'[r]}
    <3>1. stage'[r] \in Stages
      BY <1>1, <2>1 DEF Later, Stages
    <3>2. <<r, <<tries[r], stage'[r]>>>> \in TrialsLeft
      BY <1>1, <2>1, <3>1 DEF TrialsLeft
    <3>3. <<r, <<tries[r], stage'[r]>>>> \notin TrialsLeft'
      BY <1>1, <2>1, <3>1 DEF TrialsLeft
    <3>. QED
      BY <1>1, <3>1, <3>2, <3>3
  <2>2. CASE tries'[r] = tries[r] + 1 /\ tries'[r] \in 1..MaxAttempts /\ stage'[r] = "request"
    <3>1. "request" \in Stages /\ tries[r] < tries'[r] /\ "request" \notin Later("request")
      BY <1>1, <2>2 DEF Stages, Later
    <3>2. <<r, <<tries'[r], "request">>>> \in TrialsLeft
      BY <1>1, <2>2, <3>1 DEF TrialsLeft
    <3>3. <<r, <<tries'[r], "request">>>> \notin TrialsLeft'
      BY <1>1, <2>2, <3>1 DEF TrialsLeft
    <3>. QED
      BY <2>2, <3>1, <3>2, <3>3
  <2>. QED
    BY <2>1, <2>2
<1>. QED
  BY <1>2, <1>3

LEMMA WorkerHasLessToDo ==
  ASSUME ObjectInv, NEW r \in Runners, Worker(r)
  PROVE  LessToDo
<1> USE DEF ObjectInv, DataTypes
<1>1. UNCHANGED mapOnly
  BY WorkerActs
<1>2. pc = "map" /\ mapped = "running"
  <2>1. CASE work[r] = 0
    BY <2>1 DEF Worker, TakeObject, Take, Free, At, Request, Store, Tidy, AttemptFails
  <2>2. CASE work[r] # 0
    BY <2>2 DEF MapInvariants, MapInv, SettledIsQuiet, Callable
  <2>. QED
    BY <2>1, <2>2
<1>3. UNCHANGED <<attempt, PlaceLeft, QueriesLeft, cancelled>>
  BY <1>1 DEF mapOnly, loopVars, listing, PlaceLeft, QueriesLeft
<1>4. [MapNext]_<<mapVars, cancelled>>
  BY WorkerStep DEF MapInvariants, MapStep
<1>5. CASE MapStepsLeft' < MapStepsLeft
  BY <1>3, <1>5 DEF LessToDo
<1>6. CASE UNCHANGED mapVars
  <2>1. MapStepsLeft' = MapStepsLeft /\ UNCHANGED work
    BY <1>6 DEF mapVars, MapStepsLeft, Busy
  <2>2. ~TakeObject(r) /\ ~Tidy(r) /\ ~(\E e : Fail(r, e))
    <3>1. cursor \in Nat
      BY ListsHaveLengths DEF MapInvariants, MapInv, MapTypeOK
    <3>2. work \in [Runners -> Nat]
      BY ListsHaveLengths DEF MapInvariants, MapInv, MapTypeOK
    <3>3. ~Take(r)
      BY <1>6, <3>1 DEF Take, mapVars
    <3>4. ~Deliver(r) /\ ~(\E e : Fail(r, e))
      BY <1>6, <3>2 DEF Deliver, Fail, mapVars
    <3>. QED
      BY <3>3, <3>4 DEF TakeObject, Tidy
  <2>3. work[r] # 0 /\ tries[r] \in 1..MaxAttempts /\ tries \in [Runners -> 1..MaxAttempts]
        /\ stage \in [Runners -> Stages]
    BY <2>2 DEF Worker, Request, Store, AttemptFails, At, DownloadTypes
  <2>4. CASE Request(r)
    <3>1. stage[r] = "request" /\ stage' = [stage EXCEPT ![r] = "body"] /\ UNCHANGED tries
      BY <2>2, <2>4 DEF Request, At, Goto
    <3>2. stage'[r] \in Later(stage[r])
          /\ Later(stage'[r]) \subseteq Later(stage[r]) \ {stage'[r]}
      BY <2>3, <3>1 DEF Later
    <3>. QED
      BY <1>3, <2>1, <2>3, <3>1, <3>2, TrialIsTaken DEF LessToDo
  <2>5. CASE Store(r)
    <3>1. stage[r] = "body" /\ stage' = [stage EXCEPT ![r] = "linked"] /\ UNCHANGED tries
      BY <2>2, <2>5 DEF Store, At, Goto
    <3>2. stage'[r] \in Later(stage[r])
          /\ Later(stage'[r]) \subseteq Later(stage[r]) \ {stage'[r]}
      BY <2>3, <3>1 DEF Later
    <3>. QED
      BY <1>3, <2>1, <2>3, <3>1, <3>2, TrialIsTaken DEF LessToDo
  <2>6. CASE AttemptFails(r)
    <3>1. /\ tries[r] < MaxAttempts /\ tries' = [tries EXCEPT ![r] = tries[r] + 1]
          /\ stage' = [stage EXCEPT ![r] = "request"]
      BY <2>2, <2>6 DEF AttemptFails, Again, Refused, Goto
    <3>2. tries'[r] = tries[r] + 1 /\ tries'[r] \in 1..MaxAttempts /\ stage'[r] = "request"
      BY <2>3, <3>1, ObjectAssumption
    <3>. QED
      BY <1>3, <2>1, <2>3, <3>1, <3>2, TrialIsTaken DEF LessToDo
  <2>. QED
    BY <2>2, <2>4, <2>5, <2>6 DEF Worker
<1>. QED
  BY <1>2, <1>3, <1>4, <1>5, <1>6, MapGoesOn DEF MapInvariants

LEMMA StepHasLessToDo ==
  ASSUME ObjectInv, Step, objectVars' # objectVars
  PROVE  LessToDo
<1> USE DEF ObjectInv
<1>1. CASE QueryBuckets
  <2>1. UNCHANGED <<loopVars, mapVars, cancelled, faults, source, listed, before, download, workspace>>
        /\ pc = "list" /\ rooms = {"unread"}
    BY <1>1 DEF QueryBuckets
  <2>2. rooms' # {"unread"}
    BY <2>1 DEF objectVars, listing
  <2>3. QueriesLeft' < QueriesLeft /\ UNCHANGED <<attempt, PlaceLeft>>
    BY <2>1, <2>2 DEF QueriesLeft, PlaceLeft, loopVars
  <2>. QED
    BY <2>3 DEF LessToDo
<1>2. CASE QueryObjects
  <2>1. UNCHANGED <<loopVars, mapVars, cancelled, faults, source, rooms, before, download, workspace>>
        /\ pc = "list" /\ rooms # {"unread"} /\ listed = NotRead
    BY <1>2 DEF QueryObjects
  <2>2. listed' # NotRead
    BY <2>1 DEF objectVars, listing
  <2>3. QueriesLeft' < QueriesLeft /\ UNCHANGED <<attempt, PlaceLeft>>
    BY <2>1, <2>2 DEF QueriesLeft, PlaceLeft, loopVars
  <2>. QED
    BY <2>3 DEF LessToDo
<1>3. CASE QueryFails \/ BeforeTaken \/ AfterTaken \/ DownloadsRejected \/ DownloadsTaken
  <2>1. pc \in {"list", "map"} /\ \E e, equal : Caught(e) \/ Taken \/ Compared(equal)
    BY <1>3 DEF QueryFails, BeforeTaken, AfterTaken, DownloadsRejected, DownloadsTaken, queried
  <2>. QED
    BY <2>1, CaptureMovesOn DEF LessToDo
<1>4. CASE CleanPartial \/ CleanCompleted
  <2>1. pc \in {"partial", "completed"} /\ (AfterCleanup \/ CleanupThrows)
    BY <1>4 DEF CleanPartial, CleanCompleted, Removal
  <2>. QED
    BY <2>1, CleanupMovesOn DEF LessToDo
<1>5. CASE StartDownloads
  <2>1. pc = "list" /\ pc' = "map" /\ phase = "copy" /\ UNCHANGED <<attempt, phase>>
    BY <1>5 DEF StartDownloads, queried
  <2>2. PlaceLeft = 5 /\ PlaceLeft' = 4
    BY <2>1 DEF PlaceLeft
  <2>. QED
    BY <2>1, <2>2 DEF LessToDo, MovesOn
<1>6. CASE LeaveOrSettle
  <2>1. UNCHANGED <<loopVars, listing>>
    BY <1>6 DEF LeaveOrSettle, mapOnly
  <2>2. UNCHANGED <<attempt, PlaceLeft, QueriesLeft>>
    BY <2>1 DEF loopVars, listing, PlaceLeft, QueriesLeft
  <2>3. MapStepsLeft' < MapStepsLeft
    BY <1>6, LeaveIsCounted, SettleIsCounted DEF LeaveOrSettle, MapInvariants
  <2>. QED
    BY <2>2, <2>3 DEF LessToDo
<1>. QED
  BY <1>1, <1>2, <1>3, <1>4, <1>5, <1>6, WorkerHasLessToDo DEF Step

(* Every step of its own brings the file-storage step nearer to its end,    *)
(* whatever uploads, failing calls and aborts come in between: there are    *)
(* only so many attempts of the loop, of a download and of the bounded map, *)
(* so that ObjectStepEnds only asks in addition that awaited calls are      *)
(* answered (fileStorageStep, runConsistentCopy, mapBounded).               *)
THEOREM ObjectStepsAreBounded == Spec => ObjectStepsAreCounted
<1>1. ObjectInv /\ [Next]_objectVars =>
        [IF Step THEN LessToDo
         ELSE UNCHANGED <<attempt, PlaceLeft, QueriesLeft, MapStepsLeft, TrialsLeft>>]_objectVars
  <2>. SUFFICES ASSUME ObjectInv, Next, objectVars' # objectVars
                PROVE  IF Step THEN LessToDo
                       ELSE UNCHANGED <<attempt, PlaceLeft, QueriesLeft, MapStepsLeft, TrialsLeft>>
    OBVIOUS
  <2>1. CASE Step
    BY <2>1, StepHasLessToDo
  <2>2. CASE ~Step
    <3>1. UNCHANGED <<loopVars, listing, download, items, cursor, work, gone, mapped>>
      BY <2>2 DEF Next, SourceChanges, Aborted, Cancel, mapVars
    <3>2. UNCHANGED <<attempt, PlaceLeft, QueriesLeft>>
      BY <3>1 DEF loopVars, listing, PlaceLeft, QueriesLeft
    <3>3. UNCHANGED <<MapStepsLeft, TrialsLeft>>
      BY <3>1 DEF download, MapStepsLeft, Busy, TrialsLeft
    <3>. QED
      BY <2>2, <3>2, <3>3
  <2>. QED
    BY <2>1, <2>2
<1>. QED
  BY <1>1, ToDoTyped, ObjectInvariant, PTL DEF Spec, ObjectStepsAreCounted

=============================================================================

----------------------------- MODULE ObjectCapture ----------------------------
(***************************************************************************)
(* The file-storage step of a backup: fileStorageStep                       *)
(* (core/backup/product.ts) as the copy of runConsistentCopy, the catalog   *)
(* of Storage as its snapshots, and the cleanups of the file storage        *)
(* adapter.  The copy queries buckets and objects one after the other,      *)
(* writes the catalog and downloads every object of it with mapBounded.     *)
(*                                                                          *)
(* Every upload is a new version, which the catalog tells; the response of  *)
(* a download may or may not tell that it is not the one of the catalog.    *)
(***************************************************************************)
EXTENDS CaptureLoop, SequencesExt

CONSTANTS
  ObjectOrder,  \* the objects there may be, in the order of their names
  Buckets,
  BucketOf,     \* the bucket of every object
  Tagged,       \* objects whose catalog entry and response have an ETag
  MaxAttempts,  \* maxAttempts of a download
  MaxVersion    \* bound: uploads and new buckets, and what the source starts with

Objects == ToSet(ObjectOrder)
Absent == 0
NotRead == [o \in Objects |-> MaxVersion + 1]
Versions == 0..MaxVersion
ListOf(objects) == SelectSeq(ObjectOrder, LAMBDA o : objects[o] # Absent)

\* A list names the objects there are.  There is a name to tell what was listed
\* from NotRead; objects there may be none.
ASSUME ObjectAssumption ==
  /\ Objects # {} /\ "unread" \notin Buckets
  /\ BucketOf \in [Objects -> Buckets] /\ Tagged \subseteq Objects
  /\ MaxAttempts \in Nat \ {0} /\ MaxVersion \in Nat \ {0}
  /\ \A objects \in [Objects -> Versions] :
       LET list == ListOf(objects)
       IN  /\ list \in ItemLists
           /\ {list[i] : i \in DOMAIN list} = {o \in Objects : objects[o] # Absent}

VARIABLES
  live,     \* the version of every object at the source
  open,     \* the buckets there are
  clock,    \* the last version given out
  rooms,    \* the buckets as this capture found them, {"unread"} before it did
  listed,   \* the objects as it found them, or NotRead
  before,   \* the snapshot before the copy
  stage,    \* what the worker of a runner does next
  tries,    \* the attempt of its download
  got,      \* the version it receives
  stored,   \* the version of every object in the workspace
  catalog,  \* storage/file-catalog.json, or NotRead
  index     \* secrets/storage/file-object-index.json, or NotRead

source == <<live, open, clock>>
listing == <<rooms, listed>>
download == <<stage, tries, got>>
workspace == <<stored, catalog, index>>
objectVars == <<mapVars, cancelled, loopVars, faults, source, listing, before,
                download, workspace>>

-----------------------------------------------------------------------------

QueryBuckets ==
  /\ pc = "list" /\ rooms = {"unread"}
  /\ rooms' = open
  /\ UNCHANGED <<mapVars, cancelled, loopVars, faults, source, listed, before,
                 download, workspace>>

\* normalizeFileStorageCatalog drops the objects of a bucket the first query missed.
QueryObjects ==
  /\ pc = "list" /\ rooms # {"unread"} /\ listed = NotRead
  /\ listed' = [o \in Objects |-> IF BucketOf[o] \in rooms THEN live[o] ELSE Absent]
  /\ UNCHANGED <<mapVars, cancelled, loopVars, faults, source, rooms, before,
                 download, workspace>>

Relist ==
  IF pc' = "list" THEN rooms' = {"unread"} /\ listed' = NotRead
                  ELSE UNCHANGED listing

QueryFails ==
  /\ pc = "list"
  /\ (Fault \/ (cancelled /\ UNCHANGED faults))
  /\ Caught("error") /\ Relist
  /\ UNCHANGED <<mapVars, cancelled, source, before, download, workspace>>

queried == pc = "list" /\ listed # NotRead

BeforeTaken ==
  /\ queried /\ phase = "before"
  /\ before' = <<rooms, listed>>
  /\ Taken /\ Relist
  /\ UNCHANGED <<mapVars, cancelled, faults, source, download, workspace>>

\* Mutant: snapshots are compared by the identity of their objects.
AfterByIdentity ==
  /\ queried /\ phase = "after"
  /\ Compared(ListOf(before[2]) = ListOf(listed)) /\ Relist
  /\ UNCHANGED <<mapVars, cancelled, faults, source, before, download, workspace>>

AfterTaken ==
  /\ queried /\ phase = "after"
  /\ Compared(before = <<rooms, listed>>) /\ Relist
  /\ UNCHANGED <<mapVars, cancelled, faults, source, before, download, workspace>>

\* The catalog of the copy is written before the first download.
StartDownloads ==
  /\ queried /\ phase = "copy"
  /\ catalog' = listed
  /\ StartMap(ListOf(listed))
  /\ pc' = "map"
  /\ UNCHANGED <<cancelled, mode, phase, attempt, drift, exc, faults, source, listing,
                 before, download, stored, index>>

-----------------------------------------------------------------------------

Object(r) == items[work[r]]
mapOnly == <<cancelled, loopVars, source, listing, before, catalog, index>>
\* A worker ends: what it knew is gone.
Leaves(r) ==
  /\ stage' = [stage EXCEPT ![r] = "request"] /\ tries' = [tries EXCEPT ![r] = 1]
  /\ got' = [got EXCEPT ![r] = Absent]

At(r, s) == work[r] # 0 /\ stage[r] = s
Goto(r, s) == stage' = [stage EXCEPT ![r] = s]

TakeObject(r) ==
  /\ pc = "map" /\ Take(r)
  /\ UNCHANGED <<mapOnly, faults, download, stored>>

\* Mutant: nobody looks at the ETag of a response.
RequestUntagged(r) ==
  /\ At(r, "request")
  /\ \/ live[Object(r)] = Absent /\ Fail(r, "error") /\ Leaves(r)
     \/ /\ live[Object(r)] # Absent
        /\ got' = [got EXCEPT ![r] = live[Object(r)]] /\ Goto(r, "body")
        /\ UNCHANGED <<mapVars, tries>>
  /\ UNCHANGED <<mapOnly, faults, stored>>

\* 404 is an error like any other; another ETag is drift.
Request(r) ==
  /\ At(r, "request")
  /\ \/ live[Object(r)] = Absent /\ Fail(r, "error") /\ Leaves(r)
     \/ /\ Object(r) \in Tagged /\ live[Object(r)] \notin {Absent, listed[Object(r)]}
        /\ Fail(r, "drift") /\ Leaves(r)
     \/ /\ live[Object(r)] # Absent
        /\ Object(r) \in Tagged => live[Object(r)] = listed[Object(r)]
        /\ got' = [got EXCEPT ![r] = live[Object(r)]] /\ Goto(r, "body")
        /\ UNCHANGED <<mapVars, tries>>
  /\ UNCHANGED <<mapOnly, faults, stored>>

\* The length of another version may be the one of the catalog, or not be known.
MayBeNoticed(r) == got[r] # listed[Object(r)]

\* The body is written beside its place and linked there, unless its length tells
\* that it is another version.
Store(r) ==
  /\ At(r, "body") /\ ~stopped
  /\ \/ /\ MayBeNoticed(r)
        /\ Fail(r, "drift") /\ Leaves(r) /\ UNCHANGED stored
     \/ /\ stored[Object(r)] = Absent
        /\ stored' = [stored EXCEPT ![Object(r)] = got[r]] /\ Goto(r, "linked")
        /\ UNCHANGED <<mapVars, tries, got>>
  /\ UNCHANGED <<mapOnly, faults>>

Tidy(r) ==
  /\ At(r, "linked")
  /\ Deliver(r) /\ Leaves(r)
  /\ UNCHANGED <<mapOnly, faults, stored>>

\* Mutant: an attempt that found its file in place does not count.
AgainUncounted(r) ==
  IF tries[r] < MaxAttempts /\ ~stopped
    THEN /\ tries' = [tries EXCEPT ![r] =
                        IF stored[Object(r)] = Absent THEN tries[r] + 1 ELSE tries[r]]
         /\ Goto(r, "request") /\ got' = [got EXCEPT ![r] = Absent]
         /\ UNCHANGED mapVars
    ELSE Fail(r, "error") /\ Leaves(r)

\* The next attempt of a download, if there is one.
Again(r) ==
  IF tries[r] < MaxAttempts /\ ~stopped
    THEN /\ tries' = [tries EXCEPT ![r] = tries[r] + 1]
         /\ Goto(r, "request") /\ got' = [got EXCEPT ![r] = Absent]
         /\ UNCHANGED mapVars
    ELSE Fail(r, "error") /\ Leaves(r)

\* An answer that is neither 429 nor 5xx is final.
Refused(r) == stage[r] = "request" /\ Fail(r, "error") /\ Leaves(r)

\* An attempt fails: the network, the disk, the removal of the temporary file, a
\* file that is already in place, or the shared signal.
AttemptFails(r) ==
  /\ work[r] # 0
  /\ \/ Fault
     \/ stage[r] = "body" /\ stored[Object(r)] # Absent /\ UNCHANGED faults
     \/ stopped /\ stage[r] # "linked" /\ UNCHANGED faults
  /\ Again(r) \/ Refused(r)
  /\ UNCHANGED <<mapOnly, stored>>

LeaveOrSettle ==
  /\ pc = "map" /\ ((\E r \in Runners : Leave(r)) \/ Settle)
  /\ UNCHANGED <<mapOnly, faults, download, stored>>

Worker(r) == TakeObject(r) \/ Request(r) \/ Store(r) \/ Tidy(r) \/ AttemptFails(r)

-----------------------------------------------------------------------------

unmapped == <<mapVars, cancelled, source, before, download>>

DownloadsRejected ==
  /\ pc = "map" /\ mapped = "rejected"
  /\ Caught(Thrown) /\ Relist
  /\ UNCHANGED <<unmapped, faults, workspace>>

\* The index is written from what the downloads returned.
DownloadsTaken ==
  /\ pc = "map" /\ mapped = "returned"
  /\ index' = listed
  /\ Taken /\ Relist
  /\ UNCHANGED <<unmapped, faults, stored, catalog>>

Nothing == [o \in Objects |-> Absent]

\* Mutant: only what a completed copy lists by name is removed.
CleanPartialFiles ==
  /\ pc = "partial"
  /\ catalog' = NotRead /\ index' = NotRead /\ UNCHANGED stored
  /\ AfterCleanup /\ Relist /\ UNCHANGED unmapped

\* A removal stops at any place: the catalog, the index, then the objects.
PartlyRemoved ==
  \/ UNCHANGED workspace
  \/ catalog' = NotRead /\ UNCHANGED <<index, stored>>
  \/ /\ catalog' = NotRead /\ index' = NotRead
     /\ \E removed \in SUBSET Objects :
          stored' = [o \in Objects |-> IF o \in removed THEN Absent ELSE stored[o]]

Removal ==
  \/ stored' = Nothing /\ catalog' = NotRead /\ index' = NotRead /\ AfterCleanup
  \/ PartlyRemoved /\ CleanupThrows

\* The directory of the objects goes as a whole after a failed copy.
CleanPartial ==
  /\ pc = "partial"
  /\ Removal /\ Relist /\ UNCHANGED unmapped

\* The artifacts of a result are removed one by one, but for the dump that the
\* database step owns.
CleanCompleted ==
  /\ pc = "completed"
  /\ Removal /\ Relist /\ UNCHANGED unmapped

-----------------------------------------------------------------------------

\* Somebody uploads or deletes an object, makes a bucket or removes an empty one.
SourceChanges ==
  /\ \/ /\ clock < MaxVersion /\ clock' = clock + 1
        /\ \E o \in Objects :
             BucketOf[o] \in open /\ live' = [live EXCEPT ![o] = clock']
        /\ UNCHANGED open
     \/ /\ \E o \in Objects :
             live[o] # Absent /\ live' = [live EXCEPT ![o] = Absent]
        /\ UNCHANGED <<open, clock>>
     \/ /\ clock < MaxVersion /\ clock' = clock + 1
        /\ \E b \in Buckets \ open : open' = open \cup {b}
        /\ UNCHANGED live
     \/ /\ \E b \in open :
             /\ \A o \in Objects : BucketOf[o] = b => live[o] = Absent
             /\ open' = open \ {b}
        /\ UNCHANGED <<live, clock>>
  /\ UNCHANGED <<mapVars, cancelled, loopVars, faults, listing, before, download,
                 workspace>>

Aborted ==
  /\ ~Ended /\ Cancel
  /\ UNCHANGED <<loopVars, faults, source, listing, before, download, workspace>>

Init ==
  /\ LoopInit
  /\ live \in [Objects -> {Absent, 1}] /\ clock = 1
  /\ open = Buckets
  /\ rooms = {"unread"} /\ listed = NotRead /\ before = <<{"unread"}, NotRead>>
  /\ stage = [r \in Runners |-> "request"] /\ tries = [r \in Runners |-> 1]
  /\ got = [r \in Runners |-> Absent]
  /\ stored = Nothing /\ catalog = NotRead /\ index = NotRead

Step ==
  \/ QueryBuckets \/ QueryObjects \/ QueryFails
  \/ BeforeTaken \/ StartDownloads \/ AfterTaken
  \/ \E r \in Runners : Worker(r)
  \/ LeaveOrSettle \/ DownloadsRejected \/ DownloadsTaken
  \/ CleanPartial \/ CleanCompleted

Next == Step \/ SourceChanges \/ Aborted

Spec == Init /\ [][Next]_objectVars

\* The step is one async function: what it waits for answers.
FairSpec == Spec /\ WF_objectVars(Step)

-----------------------------------------------------------------------------

ObjectTypeOK ==
  /\ LoopTypeOK
  /\ live \in [Objects -> Versions] /\ open \subseteq Buckets /\ clock \in Versions
  /\ {rooms, before[1]} \subseteq SUBSET (Buckets \cup {"unread"})
  /\ {listed, before[2], catalog, index} \subseteq [Objects -> 0..(MaxVersion + 1)]
  /\ stage \in [Runners -> {"request", "body", "linked"}]
  /\ tries \in [Runners -> 1..MaxAttempts]
  /\ got \in [Runners -> Versions] /\ stored \in [Objects -> Versions]

(* When the index is there, every object of the catalog is, and nothing     *)
(* else, unless a cleanup has failed half way; where the platform gives an  *)
(* ETag it is the version of the catalog, even in best-effort mode          *)
(* (downloadStorageObject, mapBounded).                                     *)
IndexedObjectsAreStored ==
  index # NotRead /\ exc # "cleanup_failed" =>
    /\ index = catalog
    /\ \A o \in Objects : (stored[o] = Absent) <=> (index[o] = Absent)
    /\ \A o \in Tagged : stored[o] = index[o]

TheSnapshot ==
  \A o \in Objects : before[2][o] # Absent =>
    stored[o] = before[2][o] /\ catalog[o] = before[2][o]

(* A stable result holds every object of the snapshots in the version of    *)
(* the snapshots, ETag or not, although catalog and objects are read one    *)
(* after the other (runConsistentCopy, fileStorageConsistencySnapshotsEqual). *)
StableObjectsAreTheSnapshot == pc = "stable" => TheSnapshot

Bare == stored = Nothing /\ catalog = NotRead /\ index = NotRead

(* The file-storage step keeps what runConsistentCopy promises: nothing but *)
(* drift makes it try again, within its bound and over a workspace without  *)
(* a file of the attempt before; a stable result is the snapshot            *)
(* (file-storage-consistency-adapter.ts).                                   *)
Promise == INSTANCE CapturePromise WITH
  bare <- Bare, consistent <- pc = "stable" /\ TheSnapshot, state <- Ending

ObjectsKeepPromise == Promise!Spec

(* A step that threw, but for a failed cleanup, leaves none of its files    *)
(* (cleanupPartialFileStorageArtifacts, cleanupFileStorageArtifacts).       *)
NoObjectIsLeftBehind ==
  pc = "threw" /\ exc # "cleanup_failed" =>
    Bare

(* The step ends, whatever fails and whoever aborts it: attempts and        *)
(* retries are bounded (downloadStorageObject, runConsistentCopy).          *)
ObjectStepEnds == <>Ended

=============================================================================

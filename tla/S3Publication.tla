--------------------------- MODULE S3Publication ---------------------------
(***************************************************************************)
(* publishS3Backup (destination/s3.ts): a packed backup goes to a bucket   *)
(* as a multipart upload, is read back, and is committed by a marker,      *)
(* COMPLETE.json, written last.  A local state file remembers the upload   *)
(* so that a later process can go on with it.  Several processes may       *)
(* publish the same run: the program takes no lock.                        *)
(*                                                                         *)
(* A pack is one content of the local transport file (one digest).  Every  *)
(* packing makes a new one: manifest.completedAt and the encryption differ.*)
(* A failed process and a crashed one leave the same things behind:        *)
(* publishS3Backup cleans nothing up when it throws.                       *)
(***************************************************************************)
EXTENDS Naturals, FiniteSets

CONSTANTS
  Procs,       \* processes that publish this run
  Parts,       \* part numbers of the upload
  MaxPacks,    \* bound: packs made of the workspace
  MaxUploads,  \* bound: multipart uploads created
  MaxFaults    \* bound: failures, crashes, lost responses and expiries

ASSUME S3Assumption ==
  /\ Parts # {} /\ IsFiniteSet(Parts)
  /\ MaxPacks \in Nat \ {0}
  /\ MaxUploads \in Nat \ {0}
  /\ MaxFaults \in Nat

Packs == 1..MaxPacks
None == 0
UploadIds == 1..MaxUploads

VARIABLES
  transport,  \* the local file: its pack
  state,      \* the upload-state file
  uploads,    \* multipart uploads in the bucket
  object,     \* the backup object: its upload, declared digest and bytes
  marker,     \* the pack COMPLETE.json names
  faults,     \* faults so far
  at,         \* at[p]: what process p does next
  dig,        \* dig[p]: the digest it took of the transport
  up,         \* up[p]: the upload it works on
  got,        \* got[p]: the parts it knows uploaded
  saved       \* saved[p]: those of them it has recorded

remoteVars == <<uploads, object, marker>>
procVars == <<at, dig, up, got, saved>>
s3Vars == <<transport, state, uploads, object, marker, faults, at, dig, up, got, saved>>

Stages == {"idle", "marker", "confirm", "head", "prepare", "abort_stale",
           "forget_stale", "list", "create", "created", "upload", "complete",
           "verify", "mark", "check", "forget", "returned", "failed"}
Working == Stages \ {"idle", "returned", "failed"}

NoState == [upload |-> None, pack |-> None, parts |-> {}]
NoBytes == [n \in Parts |-> None]
NoObject == [upload |-> None, meta |-> None, bytes |-> NoBytes]
ObjectOf(u) == [upload |-> u, meta |-> uploads[u].meta, bytes |-> uploads[u].bytes]

StateType == [upload : UploadIds \cup {None}, pack : Packs \cup {None},
              parts : SUBSET Parts]
UploadType == [status : {"unused", "open", "gone"}, meta : Packs \cup {None},
               bytes : [Parts -> Packs \cup {None}]]
ObjectType == [upload : UploadIds \cup {None}, meta : Packs \cup {None},
               bytes : [Parts -> Packs \cup {None}]]

S3TypeOK ==
  /\ transport \in Packs \cup {None}
  /\ state \in StateType
  /\ uploads \in [UploadIds -> UploadType]
  /\ object \in ObjectType
  /\ marker \in Packs \cup {None}
  /\ faults \in 0..MaxFaults
  /\ at \in [Procs -> Stages]
  /\ dig \in [Procs -> Packs \cup {None}]
  /\ up \in [Procs -> UploadIds \cup {None}]
  /\ got \in [Procs -> SUBSET Parts]
  /\ saved \in [Procs -> SUBSET Parts]

-----------------------------------------------------------------------------

Fault == faults < MaxFaults /\ faults' = faults + 1
Goto(p, stage) == at' = [at EXCEPT ![p] = stage]

\* verifyRemoteObject: metadata and bytes are those of the pack.
Matches(pack) ==
  object.meta = pack /\ \A n \in Parts : object.bytes[n] = pack

\* What materializeS3Backup insists on before it hands a backup out.
Materializes == marker # None /\ \A n \in Parts : object.bytes[n] = marker

\* digestFile
Start(p) ==
  /\ at[p] = "idle" /\ transport # None
  /\ dig' = [dig EXCEPT ![p] = transport]
  /\ Goto(p, "marker")
  /\ UNCHANGED <<transport, state, remoteVars, faults, up, got, saved>>

\* A marker commits the run: it must name this very pack.
ReadMarker(p) ==
  /\ at[p] = "marker"
  /\ \/ marker = None /\ Goto(p, "head")
     \/ marker = dig[p] /\ Goto(p, "confirm")
     \/ marker \notin {None, dig[p]} /\ Goto(p, "failed")
  /\ UNCHANGED <<transport, state, remoteVars, faults, dig, up, got, saved>>

Confirm(p) ==
  /\ at[p] = "confirm"
  /\ Goto(p, IF Matches(dig[p]) THEN "forget" ELSE "failed")
  /\ UNCHANGED <<transport, state, remoteVars, faults, dig, up, got, saved>>

\* An object without a marker is a run that failed before its marker.
HeadObjectTrusting(p) ==   \* mutant: it is not read back
  /\ at[p] = "head"
  /\ Goto(p, IF object = NoObject THEN "prepare" ELSE "mark")
  /\ UNCHANGED <<transport, state, remoteVars, faults, dig, up, got, saved>>
HeadObjectSkipped(p) ==   \* mutant: without a marker there is nothing to find
  /\ at[p] = "head"
  /\ Goto(p, "prepare")
  /\ UNCHANGED <<transport, state, remoteVars, faults, dig, up, got, saved>>
HeadObject(p) ==
  /\ at[p] = "head"
  /\ Goto(p, IF object = NoObject THEN "prepare" ELSE "verify")
  /\ UNCHANGED <<transport, state, remoteVars, faults, dig, up, got, saved>>

\* prepareUploadState
ReadStateAnyPack(p) ==   \* mutant: the digest is not compared
  /\ at[p] = "prepare"
  /\ Goto(p, IF state = NoState THEN "create" ELSE "list")
  /\ up' = [up EXCEPT ![p] = state.upload]
  /\ got' = [got EXCEPT ![p] = state.parts]
  /\ saved' = [saved EXCEPT ![p] = state.parts]
  /\ UNCHANGED <<transport, state, remoteVars, faults, dig>>
ReadStateNoAbort(p) ==   \* mutant: the stale upload is forgotten, not aborted
  /\ at[p] = "prepare"
  /\ Goto(p, CASE state = NoState -> "create"
               [] state # NoState /\ state.pack # dig[p] -> "forget_stale"
               [] OTHER -> "list")
  /\ up' = [up EXCEPT ![p] = state.upload]
  /\ got' = [got EXCEPT ![p] = state.parts]
  /\ saved' = [saved EXCEPT ![p] = state.parts]
  /\ UNCHANGED <<transport, state, remoteVars, faults, dig>>
ReadState(p) ==
  /\ at[p] = "prepare"
  /\ Goto(p, CASE state = NoState -> "create"
               [] state # NoState /\ state.pack # dig[p] -> "abort_stale"
               [] OTHER -> "list")
  /\ up' = [up EXCEPT ![p] = state.upload]
  /\ got' = [got EXCEPT ![p] = state.parts]
  /\ saved' = [saved EXCEPT ![p] = state.parts]
  /\ UNCHANGED <<transport, state, remoteVars, faults, dig>>

Discard(u) == [uploads EXCEPT ![u].status = "gone"]

\* abortUpload: an upload that is not there any more is as good as aborted.
AbortStale(p) ==
  /\ at[p] = "abort_stale"
  /\ uploads' = Discard(up[p])
  /\ Goto(p, "forget_stale")
  /\ UNCHANGED <<transport, state, object, marker, faults, dig, up, got, saved>>

ForgetStale(p) ==
  /\ at[p] = "forget_stale"
  /\ state' = NoState
  /\ Goto(p, "create")
  /\ UNCHANGED <<transport, remoteVars, faults, dig, up, got, saved>>

\* reconcileCompletedParts: only parts the bucket still has count.
ListParts(p) ==
  /\ at[p] = "list"
  /\ LET kept == {n \in got[p] : uploads[up[p]].bytes[n] = dig[p]}
     IN  \/ /\ uploads[up[p]].status # "open"
            /\ Goto(p, "forget_stale")
            /\ UNCHANGED <<state, got, saved>>
         \/ /\ uploads[up[p]].status = "open"
            /\ got' = [got EXCEPT ![p] = kept]
            /\ saved' = [saved EXCEPT ![p] = kept]
            /\ state' = IF kept = got[p] THEN state
                        ELSE [upload |-> up[p], pack |-> dig[p], parts |-> kept]
            /\ Goto(p, "upload")
  /\ UNCHANGED <<transport, remoteVars, faults, dig, up>>

\* createUploadState: the upload exists before the state file knows it.
NewUpload(p, u) ==
  /\ uploads[u].status = "unused"
  /\ uploads' = [uploads EXCEPT ![u] =
                   [status |-> "open", meta |-> dig[p], bytes |-> NoBytes]]

CreateUpload(p) ==
  /\ at[p] = "create"
  /\ \E u \in UploadIds :
       /\ NewUpload(p, u)
       /\ up' = [up EXCEPT ![p] = u]
       /\ got' = [got EXCEPT ![p] = {}]
       /\ saved' = [saved EXCEPT ![p] = {}]
       /\ \/ Goto(p, "created") /\ UNCHANGED faults
          \/ Goto(p, "failed") /\ Fault              \* the response is lost
  /\ UNCHANGED <<transport, state, object, marker, dig>>

SaveNewState(p) ==
  /\ at[p] = "created"
  /\ state' = [upload |-> up[p], pack |-> dig[p], parts |-> {}]
  /\ Goto(p, "upload")
  /\ UNCHANGED <<transport, remoteVars, faults, dig, up, got, saved>>

\* uploadRemainingParts: parts go up in any order, several at a time; each
\* is recorded after its response, the records are written one by one.
UploadPart(p, n) ==
  /\ at[p] = "upload" /\ n \notin got[p]
  /\ \/ /\ uploads[up[p]].status = "open"
        /\ uploads' = [uploads EXCEPT ![up[p]].bytes[n] = transport]
        /\ \/ got' = [got EXCEPT ![p] = @ \cup {n}] /\ UNCHANGED <<at, faults>>
           \/ Goto(p, "failed") /\ Fault /\ UNCHANGED got   \* response lost
     \/ /\ uploads[up[p]].status # "open"
        /\ Goto(p, "failed")
        /\ UNCHANGED <<uploads, got, faults>>
  /\ UNCHANGED <<transport, state, object, marker, dig, up, saved>>

SaveParts(p) ==
  /\ at[p] = "upload" /\ saved[p] # got[p]
  /\ saved' = [saved EXCEPT ![p] = got[p]]
  /\ state' = [upload |-> up[p], pack |-> dig[p], parts |-> got[p]]
  /\ UNCHANGED <<transport, remoteVars, faults, at, dig, up, got>>

AllUploaded(p) ==
  /\ at[p] = "upload" /\ got[p] = Parts /\ saved[p] = Parts
  /\ Goto(p, "complete")
  /\ UNCHANGED <<transport, state, remoteVars, faults, dig, up, got, saved>>

\* completeMultipartUpload: conditional on the object not existing.
CompleteUnconditional(p) ==   \* mutant: without IfNoneMatch
  /\ at[p] = "complete" /\ uploads[up[p]].status = "open"
  /\ object' = ObjectOf(up[p])
  /\ uploads' = Discard(up[p])
  /\ Goto(p, "verify")
  /\ UNCHANGED <<transport, state, marker, faults, dig, up, got, saved>>
CompleteForgetting(p) ==   \* mutant: the state goes before the marker is there
  /\ at[p] = "complete" /\ uploads[up[p]].status = "open" /\ object = NoObject
  /\ object' = ObjectOf(up[p])
  /\ uploads' = Discard(up[p])
  /\ state' = NoState
  /\ Goto(p, "verify")
  /\ UNCHANGED <<transport, marker, faults, dig, up, got, saved>>
Complete(p) ==
  /\ at[p] = "complete"
  /\ \/ /\ uploads[up[p]].status = "open" /\ object = NoObject
        /\ \A n \in Parts : uploads[up[p]].bytes[n] = dig[p]   \* the ETags hold
        /\ object' = ObjectOf(up[p])
        /\ uploads' = Discard(up[p])
        /\ \/ Goto(p, "verify") /\ UNCHANGED faults
           \/ Goto(p, "failed") /\ Fault             \* the response is lost
     \/ /\ object # NoObject                          \* PreconditionFailed
        /\ uploads' = Discard(up[p])
        /\ Goto(p, "failed")
        /\ UNCHANGED <<object, faults>>
     \/ /\ \/ uploads[up[p]].status # "open"
           \/ \E n \in Parts : uploads[up[p]].bytes[n] # dig[p]
        /\ Goto(p, "failed")
        /\ UNCHANGED <<uploads, object, faults>>
  /\ UNCHANGED <<transport, state, marker, dig, up, got, saved>>

Verify(p) ==
  /\ at[p] = "verify"
  /\ Goto(p, IF Matches(dig[p]) THEN "mark" ELSE "failed")
  /\ UNCHANGED <<transport, state, remoteVars, faults, dig, up, got, saved>>

\* writeMarker: an existing marker is kept, then what is there must match.
WriteMarker(p) ==
  /\ at[p] = "mark"
  /\ marker' = IF marker = None THEN dig[p] ELSE marker
  /\ \/ Goto(p, "check") /\ UNCHANGED faults
     \/ Goto(p, "failed") /\ Fault                   \* the response is lost
  /\ UNCHANGED <<transport, state, uploads, object, dig, up, got, saved>>

CheckMarker(p) ==
  /\ at[p] = "check"
  /\ Goto(p, IF marker = dig[p] THEN "forget" ELSE "failed")
  /\ UNCHANGED <<transport, state, remoteVars, faults, dig, up, got, saved>>

Forget(p) ==
  /\ at[p] = "forget"
  /\ state' = NoState
  /\ Goto(p, "returned")
  /\ UNCHANGED <<transport, remoteVars, faults, dig, up, got, saved>>

\* Any request, read or write may fail, and the process may die anywhere.
Fails(p) ==
  /\ at[p] \in Working /\ Fault
  /\ Goto(p, "failed")
  /\ UNCHANGED <<transport, state, remoteVars, dig, up, got, saved>>

Publishing(p) ==
  \/ Start(p) \/ ReadMarker(p) \/ Confirm(p) \/ HeadObject(p) \/ ReadState(p)
  \/ AbortStale(p) \/ ForgetStale(p) \/ ListParts(p)
  \/ CreateUpload(p) \/ SaveNewState(p)
  \/ \E n \in Parts : UploadPart(p, n)
  \/ SaveParts(p) \/ AllUploaded(p) \/ Complete(p)
  \/ Verify(p) \/ WriteMarker(p) \/ CheckMarker(p) \/ Forget(p)
  \/ Fails(p)

\* The operator resumes: a new process, with no memory of the last.
Restart(p) ==
  /\ at[p] = "failed"
  /\ Goto(p, "idle")
  /\ dig' = [dig EXCEPT ![p] = None] /\ up' = [up EXCEPT ![p] = None]
  /\ got' = [got EXCEPT ![p] = {}] /\ saved' = [saved EXCEPT ![p] = {}]
  /\ UNCHANGED <<transport, state, remoteVars, faults>>

\* The bucket drops an unfinished upload (a lifecycle rule).
UploadExpires ==
  /\ Fault
  /\ \E u \in UploadIds : uploads[u].status = "open" /\ uploads' = Discard(u)
  /\ UNCHANGED <<transport, state, object, marker, procVars>>

\* While no process publishes, the workspace is packed again.
Repack ==
  /\ \A p \in Procs : at[p] \notin Working
  /\ transport < MaxPacks /\ transport' = transport + 1
  /\ UNCHANGED <<state, remoteVars, faults, procVars>>

S3Next ==
  \/ \E p \in Procs : Publishing(p) \/ Restart(p)
  \/ UploadExpires \/ Repack

S3Init ==
  /\ transport = 1 /\ state = NoState
  /\ uploads = [u \in UploadIds |->
                  [status |-> "unused", meta |-> None, bytes |-> NoBytes]]
  /\ object = NoObject /\ marker = None /\ faults = 0
  /\ at = [p \in Procs |-> "idle"] /\ dig = [p \in Procs |-> None]
  /\ up = [p \in Procs |-> None]
  /\ got = [p \in Procs |-> {}] /\ saved = [p \in Procs |-> {}]

S3Spec == S3Init /\ [][S3Next]_s3Vars

-----------------------------------------------------------------------------

(* A committed backup can be fetched: once COMPLETE.json exists the object  *)
(* is there and its bytes are the pack the marker names, whatever failed,   *)
(* raced or was repacked before (publishS3Backup, materializeS3Backup).     *)
CommittedBackupMaterializes == marker # None => Materializes

(* The object is never a mixture of two packs, and its declared digest is   *)
(* that of its bytes, although its parts may have been uploaded by several  *)
(* processes (prepareUploadState, reconcileCompletedParts).                 *)
ObjectIsOnePack ==
  object # NoObject => object.meta # None /\ Matches(object.meta)

(* Neither the object nor the marker is ever replaced, not even by the same *)
(* bytes, also when two processes publish the run at once                   *)
(* (completeMultipartUpload, writeMarker).                                  *)
NothingOverwritten ==
  [][/\ object # NoObject => object' = object
     /\ marker # None => marker' = marker]_s3Vars

(* An object without a marker is one a later process can finish: the state  *)
(* file that makes publishBackupOutput keep the transport is still there    *)
(* and names the object's pack (publishS3Backup: the state goes last).      *)
UnmarkedObjectIsResumable ==
  object # NoObject /\ marker = None => state.pack = object.meta

(* An upload the bucket charges for is one some process or the state file   *)
(* knows; it can get lost only between its creation and the first write of  *)
(* the state file (createUploadState, prepareUploadState).                  *)
Known(u) == u = state.upload \/ \E p \in Procs : at[p] \in Working /\ u = up[p]
UploadsGetLostOnlyAtCreation ==
  [][\A u \in UploadIds :
       uploads'[u].status = "open" /\ ~Known(u)' =>
         ~Known(u) \/ \E p \in Procs : at[p] = "created" /\ u = up[p]]_s3Vars

=============================================================================

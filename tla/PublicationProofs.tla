-------------------------- MODULE PublicationProofs --------------------------
(***************************************************************************)
(* S3Publication for any number of processes, parts, packs and failures,   *)
(* and BackupOutput for every set of kinds of output.                      *)
(*                                                                         *)
(* The inductive invariant S3Inv says of every upload some process or the  *)
(* state file works on that its declared digest is the pack they believe   *)
(* it holds (UploadsKnown, StateKnown): completing it then makes an object *)
(* of one pack (ObjectIsOnePack), and a marker names only what was read    *)
(* back (MarkedIsVerified).                                                *)
(*                                                                         *)
(* OutputInv adds what one publisher at a time knows of the bucket and the *)
(* state file (PublisherInv), and what publishBackupOutput knows at each   *)
(* of its stages of the workspace and the local files (StageInv, KindInv,  *)
(* BegunInv): data is not lost half way because every stage but "down"     *)
(* still has checkpoint and workspace, and the stages that remove them     *)
(* know of an archive or a marker.                                         *)
(*                                                                         *)
(* OutputStops is the safety half of OutputIsReached: SendsItsPack says of  *)
(* every stage of the upload that what is there is of the packing this      *)
(* process sends, PacksInTheClear that a bucket run packs where nothing is. *)
(*                                                                         *)
(* PublishingStepsAreBounded, OutputStepsAreBounded: a publisher, and a    *)
(* process of any output, have only so many steps, of which no other       *)
(* process, expiry or repacking gives one back.                            *)
(***************************************************************************)
EXTENDS BackupOutput, FiniteSetTheorems, TLAPS

\* Upload u was created for this pack.
MadeFor(u, pack) ==
  u \in UploadIds /\ uploads[u].status # "unused" /\ uploads[u].meta = pack

StateKnown ==
  state # NoState => state.pack \in Packs /\ MadeFor(state.upload, state.pack)

DigestTaken == \A p \in Procs : at[p] \in Working => dig[p] \in Packs

UsesUpload == {"list", "created", "upload", "complete"}
UploadsKnown ==
  \A p \in Procs :
    /\ at[p] \in UsesUpload => MadeFor(up[p], dig[p])
    /\ at[p] = "abort_stale" =>
         up[p] \in UploadIds /\ uploads[up[p]].status # "unused"

MarkedIsVerified ==
  /\ \A p \in Procs : at[p] = "mark" => Matches(dig[p])
  /\ marker # None => Matches(marker)

S3Inv ==
  /\ S3TypeOK /\ StateKnown /\ DigestTaken /\ UploadsKnown
  /\ MarkedIsVerified /\ ObjectIsOnePack

(* Naming a stage of the protocol moves the process there.                  *)
LEMMA GotoStage ==
  ASSUME S3TypeOK, NEW p \in Procs, NEW stage \in Stages, Goto(p, stage)
  PROVE  at' \in [Procs -> Stages] /\ at'[p] = stage
         /\ \A q \in Procs \ {p} : at'[q] = at[q]
BY DEF S3TypeOK, Goto

LEMMA FaultCounted ==
  ASSUME S3TypeOK, Fault \/ UNCHANGED faults PROVE faults' \in 0..MaxFaults
BY S3Assumption DEF S3TypeOK, Fault

LEMMA BytesChange ==
  ASSUME NEW u \in UploadType, NEW b \in [Parts -> Packs \cup {None}]
  PROVE  /\ [u EXCEPT !.bytes = b] \in UploadType
         /\ [u EXCEPT !.bytes = b].meta = u.meta
         /\ [u EXCEPT !.bytes = b].status = u.status
BY DEF UploadType

(* Aborting or completing an upload changes nothing of what it was made for.*)
LEMMA DiscardKeeps ==
  ASSUME S3TypeOK, NEW u \in UploadIds, uploads[u].status # "unused"
  PROVE  /\ Discard(u) \in [UploadIds -> UploadType]
         /\ \A v \in UploadIds : /\ Discard(u)[v].meta = uploads[v].meta
                                 /\ uploads[v].status # "unused" => Discard(u)[v].status # "unused"
<1> DEFINE r == [uploads[u] EXCEPT !.status = "gone"]
<1>1. uploads \in [UploadIds -> UploadType]
  BY DEF S3TypeOK, UploadType
<1>2. r \in UploadType /\ r.meta = uploads[u].meta /\ r.status = "gone"
  BY <1>1 DEF UploadType
<1>3. Discard(u) = [uploads EXCEPT ![u] = r]
  BY DEF Discard
<1>. QED
  BY <1>1, <1>2, <1>3

LEMMA S3InitInv == S3Init => S3Inv
BY S3Assumption
DEF S3Init, S3Inv, S3TypeOK, StateKnown, DigestTaken, UploadsKnown, MarkedIsVerified,
    ObjectIsOnePack, Stages, Working, UsesUpload, NoState, NoObject, NoBytes, Packs,
    UploadIds, None, StateType, UploadType, ObjectType

(* The steps that only look, at the bucket or at the state file.            *)
LEMMA LookingKeepsInv ==
  ASSUME S3Inv, NEW p \in Procs,
         Start(p) \/ ReadMarker(p) \/ Confirm(p) \/ HeadObject(p) \/ ReadState(p)
         \/ AllUploaded(p) \/ Verify(p) \/ CheckMarker(p) \/ Fails(p) \/ Restart(p)
  PROVE  S3Inv'
<1> USE DEF S3Inv, S3TypeOK, remoteVars, Goto, Working, Stages
<1>1. S3TypeOK' /\ DigestTaken'
  <2>1. CASE Start(p)
    BY <2>1 DEF Start, DigestTaken, None
  <2>2. CASE ReadMarker(p)
    BY <2>2 DEF ReadMarker, DigestTaken
  <2>3. CASE Confirm(p)
    BY <2>3 DEF Confirm, DigestTaken
  <2>4. CASE HeadObject(p)
    BY <2>4 DEF HeadObject, DigestTaken
  <2>5. CASE ReadState(p)
    BY <2>5 DEF ReadState, DigestTaken, StateType
  <2>6. CASE AllUploaded(p)
    BY <2>6 DEF AllUploaded, DigestTaken
  <2>7. CASE Verify(p)
    BY <2>7 DEF Verify, DigestTaken
  <2>8. CASE CheckMarker(p)
    BY <2>8 DEF CheckMarker, DigestTaken
  <2>9. CASE Fails(p)
    BY <2>9, S3Assumption DEF Fails, Fault, DigestTaken
  <2>10. CASE Restart(p)
    BY <2>10 DEF Restart, DigestTaken
  <2>. QED
    BY <2>1, <2>2, <2>3, <2>4, <2>5, <2>6, <2>7, <2>8, <2>9, <2>10
<1>2. UNCHANGED <<state, uploads, object, marker>>
  BY DEF Start, ReadMarker, Confirm, HeadObject, ReadState, AllUploaded, Verify,
         CheckMarker, Fails, Restart
<1>3. StateKnown' /\ ObjectIsOnePack'
  BY <1>2 DEF StateKnown, MadeFor, ObjectIsOnePack, Matches
<1>4. UploadsKnown'
  <2>1. CASE ReadState(p)
    BY <2>1 DEF ReadState, UploadsKnown, StateKnown, MadeFor, UsesUpload
  <2>2. CASE Start(p) \/ Restart(p)
    BY <2>2 DEF Start, Restart, UploadsKnown, MadeFor, UsesUpload
  <2>3. CASE ReadMarker(p) \/ Confirm(p) \/ HeadObject(p) \/ AllUploaded(p)
             \/ Verify(p) \/ CheckMarker(p) \/ Fails(p)
    BY <2>3 DEF ReadMarker, Confirm, HeadObject, AllUploaded, Verify, CheckMarker, Fails,
                UploadsKnown, MadeFor, UsesUpload
  <2>. QED
    BY <2>1, <2>2, <2>3
<1>5. MarkedIsVerified'
  <2>1. CASE ReadState(p) \/ Start(p) \/ Restart(p)
    BY <2>1 DEF ReadState, Start, Restart, MarkedIsVerified, Matches
  <2>2. CASE Verify(p)
    BY <2>2 DEF Verify, MarkedIsVerified, Matches
  <2>3. CASE ReadMarker(p) \/ Confirm(p) \/ HeadObject(p) \/ AllUploaded(p)
             \/ CheckMarker(p) \/ Fails(p)
    BY <2>3 DEF ReadMarker, Confirm, HeadObject, AllUploaded, CheckMarker, Fails,
                MarkedIsVerified, Matches
  <2>. QED
    BY <2>1, <2>2, <2>3
<1>. QED
  BY <1>1, <1>3, <1>4, <1>5

(* The steps on the local state file.                                       *)
LEMMA RecordingKeepsInv ==
  ASSUME S3Inv, NEW p \in Procs,
         ForgetStale(p) \/ ListParts(p) \/ SaveNewState(p) \/ SaveParts(p) \/ Forget(p)
  PROVE  S3Inv'
<1> USE DEF S3Inv, S3TypeOK, remoteVars, Goto, Working, Stages
<1>1. UNCHANGED <<transport, uploads, object, marker, faults, dig, up>>
  BY DEF ForgetStale, ListParts, SaveNewState, SaveParts, Forget
<1>a. ASSUME at[p] \in UsesUpload
      PROVE  /\ up[p] \in UploadIds /\ dig[p] \in Packs
             /\ MadeFor(up[p], dig[p])
  BY <1>a DEF UploadsKnown, MadeFor, DigestTaken, UsesUpload
<1>2. S3TypeOK'
  <2>1. CASE ForgetStale(p) \/ Forget(p)
    BY <2>1 DEF ForgetStale, Forget, NoState, StateType
  <2>2. CASE ListParts(p)
    <3> DEFINE kept == {n \in got[p] : uploads[up[p]].bytes[n] = dig[p]}
    <3>1. kept \in SUBSET Parts
      OBVIOUS
    <3>2. [upload |-> up[p], pack |-> dig[p], parts |-> kept] \in StateType
      BY <3>1 DEF StateType
    <3>3. state' \in StateType
      BY <2>2, <3>2 DEF ListParts
    <3>4. at' \in [Procs -> Stages]
      BY <2>2 DEF ListParts
    <3>5. \/ got' = got /\ saved' = saved
          \/ got' = [got EXCEPT ![p] = kept] /\ saved' = [saved EXCEPT ![p] = kept]
      BY <2>2 DEF ListParts
    <3> HIDE DEF kept
    <3>6. got' \in [Procs -> SUBSET Parts] /\ saved' \in [Procs -> SUBSET Parts]
      BY <3>1, <3>5
    <3>. QED
      BY <1>1, <3>3, <3>4, <3>6
  <2>3. CASE SaveNewState(p) \/ SaveParts(p)
    <3>1. state' \in StateType
      <4>1. PICK n \in SUBSET Parts :
              state' = [upload |-> up[p], pack |-> dig[p], parts |-> n]
        BY <2>3 DEF SaveNewState, SaveParts
      <4>. QED
        BY <4>1 DEF StateType
    <3>2. got' \in [Procs -> SUBSET Parts] /\ saved' \in [Procs -> SUBSET Parts]
      BY <2>3 DEF SaveNewState, SaveParts
    <3>3. at' \in [Procs -> Stages]
      BY <2>3 DEF SaveNewState, SaveParts
    <3>. QED
      BY <1>1, <3>1, <3>2, <3>3
  <2>. QED
    BY <2>1, <2>2, <2>3
<1>3. StateKnown'
  <2>1. CASE state' = NoState \/ state' = state
    BY <2>1, <1>1 DEF StateKnown, MadeFor
  <2>2. CASE at[p] \in UsesUpload /\ state'.upload = up[p] /\ state'.pack = dig[p]
    BY <2>2, <1>1, <1>a DEF StateKnown, MadeFor
  <2>. QED
    BY <2>1, <2>2 DEF ForgetStale, ListParts, SaveNewState, SaveParts, Forget, UsesUpload
<1>4. /\ at'[p] \in {"create", "upload", "forget_stale", "returned"}
      /\ at[p] \in Working
      /\ at'[p] = "upload" => at[p] \in UsesUpload
      /\ \A q \in Procs \ {p} : at'[q] = at[q]
  BY DEF ForgetStale, ListParts, SaveNewState, SaveParts, Forget, UsesUpload
<1>5. DigestTaken' /\ UploadsKnown' /\ MarkedIsVerified' /\ ObjectIsOnePack'
  BY <1>1, <1>4, <1>a
  DEF DigestTaken, UploadsKnown, MarkedIsVerified, ObjectIsOnePack, MadeFor, Matches, UsesUpload
<1>. QED
  BY <1>2, <1>3, <1>5

(* A new upload is one no process and no state file knew.                   *)
LEMMA CreateKeepsInv ==
  ASSUME S3Inv, NEW p \in Procs, CreateUpload(p)
  PROVE  S3Inv'
<1> USE DEF S3Inv, S3TypeOK, remoteVars, Goto, Working, Stages
<1>1. PICK u \in UploadIds :
        /\ NewUpload(p, u) /\ up' = [up EXCEPT ![p] = u]
        /\ got' = [got EXCEPT ![p] = {}] /\ saved' = [saved EXCEPT ![p] = {}]
        /\ \/ Goto(p, "created") /\ UNCHANGED faults
           \/ Goto(p, "failed") /\ Fault
  BY DEF CreateUpload
<1>2. UNCHANGED <<transport, state, object, marker, dig>> /\ at[p] = "create"
  BY DEF CreateUpload
<1>3. uploads' \in [UploadIds -> UploadType]
  <2>1. [status |-> "open", meta |-> dig[p], bytes |-> NoBytes] \in UploadType
    BY DEF UploadType, NoBytes
  <2>. QED
    BY <1>1, <2>1 DEF NewUpload, UploadType
<1>4. \A v \in UploadIds : uploads[v].status # "unused" => uploads'[v] = uploads[v]
  BY <1>1 DEF NewUpload
<1>5. uploads'[u].status = "open" /\ uploads'[u].meta = dig[p]
  BY <1>1 DEF NewUpload
<1>a. faults' \in 0..MaxFaults
  BY <1>1, FaultCounted
<1>b. at' \in [Procs -> Stages]
  BY <1>1
<1>c. up' \in [Procs -> UploadIds \cup {None}] /\ got' \in [Procs -> SUBSET Parts]
      /\ saved' \in [Procs -> SUBSET Parts]
  BY <1>1
<1>d. /\ transport' \in Packs \cup {None}
      /\ state' \in StateType
      /\ object' \in ObjectType
      /\ marker' \in Packs \cup {None}
      /\ dig' \in [Procs -> Packs \cup {None}]
  BY <1>2
<1>6. S3TypeOK'
  BY <1>3, <1>a, <1>b, <1>c, <1>d DEF UploadType
<1>7. StateKnown' /\ ObjectIsOnePack' /\ MarkedIsVerified' /\ DigestTaken'
  BY <1>1, <1>2, <1>4
  DEF StateKnown, ObjectIsOnePack, MarkedIsVerified, DigestTaken, MadeFor, Matches
<1>8. UploadsKnown'
  BY <1>1, <1>2, <1>4, <1>5 DEF UploadsKnown, MadeFor, UsesUpload
<1>. QED
  BY <1>6, <1>7, <1>8

(* The steps on uploads that exist: a part, an abort, an expiry.            *)
LEMMA UploadingKeepsInv ==
  ASSUME S3Inv,
         (\E p \in Procs : AbortStale(p) \/ \E n \in Parts : UploadPart(p, n))
           \/ UploadExpires
  PROVE  S3Inv'
<1> USE DEF S3Inv, S3TypeOK, remoteVars, procVars, Goto, Working, Stages
<1>1. UNCHANGED <<transport, state, object, marker, dig, up, saved>>
  BY DEF AbortStale, UploadPart, UploadExpires
<1>2. /\ uploads' \in [UploadIds -> UploadType]
      /\ \A v \in UploadIds : /\ uploads'[v].meta = uploads[v].meta
                              /\ uploads[v].status # "unused" => uploads'[v].status # "unused"
  <2>1. CASE \E p \in Procs : AbortStale(p)
    BY <2>1, DiscardKeeps DEF AbortStale, UploadsKnown
  <2>2. CASE \E p \in Procs : \E n \in Parts : UploadPart(p, n)
    <3>1. PICK p \in Procs, n \in Parts : UploadPart(p, n)
      BY <2>2
    <3>2. up[p] \in UploadIds
      BY <3>1 DEF UploadPart, UploadsKnown, UsesUpload, MadeFor
    <3>3. uploads \in [UploadIds -> UploadType]
      BY DEF UploadType
    <3>4. CASE UNCHANGED uploads
      BY <3>3, <3>4
    <3>5. CASE uploads' = [uploads EXCEPT ![up[p]].bytes[n] = transport]
      <4> DEFINE b == [uploads[up[p]].bytes EXCEPT ![n] = transport]
                 r == [uploads[up[p]] EXCEPT !.bytes = b]
      <4>0. b \in [Parts -> Packs \cup {None}]
        BY <3>2, <3>3 DEF UploadType
      <4> HIDE DEF b
      <4>1. r \in UploadType /\ r.meta = uploads[up[p]].meta /\ r.status = uploads[up[p]].status
        <5>1. uploads[up[p]] \in UploadType
          BY <3>2, <3>3
        <5>. QED
          BY <5>1, <4>0, BytesChange
      <4>2. uploads' = [uploads EXCEPT ![up[p]] = r]
        BY <3>5 DEF b
      <4> HIDE DEF r
      <4>. QED
        BY <3>2, <3>3, <4>1, <4>2
    <3>. QED
      BY <3>1, <3>4, <3>5 DEF UploadPart
  <2>3. CASE UploadExpires
    BY <2>3, DiscardKeeps DEF UploadExpires
  <2>. QED
    BY <2>1, <2>2, <2>3
<1>3. /\ at' \in [Procs -> Stages] /\ got' \in [Procs -> SUBSET Parts]
      /\ faults' \in 0..MaxFaults
      /\ \A q \in Procs : at'[q] # at[q] => at'[q] \in {"forget_stale", "failed"} /\ at[q] \in Working
  <2>1. CASE \E p \in Procs : AbortStale(p)
    BY <2>1 DEF AbortStale
  <2>2. CASE \E p \in Procs : \E n \in Parts : UploadPart(p, n)
    <3>1. PICK p \in Procs, n \in Parts : UploadPart(p, n)
      BY <2>2
    <3>2. at' \in [Procs -> Stages]
          /\ \A q \in Procs : at'[q] # at[q] => at'[q] = "failed" /\ at[q] \in Working
      BY <3>1 DEF UploadPart
    <3>3. got' \in [Procs -> SUBSET Parts]
      BY <3>1 DEF UploadPart
    <3>4. faults' \in 0..MaxFaults
      BY <3>1, FaultCounted DEF UploadPart
    <3>. QED
      BY <3>2, <3>3, <3>4
  <2>3. CASE UploadExpires
    BY <2>3, FaultCounted DEF UploadExpires
  <2>. QED
    BY <2>1, <2>2, <2>3
<1>4. S3TypeOK'
  BY <1>1, <1>2, <1>3 DEF UploadType
<1>5. StateKnown' /\ ObjectIsOnePack' /\ MarkedIsVerified' /\ DigestTaken'
  <2>1. StateKnown'
    BY <1>1, <1>2 DEF StateKnown, MadeFor
  <2>2. ObjectIsOnePack'
    BY <1>1 DEF ObjectIsOnePack, Matches
  <2>3. MarkedIsVerified'
    BY <1>1, <1>3 DEF MarkedIsVerified, Matches
  <2>4. DigestTaken'
    BY <1>1, <1>3 DEF DigestTaken
  <2>. QED
    BY <2>1, <2>2, <2>3, <2>4
<1>6. UploadsKnown'
  <2> SUFFICES ASSUME NEW q \in Procs
               PROVE  /\ at'[q] \in UsesUpload => MadeFor(up[q], dig[q])'
                      /\ at'[q] = "abort_stale" =>
                           up[q] \in UploadIds /\ uploads'[up[q]].status # "unused"
    BY <1>1 DEF UploadsKnown, MadeFor
  <2>1. at'[q] \in UsesUpload \cup {"abort_stale"} => at'[q] = at[q]
    BY <1>3 DEF UsesUpload
  <2>2. /\ at[q] \in UsesUpload => MadeFor(up[q], dig[q])
        /\ at[q] = "abort_stale" =>
             up[q] \in UploadIds /\ uploads[up[q]].status # "unused"
    BY DEF UploadsKnown
  <2>3. MadeFor(up[q], dig[q]) => MadeFor(up[q], dig[q])'
    BY <1>1, <1>2 DEF MadeFor
  <2>. QED
    BY <1>2, <2>1, <2>2, <2>3
<1>. QED
  BY <1>4, <1>5, <1>6

(* Completion makes an object only where there is none, of one pack.        *)
LEMMA CompleteKeepsInv ==
  ASSUME S3Inv, NEW p \in Procs, Complete(p)
  PROVE  S3Inv'
<1> USE DEF S3Inv, S3TypeOK, remoteVars, Goto, Working, Stages
<1>1. UNCHANGED <<transport, state, marker, dig, up, got, saved>> /\ at[p] = "complete"
  BY DEF Complete
<1>2. MadeFor(up[p], dig[p]) /\ dig[p] \in Packs
  BY <1>1 DEF UploadsKnown, UsesUpload, DigestTaken
<1>3. /\ uploads' \in [UploadIds -> UploadType]
      /\ \A v \in UploadIds : /\ uploads'[v].meta = uploads[v].meta
                              /\ uploads[v].status # "unused" => uploads'[v].status # "unused"
  BY <1>2, DiscardKeeps DEF Complete, MadeFor, UploadType
<1>4. \/ UNCHANGED object
      \/ object = NoObject /\ object'.meta = dig[p]
         /\ object' \in ObjectType
         /\ \A n \in Parts : object'.bytes[n] = dig[p]
  <2>1. CASE UNCHANGED object
    BY <2>1
  <2>2. CASE object = NoObject /\ object' = ObjectOf(up[p])
             /\ \A n \in Parts : uploads[up[p]].bytes[n] = dig[p]
    <3>1. uploads[up[p]] \in UploadType /\ up[p] \in UploadIds
      BY <1>2 DEF MadeFor
    <3>2. ObjectOf(up[p]) \in ObjectType
      BY <3>1 DEF ObjectOf, ObjectType, UploadType
    <3>3. ObjectOf(up[p]).meta = dig[p] /\ ObjectOf(up[p]).bytes = uploads[up[p]].bytes
      BY <1>2 DEF MadeFor, ObjectOf
    <3>. QED
      BY <2>2, <3>2, <3>3
  <2>. QED
    BY <2>1, <2>2 DEF Complete
<1>5. /\ at' \in [Procs -> Stages] /\ faults' \in 0..MaxFaults
      /\ at'[p] \in {"verify", "failed"} /\ \A q \in Procs \ {p} : at'[q] = at[q]
  <2>1. faults' \in 0..MaxFaults
    BY FaultCounted DEF Complete
  <2>2. Goto(p, "verify") \/ Goto(p, "failed")
    BY DEF Complete
  <2>. QED
    BY <2>1, <2>2
<1>6. S3TypeOK'
  BY <1>1, <1>3, <1>4, <1>5 DEF UploadType
<1>7. StateKnown' /\ UploadsKnown' /\ DigestTaken'
  BY <1>1, <1>3, <1>5 DEF StateKnown, UploadsKnown, DigestTaken, MadeFor, UsesUpload
<1>8. \A d \in Packs : Matches(d) => object # NoObject
  BY DEF Matches, NoObject, Packs, None
<1>9. ObjectIsOnePack'
  BY <1>2, <1>4 DEF ObjectIsOnePack, Matches, Packs, None
<1>10. MarkedIsVerified'
  <2>1. CASE UNCHANGED object
    BY <1>1, <1>5, <2>1 DEF MarkedIsVerified, Matches
  <2>2. CASE object = NoObject
    <3>1. \A q \in Procs : at[q] # "mark"
      BY <1>8, <2>2 DEF MarkedIsVerified, DigestTaken
    <3>2. marker = None
      BY <1>8, <2>2 DEF MarkedIsVerified
    <3>. QED
      BY <1>1, <1>5, <3>1, <3>2 DEF MarkedIsVerified
  <2>. QED
    BY <1>4, <2>1, <2>2
<1>. QED
  BY <1>6, <1>7, <1>9, <1>10

LEMMA MarkingKeepsInv ==
  ASSUME S3Inv, NEW p \in Procs, WriteMarker(p)
  PROVE  S3Inv'
<1> USE DEF S3Inv, S3TypeOK, remoteVars, Goto, Working, Stages
<1>a. UNCHANGED <<transport, state, uploads, object, dig, up, got, saved>>
      /\ at[p] = "mark" /\ dig[p] \in Packs
  BY DEF WriteMarker, DigestTaken
<1>b. faults' \in 0..MaxFaults
  BY FaultCounted DEF WriteMarker
<1>c. Goto(p, "check") \/ Goto(p, "failed")
  BY DEF WriteMarker
<1>d. marker' = dig[p] \/ marker' = marker
  BY DEF WriteMarker
<1>1. S3TypeOK'
  <2>1. at' \in [Procs -> Stages]
    BY <1>c
  <2>2. marker' \in Packs \cup {None}
    BY <1>a, <1>d
  <2>. QED
    BY <1>a, <1>b, <2>1, <2>2
<1>2. StateKnown' /\ UploadsKnown' /\ DigestTaken' /\ ObjectIsOnePack'
  <2>1. StateKnown' /\ ObjectIsOnePack'
    BY <1>a DEF StateKnown, ObjectIsOnePack, MadeFor, Matches
  <2>2. DigestTaken'
    BY <1>a, <1>c DEF DigestTaken
  <2>3. UploadsKnown'
    BY <1>a, <1>c DEF UploadsKnown, MadeFor, UsesUpload
  <2>. QED
    BY <2>1, <2>2, <2>3
<1>3. MarkedIsVerified'
  BY DEF WriteMarker, MarkedIsVerified, Matches
<1>. QED
  BY <1>1, <1>2, <1>3

LEMMA RepackKeepsInv == ASSUME S3Inv, Repack PROVE S3Inv'
<1>1. UNCHANGED <<state, uploads, object, marker, faults, at, dig, up, got, saved>>
  BY DEF Repack, remoteVars, procVars
<1>2. transport' \in Packs
  BY S3Assumption DEF Repack, S3Inv, S3TypeOK, Packs, None
<1>3. S3TypeOK'
  BY <1>1, <1>2 DEF S3Inv, S3TypeOK
<1>4. StateKnown' /\ UploadsKnown' /\ DigestTaken' /\ ObjectIsOnePack' /\ MarkedIsVerified'
  BY <1>1
  DEF S3Inv, StateKnown, UploadsKnown, DigestTaken, ObjectIsOnePack, MarkedIsVerified,
      MadeFor, Matches
<1>. QED
  BY <1>3, <1>4 DEF S3Inv

LEMMA S3StepKeepsInv == S3Inv /\ [S3Next]_s3Vars => S3Inv'
<1> SUFFICES ASSUME S3Inv, [S3Next]_s3Vars PROVE S3Inv'
  OBVIOUS
<1>1. CASE S3Next
  BY <1>1, LookingKeepsInv, RecordingKeepsInv, CreateKeepsInv, UploadingKeepsInv,
     CompleteKeepsInv, MarkingKeepsInv, RepackKeepsInv
  DEF S3Next, Publishing
<1>2. CASE UNCHANGED s3Vars
  BY <1>2
  DEF s3Vars, S3Inv, S3TypeOK, StateKnown, UploadsKnown, DigestTaken, ObjectIsOnePack,
      MarkedIsVerified, MadeFor, Matches
<1>. QED
  BY <1>1, <1>2

LEMMA S3Invariant == S3Spec => []S3Inv
BY S3InitInv, S3StepKeepsInv, PTL DEF S3Spec

(* S3TypeOK is an invariant of the publication.                             *)
THEOREM S3TypeCorrect == S3Spec => []S3TypeOK
<1>1. S3Inv => S3TypeOK
  BY DEF S3Inv
<1>. QED
  BY <1>1, S3Invariant, PTL

(* The object is of one pack and is labelled so (prepareUploadState,        *)
(* completeMultipartUpload).                                                *)
THEOREM ObjectNeverMixed == S3Spec => []ObjectIsOnePack
<1>1. S3Inv => ObjectIsOnePack
  BY DEF S3Inv
<1>. QED
  BY <1>1, S3Invariant, PTL

(* What a marker commits can be fetched (publishS3Backup,                   *)
(* materializeS3Backup).                                                    *)
THEOREM CommittedCanBeFetched == S3Spec => []CommittedBackupMaterializes
<1>1. S3Inv => CommittedBackupMaterializes
  BY DEF S3Inv, MarkedIsVerified, CommittedBackupMaterializes, Materializes, Matches
<1>. QED
  BY <1>1, S3Invariant, PTL

(* No step of any number of concurrent publishers replaces the object or    *)
(* the marker (completeMultipartUpload, writeMarker).                       *)
THEOREM RemoteIsWriteOnce == S3Spec => NothingOverwritten
<1> DEFINE WriteOnce == /\ object # NoObject => object' = object
                        /\ marker # None => marker' = marker
<1>1. ASSUME S3Next PROVE WriteOnce
  <2>1. ASSUME NEW p \in Procs, Complete(p) PROVE WriteOnce
    BY <2>1 DEF Complete
  <2>2. ASSUME NEW p \in Procs, WriteMarker(p) PROVE WriteOnce
    BY <2>2 DEF WriteMarker
  <2>3. ASSUME NEW p \in Procs, Publishing(p), ~Complete(p), ~WriteMarker(p)
        PROVE  UNCHANGED <<object, marker>>
    BY <2>3 DEF Publishing, Start, ReadMarker, Confirm, HeadObject, ReadState, AbortStale,
         ForgetStale, ListParts, CreateUpload, SaveNewState, UploadPart, SaveParts,
         AllUploaded, Verify, CheckMarker, Forget, Fails, remoteVars
  <2>4. ASSUME NEW p \in Procs, Restart(p) PROVE UNCHANGED <<object, marker>>
    BY <2>4 DEF Restart, remoteVars
  <2>5. ASSUME UploadExpires \/ Repack PROVE UNCHANGED <<object, marker>>
    BY <2>5 DEF UploadExpires, Repack, remoteVars
  <2>. QED
    BY <1>1, <2>1, <2>2, <2>3, <2>4, <2>5 DEF S3Next
<1>2. [S3Next]_s3Vars => [WriteOnce]_s3Vars
  BY <1>1
<1>. QED
  BY <1>2, PTL DEF S3Spec, NothingOverwritten

-----------------------------------------------------------------------------
\* The output: publishS3Backup inside publishBackupOutput.

LEMMA PublisherExists == Publisher \in Procs
BY OutputAssumption DEF Publisher

(* What publishBackupOutput does around the upload: the local files, and the *)
(* end of a process.                                                         *)
LEMMA AroundTheUpload ==
  ASSUME S3Inv, UNCHANGED remoteVars, state' \in {state, NoState},
         transport' \in Packs \cup {None}, Fault \/ UNCHANGED faults,
         UNCHANGED procVars \/ \E o \in {"completed", "failed", "discarded"} : Down(o)
  PROVE  S3Inv'
<1>1. faults' \in 0..MaxFaults
  BY FaultCounted DEF S3Inv
<1>2. /\ at' \in [Procs -> Stages] /\ dig' \in [Procs -> Packs \cup {None}]
      /\ up' \in [Procs -> UploadIds \cup {None}]
      /\ got' \in [Procs -> SUBSET Parts] /\ saved' \in [Procs -> SUBSET Parts]
  BY DEF S3Inv, S3TypeOK, procVars, Down, Stages
<1>3. state' \in StateType
  BY DEF S3Inv, S3TypeOK, StateType, NoState
<1>4. S3TypeOK'
  BY <1>1, <1>2, <1>3 DEF S3Inv, S3TypeOK, remoteVars
<1>5. StateKnown' /\ ObjectIsOnePack'
  BY DEF S3Inv, remoteVars, StateKnown, MadeFor, ObjectIsOnePack, Matches
<1>6. CASE UNCHANGED procVars
  BY <1>4, <1>5, <1>6 DEF S3Inv, remoteVars, procVars, DigestTaken, UploadsKnown, MadeFor,
     MarkedIsVerified, Matches
<1>7. CASE \A p \in Procs : at'[p] = "idle"
  BY <1>4, <1>5, <1>7 DEF S3Inv, remoteVars, DigestTaken, UploadsKnown, UsesUpload, Working,
     MarkedIsVerified, Matches
<1>. QED
  BY <1>6, <1>7 DEF Down

LEMMA PublishingKeepsInv == ASSUME S3Inv, NEW p \in Procs, Publishing(p) PROVE S3Inv'
BY LookingKeepsInv, RecordingKeepsInv, CreateKeepsInv, UploadingKeepsInv, CompleteKeepsInv,
   MarkingKeepsInv DEF Publishing

(* The process that publishes, the state file and the bucket, with nobody   *)
(* else at work.                                                            *)
PublisherInv ==
  /\ at[Publisher] \in {"confirm", "forget", "returned"} => marker # None
  /\ at[Publisher] \in {"prepare", "abort_stale", "forget_stale", "list", "create",
                        "created", "upload", "complete"} => object = NoObject
  /\ at[Publisher] \in {"list", "upload", "complete"} =>
       state.pack = dig[Publisher] /\ state.upload = up[Publisher]
  /\ at[Publisher] = "abort_stale" => state.upload = up[Publisher]
  /\ at[Publisher] = "forget_stale" =>
       state.upload \in UploadIds /\ uploads[state.upload].status = "gone"
  /\ at[Publisher] \in {"create", "created"} => state = NoState
  /\ object # NoObject /\ state # NoState => uploads[state.upload].status = "gone"
  /\ UnmarkedObjectIsResumable

\* Only the publisher runs, and only while its upload is on.
NobodyElse ==
  /\ \A p \in Procs \ {Publisher} : at[p] = "idle"
  /\ pc \notin {"upload", "cleanup"} => at[Publisher] = "idle"
  /\ pc = "cleanup" => at[Publisher] \in {"idle", "returned"}

\* What publishBackupOutput knows at its stages.
StageInv ==
  /\ pc # "down" => Resumable
  /\ pc \in {"clear", "upload"} => Remote
  /\ pc \in {"encrypt", "drop_archive"} => Encrypted
  /\ pc = "cleanup" => Remote \/ Encrypted
  /\ pc = "cleanup" /\ Remote => marker # None
  /\ pc \in {"drop_archive", "output"} => transport # None
  /\ pc = "cleanup" /\ ~Remote => transport # None
  /\ pc \in {"output", "cleanup"} /\ ~Remote => archive = None

\* What the kind of the output tells of the local files.
KindInv ==
  /\ ~Encrypted => archive = None
  /\ ~Remote => state = NoState

\* Whether an upload had begun when this process chose its transport.
BegunInv ==
  /\ ~resumed /\ pc \notin {"output", "upload", "cleanup", "down"} => state = NoState
  /\ pc = "clear" => transport = None \/ state = NoState
  /\ pc \in {"pack", "error"} /\ ~Encrypted => transport = None \/ state = NoState

OutputInv ==
  /\ OutputTypeOK /\ S3Inv
  /\ PublisherInv /\ NobodyElse
  /\ StageInv /\ KindInv /\ BegunInv
  /\ outcome = "completed" => pc = "down"
  /\ NothingLostHalfWay /\ SuccessIsComplete

LEMMA CommittedIsReadable ==
  ASSUME OutputInv, Remote, marker # None
  PROVE  Materializes /\ HasOutput
BY DEF OutputInv, S3Inv, MarkedIsVerified, Matches, Materializes, HasOutput, Output

LEMMA InitOutputInv == OutputInit => OutputInv
<1> SUFFICES ASSUME OutputInit PROVE OutputInv
  OBVIOUS
<1>1. S3Inv
  BY S3Assumption
  DEF OutputInit, S3Inv, S3TypeOK, StateKnown, DigestTaken, UploadsKnown, MarkedIsVerified,
      ObjectIsOnePack, Stages, Working, UsesUpload, NoState, NoObject, NoBytes, Packs,
      UploadIds, None, StateType, UploadType, ObjectType
<1>2. OutputTypeOK
  <2>1. sealed \in Packs /\ archive \in Packs \cup {None} /\ S3TypeOK
    BY <1>1, S3Assumption DEF OutputInit, S3Inv, Packs
  <2>2. hasCkpt \in BOOLEAN /\ resumed \in BOOLEAN
    BY DEF OutputInit
  <2>. QED
    BY <2>1, <2>2 DEF OutputInit, OutputTypeOK, PCs
<1>3. PublisherInv /\ NobodyElse
  BY PublisherExists DEF OutputInit, PublisherInv, NobodyElse, UnmarkedObjectIsResumable
<1>4. StageInv /\ KindInv /\ BegunInv /\ NothingLostHalfWay /\ SuccessIsComplete
  BY DEF OutputInit, StageInv, KindInv, BegunInv, NothingLostHalfWay, SuccessIsComplete,
     Resumable
<1>. QED
  BY <1>1, <1>2, <1>3, <1>4 DEF OutputInit, OutputInv

-----------------------------------------------------------------------------

\* A step of the run outside of its upload.
Around ==
  /\ UNCHANGED remoteVars /\ state' \in {state, NoState}
  /\ transport' \in {transport, None, sealed}
  /\ Fault \/ UNCHANGED faults
  /\ UNCHANGED procVars \/ \E o \in {"completed", "failed", "discarded"} : Down(o)

LEMMA StepsOfARun ==
  ASSUME OutputNext
  PROVE  \/ Around
         \/ pc = "upload" /\ Publishing(Publisher) /\ UNCHANGED outputVars
         \/ UploadExpires /\ UNCHANGED outputVars
<1> USE DEF Around, Continue, remoteVars, procVars
<1>1. CASE KeepDirectory \/ ChooseTransport \/ ClearTransport \/ Pack \/ Encrypt \/ DropArchive
           \/ PackingFails
  BY <1>1 DEF KeepDirectory, ChooseTransport, ClearTransport, Pack, Encrypt, DropArchive,
     PackingFails
<1>2. CASE HandleError
  <2>1. Down("discarded") \/ Down("failed")
    BY <1>2 DEF HandleError
  <2>. QED
    BY <1>2, <2>1 DEF HandleError
<1>3. CASE HandOver
  BY <1>3 DEF HandOver
<1>4. CASE CleanUp \/ CleanUpFails \/ Crash
  BY <1>4 DEF CleanUp, CleanUpFails, Crash
<1>5. CASE Upload
  BY <1>5 DEF Upload
<1>6. CASE Resume \/ ResumeRefused \/ TransportDeleted \/ Expires
  BY <1>6 DEF Resume, ResumeRefused, TransportDeleted, Expires, s3Vars
<1>. QED
  BY <1>1, <1>2, <1>3, <1>4, <1>5, <1>6 DEF OutputNext, Publish

LEMMA BucketInvKept ==
  ASSUME OutputInv, OutputNext
  PROVE  S3Inv'
<1>1. S3Inv /\ transport \in Packs \cup {None} /\ sealed \in Packs
  BY DEF OutputInv, OutputTypeOK, S3TypeOK
<1>2. CASE Around
  BY <1>1, <1>2, AroundTheUpload DEF Around
<1>. QED
  BY <1>1, <1>2, StepsOfARun, PublisherExists, PublishingKeepsInv, UploadingKeepsInv

LEMMA OutputKeepsTypes ==
  ASSUME OutputInv, OutputNext
  PROVE  OutputTypeOK'
<1>1. S3TypeOK' /\ OutputTypeOK
  BY BucketInvKept DEF S3Inv, OutputInv
<1>2. kind' = kind
  BY DEF OutputNext, Publish, KeepDirectory, ChooseTransport, ClearTransport, Pack, Encrypt,
     DropArchive, PackingFails, HandleError, HandOver, Upload, CleanUp, CleanUpFails, Crash,
     Resume, ResumeRefused, TransportDeleted, Expires, localVars, outputVars
<1>3. ws' \in {"intact", "partial", "absent"} /\ hasCkpt' \in BOOLEAN
  BY <1>1 DEF OutputTypeOK, OutputNext, Publish, KeepDirectory, ChooseTransport,
     ClearTransport, Pack, Encrypt, DropArchive, PackingFails, HandleError, HandOver, Upload,
     CleanUp, CleanUpFails, Crash, Resume, ResumeRefused, TransportDeleted, Expires,
     localVars, outputVars, Removed
<1>4. archive' \in Packs \cup {None} /\ sealed' \in Packs
  <2>1. sealed' = sealed \/ (sealed' = sealed + 1 /\ sealed < MaxPacks)
    <3>1. CASE Resume
      BY <3>1 DEF Resume
    <3>2. CASE ~Resume
      BY <3>2 DEF OutputNext, Publish, KeepDirectory, ChooseTransport, ClearTransport, Pack,
         Encrypt, DropArchive, PackingFails, HandleError, HandOver, Upload, CleanUp,
         CleanUpFails, Crash, ResumeRefused, TransportDeleted, Expires, localVars, outputVars
    <3>. QED
      BY <3>1, <3>2
  <2>2. archive' \in {archive, None, sealed}
    BY DEF OutputNext, Publish, KeepDirectory, ChooseTransport, ClearTransport, Pack, Encrypt,
       DropArchive, PackingFails, HandleError, HandOver, Upload, CleanUp, CleanUpFails, Crash,
       Resume, ResumeRefused, TransportDeleted, Expires, localVars, outputVars
  <2>3. sealed' \in Packs
    BY <1>1, <2>1, S3Assumption DEF OutputTypeOK, Packs
  <2>. QED
    BY <1>1, <2>2, <2>3 DEF OutputTypeOK
<1>5. /\ pc' \in PCs
      /\ outcome' \in {"none", "completed", "failed", "discarded", "refused"}
  BY <1>1 DEF OutputTypeOK, OutputNext, Publish, KeepDirectory, ChooseTransport,
     ClearTransport, Pack, Encrypt, DropArchive, PackingFails, HandleError, HandOver, Upload,
     CleanUp, CleanUpFails, Crash, Resume, ResumeRefused, TransportDeleted, Expires,
     localVars, outputVars, Down, Continue, PCs
<1>6. resumed' = resumed \/ resumed' = TRUE
  BY DEF OutputNext, Publish, KeepDirectory, ChooseTransport, ClearTransport, Pack, Encrypt,
     DropArchive, PackingFails, HandleError, HandOver, Upload, CleanUp, CleanUpFails, Crash,
     Resume, ResumeRefused, TransportDeleted, Expires, localVars, outputVars, Down, Continue
<1>7. resumed' \in BOOLEAN
  BY <1>1, <1>6 DEF OutputTypeOK
<1>. QED
  BY <1>1, <1>2, <1>3, <1>4, <1>5, <1>7 DEF OutputTypeOK

LEMMA NobodyElseKept ==
  ASSUME OutputInv, OutputNext
  PROVE  NobodyElse'
<1>1. NobodyElse /\ at \in [Procs -> Stages] /\ Publisher \in Procs
  BY PublisherExists DEF OutputInv, S3Inv, S3TypeOK
<1>2. CASE pc' = "down" /\ \A p \in Procs : at'[p] = "idle"
  BY <1>1, <1>2 DEF NobodyElse
<1>3. CASE UNCHANGED <<procVars, pc>>
  BY <1>1, <1>3 DEF NobodyElse, procVars
<1>4. CASE ChooseTransport \/ ClearTransport \/ Pack \/ Encrypt \/ DropArchive \/ PackingFails
           \/ HandOver \/ Resume
  <2>1. CASE UNCHANGED at /\ pc \notin {"upload", "cleanup"}
    BY <1>1, <2>1 DEF NobodyElse
  <2>. QED
    BY <1>2, <1>4, <2>1 DEF ChooseTransport, ClearTransport, Pack, Encrypt, DropArchive,
       PackingFails, HandOver, Resume, Continue, Down, procVars, s3Vars
<1>5. CASE Upload
  <2>1. CASE Publishing(Publisher) /\ UNCHANGED outputVars
    <3>1. \A p \in Procs \ {Publisher} : at'[p] = at[p]
      BY <1>1, <2>1 DEF Publishing, Start, ReadMarker, Confirm, HeadObject, ReadState,
         AbortStale, ForgetStale, ListParts, CreateUpload, SaveNewState, UploadPart, SaveParts,
         AllUploaded, Complete, Verify, WriteMarker, CheckMarker, Forget, Fails, Goto
    <3>. QED
      BY <1>1, <1>5, <2>1, <3>1 DEF NobodyElse, Upload, outputVars
  <2>2. CASE at[Publisher] = "returned" /\ Continue("cleanup")
    BY <1>1, <2>2 DEF NobodyElse, Continue, procVars
  <2>. QED
    BY <1>2, <1>5, <2>1, <2>2 DEF Upload, Down
<1>. QED
  BY <1>2, <1>3, <1>4, <1>5 DEF OutputNext, Publish, KeepDirectory, HandleError, CleanUp,
     CleanUpFails, Crash, ResumeRefused, TransportDeleted, Expires, UploadExpires, Down,
     s3Vars, procVars, outputVars

(* The publisher alone with its state file and the bucket.                  *)
LEMMA PublisherStep ==
  ASSUME OutputInv, Publishing(Publisher)
  PROVE  PublisherInv'
<1> DEFINE p == Publisher
<1>1. /\ p \in Procs /\ S3Inv /\ S3TypeOK /\ PublisherInv
      /\ at \in [Procs -> Stages] /\ dig \in [Procs -> Packs \cup {None}]
      /\ up \in [Procs -> UploadIds \cup {None}] /\ uploads \in [UploadIds -> UploadType]
  BY PublisherExists DEF OutputInv, S3Inv, S3TypeOK
<1>2. /\ at[p] \in Working => dig[p] \in Packs /\ dig[p] # None
      /\ at[p] \in UsesUpload => MadeFor(up[p], dig[p])
      /\ state # NoState => state.upload \in UploadIds
      /\ NoState.upload = None /\ None \notin UploadIds
  BY <1>1 DEF S3Inv, DigestTaken, UploadsKnown, StateKnown, MadeFor, Packs, None, UploadIds, NoState
<1> HIDE DEF p
<1> USE DEF Goto, remoteVars, Working, Stages
<1>3. CASE \/ Start(p) \/ ReadMarker(p) \/ Confirm(p) \/ HeadObject(p) \/ AllUploaded(p)
           \/ Verify(p) \/ CheckMarker(p) \/ Fails(p)
  <2>1. UNCHANGED <<state, uploads, object, marker, up>>
        /\ (at[p] \in Working => UNCHANGED dig)
    BY <1>3 DEF Start, ReadMarker, Confirm, HeadObject, AllUploaded, Verify, CheckMarker, Fails
  <2>2. /\ UnmarkedObjectIsResumable'
        /\ object # NoObject /\ state # NoState => uploads[state.upload].status = "gone"
    BY <1>1, <2>1 DEF PublisherInv, UnmarkedObjectIsResumable
  <2>3. \/ at'[p] \in {"marker", "failed", "verify", "check", "mark"}
        \/ at'[p] \in {"confirm", "forget"} /\ marker # None
        \/ at'[p] = "head"
        \/ at'[p] = "prepare" /\ object = NoObject
        \/ at'[p] = "complete" /\ at[p] = "upload"
    BY <1>1, <1>2, <1>3 DEF Start, ReadMarker, Confirm, HeadObject, AllUploaded, Verify,
       CheckMarker, Fails, PublisherInv, p
  <2>. QED
    BY <1>1, <2>1, <2>2, <2>3 DEF PublisherInv, p
<1>4. CASE ReadState(p)
  BY <1>1, <1>4 DEF ReadState, PublisherInv, UnmarkedObjectIsResumable, p
<1>5. CASE AbortStale(p)
  <2>1. at[p] = "abort_stale" /\ state.upload = up[p] /\ object = NoObject /\ up[p] \in UploadIds
    BY <1>1, <1>5 DEF AbortStale, PublisherInv, S3Inv, UploadsKnown, p
  <2>. QED
    BY <1>1, <1>5, <2>1 DEF AbortStale, Discard, PublisherInv, UnmarkedObjectIsResumable, p
<1>6. CASE ForgetStale(p)
  BY <1>1, <1>6 DEF ForgetStale, PublisherInv, UnmarkedObjectIsResumable, p
<1>7. CASE ListParts(p)
  <2>1. /\ at[p] = "list" /\ object = NoObject /\ state.upload = up[p] /\ state.pack = dig[p]
        /\ up[p] \in UploadIds /\ uploads[up[p]].status \in {"open", "gone"}
        /\ UNCHANGED <<object, uploads, marker, up, dig>>
    BY <1>1, <1>2, <1>7 DEF ListParts, PublisherInv, UsesUpload, MadeFor, UploadType, p
  <2>2. /\ at'[p] \in {"forget_stale", "upload"}
        /\ state'.upload = up[p] /\ state'.pack = dig[p]
        /\ at'[p] = "forget_stale" => uploads[up[p]].status # "open"
    BY <1>1, <1>7, <2>1 DEF ListParts
  <2>. QED
    BY <2>1, <2>2 DEF PublisherInv, UnmarkedObjectIsResumable, p
<1>8. CASE CreateUpload(p)
  <2>1. /\ at[p] = "create" /\ object = NoObject /\ state = NoState
        /\ UNCHANGED <<state, object>> /\ at'[p] \in {"created", "failed"}
    BY <1>1, <1>8 DEF CreateUpload, PublisherInv, p
  <2>. QED
    BY <2>1 DEF PublisherInv, UnmarkedObjectIsResumable, p
<1>9. CASE SaveNewState(p)
  BY <1>1, <1>9 DEF SaveNewState, PublisherInv, UnmarkedObjectIsResumable, p
<1>10. ASSUME NEW n \in Parts, UploadPart(p, n) PROVE PublisherInv'
  <2>1. /\ at[p] = "upload" /\ object = NoObject /\ UNCHANGED <<state, object, dig, up>>
        /\ at'[p] \in {"upload", "failed"}
    BY <1>1, <1>10 DEF UploadPart, PublisherInv, p
  <2>. QED
    BY <1>1, <2>1 DEF PublisherInv, UnmarkedObjectIsResumable, p
<1>11. CASE SaveParts(p)
  BY <1>1, <1>11 DEF SaveParts, PublisherInv, UnmarkedObjectIsResumable, p
<1>12. CASE Complete(p)
  <2>1. /\ at[p] = "complete" /\ object = NoObject /\ state.upload = up[p]
        /\ state.pack = dig[p] /\ up[p] \in UploadIds /\ uploads[up[p]].meta = dig[p]
        /\ UNCHANGED <<state, marker>> /\ at'[p] \in {"verify", "failed"}
    BY <1>1, <1>2, <1>12 DEF Complete, PublisherInv, UsesUpload, MadeFor, p
  <2>2. \/ object' = object
        \/ object'.meta = dig[p] /\ uploads'[up[p]].status = "gone"
    <3>1. CASE object' = object
      BY <3>1
    <3>2. CASE object' = ObjectOf(up[p]) /\ uploads' = Discard(up[p])
      BY <1>1, <2>1, <3>2 DEF ObjectOf, Discard, UploadType
    <3>. QED
      BY <1>12, <3>1, <3>2 DEF Complete
  <2>. QED
    BY <2>1, <2>2 DEF PublisherInv, UnmarkedObjectIsResumable, p
<1>13. CASE WriteMarker(p)
  BY <1>1, <1>2, <1>13 DEF WriteMarker, PublisherInv, UnmarkedObjectIsResumable, p
<1>14. CASE Forget(p)
  BY <1>1, <1>14 DEF Forget, PublisherInv, UnmarkedObjectIsResumable, p
<1>. QED
  BY <1>3, <1>4, <1>5, <1>6, <1>7, <1>8, <1>9, <1>10, <1>11, <1>12, <1>13, <1>14
  DEF Publishing, p

LEMMA PublisherInvKept ==
  ASSUME OutputInv, OutputNext
  PROVE  PublisherInv'
<1>1. CASE Publishing(Publisher)
  BY <1>1, PublisherStep
<1>2. CASE UploadExpires
  <2>1. /\ UNCHANGED <<state, object, marker, at, dig, up>>
        /\ \A u \in UploadIds : uploads[u].status = "gone" => uploads'[u].status = "gone"
    <3>1. PICK u \in UploadIds : uploads' = Discard(u)
      BY <1>2 DEF UploadExpires
    <3>2. uploads \in [UploadIds -> UploadType]
      BY DEF OutputInv, S3Inv, S3TypeOK
    <3>. QED
      BY <1>2, <3>1, <3>2 DEF UploadExpires, procVars, Discard, UploadType
  <2>2. PublisherInv /\ (state # NoState => state.upload \in UploadIds)
    BY DEF OutputInv, S3Inv, StateKnown, MadeFor
  <2>. QED
    BY <2>1, <2>2 DEF PublisherInv, UnmarkedObjectIsResumable
<1>3. CASE Around
  <2>1. UNCHANGED <<uploads, object, marker>> /\ PublisherInv
    BY <1>3 DEF Around, remoteVars, OutputInv
  <2>2. CASE UNCHANGED <<state, procVars>>
    BY <2>1, <2>2 DEF PublisherInv, UnmarkedObjectIsResumable, procVars
  <2>3. CASE at'[Publisher] = "idle" /\ (state' = state \/ (marker # None /\ state' = NoState))
    BY <2>1, <2>3 DEF PublisherInv, UnmarkedObjectIsResumable
  <2>4. CASE CleanUp \/ CleanUpFails
    <3>1. at'[Publisher] = "idle" /\ pc = "cleanup" /\ (state' = state \/ (Remote /\ state' = NoState))
      BY <2>4, PublisherExists DEF CleanUp, CleanUpFails, Down
    <3>. QED
      BY <2>3, <3>1 DEF OutputInv, StageInv
  <2>5. CASE state' = state
    BY <1>3, <2>2, <2>3, <2>5, PublisherExists DEF Around, Down
  <2>6. state' = state \/ CleanUp \/ CleanUpFails \/ Upload
    BY DEF OutputNext, Publish, KeepDirectory, ChooseTransport, ClearTransport, Pack, Encrypt,
       DropArchive, PackingFails, HandleError, HandOver, Crash, Resume, ResumeRefused,
       TransportDeleted, Expires, UploadExpires, s3Vars
  <2>7. CASE Upload
    BY <1>1, <2>5, <2>7 DEF Upload
  <2>. QED
    BY <2>4, <2>5, <2>6, <2>7
<1>. QED
  BY <1>1, <1>2, <1>3, StepsOfARun

LEMMA StageInvKept ==
  ASSUME OutputInv, OutputNext
  PROVE  StageInv'
<1>1. /\ StageInv /\ PublisherInv /\ NobodyElse /\ KindInv
      /\ sealed \in Packs /\ sealed # None /\ Publisher \in Procs
  BY PublisherExists DEF OutputInv, OutputTypeOK, Packs, None
<1> USE DEF StageInv, Resumable, Remote, Encrypted
<1>2. CASE pc' = "down"
  BY <1>2
<1>3. CASE ChooseTransport \/ ClearTransport
  BY <1>1, <1>3 DEF ChooseTransport, ClearTransport, Continue, localVars, ArchiveRequired,
     Reuses, KindInv
<1>4. CASE Pack
  BY <1>1, <1>4 DEF Pack, Continue, KindInv
<1>5. CASE Encrypt \/ DropArchive \/ PackingFails
  BY <1>1, <1>5 DEF Encrypt, DropArchive, PackingFails, Continue, localVars
<1>6. CASE HandOver
  BY <1>1, <1>2, <1>6 DEF HandOver, Continue, Down
<1>7. CASE Upload
  <2>1. CASE Publishing(Publisher) /\ UNCHANGED outputVars
    BY <1>1, <1>7, <2>1 DEF Upload, outputVars
  <2>2. CASE at[Publisher] = "returned" /\ Continue("cleanup") /\ UNCHANGED <<remoteVars, localVars>>
    BY <1>1, <1>7, <2>2 DEF Upload, Continue, localVars, remoteVars, PublisherInv
  <2>. QED
    BY <1>2, <1>7, <2>1, <2>2 DEF Upload, Down
<1>8. CASE Resume
  BY <1>8 DEF Resume
<1>9. CASE Expires
  BY <1>1, <1>9 DEF Expires, UploadExpires, outputVars
<1>10. pc' = "down" \/ ~(KeepDirectory \/ HandleError \/ CleanUp \/ CleanUpFails \/ Crash
                         \/ ResumeRefused \/ TransportDeleted)
  BY DEF KeepDirectory, HandleError, CleanUp, CleanUpFails, Crash, ResumeRefused,
     TransportDeleted, Down, outputVars
<1>. QED
  BY <1>2, <1>3, <1>4, <1>5, <1>6, <1>7, <1>8, <1>9, <1>10 DEF OutputNext, Publish

LEMMA KindInvKept ==
  ASSUME OutputInv, OutputNext
  PROVE  KindInv'
<1>1. KindInv /\ StageInv /\ kind' = kind
  BY DEF OutputInv, OutputNext, Publish, KeepDirectory, ChooseTransport, ClearTransport, Pack,
     Encrypt, DropArchive, PackingFails, HandleError, HandOver, Upload, CleanUp, CleanUpFails,
     Crash, Resume, ResumeRefused, TransportDeleted, Expires, localVars, outputVars
<1>2. ~Encrypted => archive' = None
  BY <1>1 DEF KindInv, StageInv, OutputNext, Publish, KeepDirectory, ChooseTransport,
     ClearTransport, Pack, Encrypt, DropArchive, PackingFails, HandleError, HandOver, Upload,
     CleanUp, CleanUpFails, Crash, Resume, ResumeRefused, TransportDeleted, Expires,
     localVars, outputVars
<1>3. ~Remote => state' = NoState
  <2>1. state' \in {state, NoState} \/ pc = "upload"
    BY StepsOfARun DEF Around, UploadExpires
  <2>. QED
    BY <1>1, <2>1 DEF KindInv, StageInv
<1>. QED
  BY <1>1, <1>2, <1>3 DEF KindInv, Encrypted, Remote

LEMMA BegunInvKept ==
  ASSUME OutputInv, OutputNext
  PROVE  BegunInv'
<1>1. BegunInv /\ KindInv /\ StageInv
  BY DEF OutputInv
<1> USE DEF BegunInv, Remote, Encrypted
<1>2. CASE pc' \in {"output", "upload", "cleanup", "down"}
  BY <1>2
<1>3. CASE ChooseTransport
  BY <1>1, <1>3 DEF ChooseTransport, Continue, localVars, Reuses, KindInv
<1>4. CASE ClearTransport
  BY <1>1, <1>4 DEF ClearTransport, Continue
<1>5. CASE Pack \/ Encrypt \/ DropArchive \/ PackingFails
  BY <1>1, <1>5 DEF Pack, Encrypt, DropArchive, PackingFails, Continue, localVars, StageInv
<1>6. CASE Resume
  BY <1>6 DEF Resume, s3Vars
<1>7. CASE Expires
  BY <1>1, <1>7 DEF Expires, UploadExpires, outputVars
<1>8. pc' \in {"output", "upload", "cleanup", "down"}
      \/ ~(KeepDirectory \/ HandleError \/ HandOver \/ Upload \/ CleanUp \/ CleanUpFails \/ Crash
           \/ ResumeRefused \/ TransportDeleted)
  BY DEF KeepDirectory, HandleError, HandOver, Upload, CleanUp, CleanUpFails, Crash,
     ResumeRefused, TransportDeleted, Down, Continue, outputVars
<1>. QED
  BY <1>2, <1>3, <1>4, <1>5, <1>6, <1>7, <1>8 DEF OutputNext, Publish

LEMMA PublishingLeavesTransport ==
  ASSUME NEW p \in Procs, Publishing(p)
  PROVE  transport' = transport
BY DEF Publishing, Start, ReadMarker, Confirm, HeadObject, ReadState, AbortStale, ForgetStale,
   ListParts, CreateUpload, SaveNewState, UploadPart, SaveParts, AllUploaded, Complete, Verify,
   WriteMarker, CheckMarker, Forget, Fails

(* The object and the marker stay as they are, whoever publishes.           *)
LEMMA PublishingWritesOnce ==
  ASSUME NEW p \in Procs, Publishing(p)
  PROVE  (object # NoObject => object' = object) /\ (marker # None => marker' = marker)
<1>1. CASE Complete(p)
  BY <1>1 DEF Complete
<1>2. CASE WriteMarker(p)
  BY <1>2 DEF WriteMarker
<1>3. CASE ~Complete(p) /\ ~WriteMarker(p)
  BY <1>3 DEF Publishing, Start, ReadMarker, Confirm, HeadObject, ReadState, AbortStale,
     ForgetStale, ListParts, CreateUpload, SaveNewState, UploadPart, SaveParts,
     AllUploaded, Verify, CheckMarker, Forget, Fails, remoteVars
<1>. QED
  BY <1>1, <1>2, <1>3

LEMMA RemoteOutputStays ==
  ASSUME OutputInv, OutputNext, marker # None
  PROVE  object' = object /\ marker' = marker
<1>1. object # NoObject
  BY DEF OutputInv, S3Inv, S3TypeOK, MarkedIsVerified, Matches, NoObject, None, Packs
<1>2. CASE Around
  BY <1>2 DEF Around, remoteVars
<1>3. CASE UploadExpires
  BY <1>3 DEF UploadExpires
<1>. QED
  BY <1>1, <1>2, <1>3, StepsOfARun, PublishingWritesOnce, PublisherExists

(* While the data is needed it is there, and what is there stays.           *)
LEMMA NothingLostKept ==
  ASSUME OutputInv, OutputNext
  PROVE  NothingLostHalfWay'
<1>1. /\ StageInv /\ KindInv /\ PublisherInv /\ NothingLostHalfWay /\ kind \in Kinds
      /\ sealed \in Packs /\ sealed # None /\ None \notin Packs
  BY DEF OutputInv, OutputTypeOK, Packs, None
<1>0. kind' = kind
  BY DEF OutputNext, Publish, KeepDirectory, ChooseTransport, ClearTransport, Pack, Encrypt,
     DropArchive, PackingFails, HandleError, HandOver, Upload, CleanUp, CleanUpFails, Crash,
     Resume, ResumeRefused, TransportDeleted, Expires, localVars, outputVars
<1>2. CASE Resumable'
  BY <1>2 DEF NothingLostHalfWay
<1>3. CASE Remote /\ marker # None
  <2>1. Materializes /\ object' = object /\ marker' = marker
    BY <1>3, CommittedIsReadable, RemoteOutputStays
  <2>. QED
    BY <1>0, <1>1, <1>3, <2>1 DEF NothingLostHalfWay, HasOutput, Output, Remote, Materializes
<1>4. CASE ~Remote /\ ArchiveRequired /\ transport # None /\ transport' = transport
  BY <1>0, <1>1, <1>4 DEF NothingLostHalfWay, HasOutput, Output, Remote, ArchiveRequired
<1>5. CASE ~ArchiveRequired /\ ws' = "intact" /\ sealed' # None
  BY <1>0, <1>1, <1>5 DEF NothingLostHalfWay, HasOutput, Output, Remote, ArchiveRequired
<1>6. CASE GaveUp'
  BY <1>6 DEF NothingLostHalfWay
<1>7. CASE pc # "down"
  <2>1. Resumable
    BY <1>0, <1>1, <1>7 DEF StageInv
  <2>2. CASE KeepDirectory
    BY <1>0, <1>1, <1>5, <2>1, <2>2 DEF KeepDirectory, Resumable
  <2>3. CASE HandleError
    <3>1. CASE kind = "age"
      BY <1>0, <1>1, <1>6, <2>3, <3>1 DEF HandleError, Down, GaveUp
    <3>2. CASE kind # "age"
      BY <1>0, <1>1, <1>2, <2>1, <2>3, <3>2 DEF HandleError, Resumable, Remote, Encrypted
    <3>. QED
      BY <3>1, <3>2
  <2>4. CASE HandOver
    <3>1. CASE Remote \/ Encrypted
      BY <1>2, <2>1, <2>4, <3>1 DEF HandOver, Continue, Resumable
    <3>2. CASE ~(Remote \/ Encrypted)
      BY <1>0, <1>1, <1>4, <1>5, <2>1, <2>4, <3>2 DEF HandOver, StageInv, Resumable
    <3>. QED
      BY <3>1, <3>2
  <2>5. CASE CleanUp \/ CleanUpFails
    <3>1. CASE Remote
      BY <1>0, <1>1, <1>3, <2>5, <3>1 DEF CleanUp, CleanUpFails, StageInv
    <3>2. CASE ~Remote
      BY <1>0, <1>1, <1>4, <2>5, <3>2 DEF CleanUp, CleanUpFails, StageInv, Encrypted, ArchiveRequired
    <3>. QED
      BY <3>1, <3>2
  <2>6. UNCHANGED <<ws, hasCkpt>>
        \/ KeepDirectory \/ HandleError \/ HandOver \/ CleanUp \/ CleanUpFails
    BY <1>7 DEF OutputNext, Publish, ChooseTransport, ClearTransport, Pack, Encrypt,
       DropArchive, PackingFails, Upload, Crash, Resume, ResumeRefused, TransportDeleted,
       Expires, localVars, outputVars
  <2>. QED
    BY <1>2, <2>1, <2>2, <2>3, <2>4, <2>5, <2>6 DEF Resumable
<1>8. CASE pc = "down"
  <2>1. /\ UNCHANGED <<ws, hasCkpt>> /\ Around
        /\ outcome' = outcome \/ outcome' = "refused"
        /\ sealed' # None
        /\ ~Remote => transport' = transport
    <3>1. Resume \/ ResumeRefused \/ TransportDeleted
      BY <1>8 DEF OutputNext, Publish, KeepDirectory, ChooseTransport, ClearTransport, Pack,
         Encrypt, DropArchive, PackingFails, HandleError, HandOver, Upload, CleanUp,
         CleanUpFails, Crash, Expires
    <3>2. sealed' # None
      BY OutputKeepsTypes DEF OutputTypeOK, Packs, None
    <3>3. /\ UNCHANGED <<ws, hasCkpt>>
          /\ outcome' = outcome \/ outcome' = "refused"
          /\ ~Remote => transport' = transport
      BY <3>1 DEF Resume, ResumeRefused, TransportDeleted, s3Vars, localVars, outputVars
    <3>4. Around
      BY <3>1 DEF Around, Resume, ResumeRefused, TransportDeleted, s3Vars, remoteVars, procVars
    <3>. QED
      BY <3>2, <3>3, <3>4
  <2>2. CASE Resumable
    BY <1>2, <2>1, <2>2 DEF Resumable
  <2>3. CASE GaveUp
    BY <1>0, <1>1, <1>6, <2>1, <2>3 DEF GaveUp
  <2>4. CASE HasOutput
    <3>1. CASE Remote
      BY <1>3, <2>4, <3>1 DEF HasOutput, Output, Materializes
    <3>2. CASE ~Remote /\ ArchiveRequired
      BY <1>4, <2>1, <2>4, <3>2 DEF HasOutput, Output
    <3>3. CASE ~Remote /\ ~ArchiveRequired
      BY <1>5, <2>1, <2>4, <3>3 DEF HasOutput, Output
    <3>. QED
      BY <3>1, <3>2, <3>3
  <2>. QED
    BY <1>0, <1>1, <2>2, <2>3, <2>4 DEF NothingLostHalfWay
<1>. QED
  BY <1>7, <1>8

LEMMA SuccessKept ==
  ASSUME OutputInv, OutputNext
  PROVE  (outcome' = "completed" => pc' = "down") /\ SuccessIsComplete'
<1> SUFFICES ASSUME outcome' = "completed"
             PROVE  pc' = "down" /\ SuccessIsComplete'
  BY DEF SuccessIsComplete
<1>1. /\ StageInv /\ KindInv /\ SuccessIsComplete /\ (outcome = "completed" => pc = "down")
      /\ sealed \in Packs /\ sealed # None /\ None \notin Packs
  BY DEF OutputInv, OutputTypeOK, Packs, None
<1>2. kind' = kind
  BY DEF OutputNext, Publish, KeepDirectory, ChooseTransport, ClearTransport, Pack, Encrypt,
     DropArchive, PackingFails, HandleError, HandOver, Upload, CleanUp, CleanUpFails, Crash,
     Resume, ResumeRefused, TransportDeleted, Expires, localVars, outputVars
<1> USE DEF Remote, Encrypted, ArchiveRequired
<1>3. CASE KeepDirectory
  BY <1>1, <1>2, <1>3 DEF KeepDirectory, Down, SuccessIsComplete, HasOutput, Output, StageInv,
     KindInv, Resumable
<1>4. CASE HandOver
  BY <1>1, <1>2, <1>4 DEF HandOver, Down, Continue, SuccessIsComplete, HasOutput, Output,
     StageInv, KindInv, Resumable
<1>5. CASE CleanUp
  <2>1. /\ pc' = "down" /\ ws' = "absent" /\ hasCkpt' = FALSE /\ UNCHANGED remoteVars
        /\ Remote => archive' = None /\ transport' = None /\ state' = NoState
        /\ ~Remote => UNCHANGED <<archive, transport, state>>
        /\ pc = "cleanup"
    BY <1>5 DEF CleanUp, Down, Removed
  <2>2. CASE Remote
    <3>1. Materializes /\ marker # None
      BY <1>1, <2>1, <2>2, CommittedIsReadable DEF StageInv
    <3>2. HasOutput'
      BY <1>2, <2>1, <2>2, <3>1 DEF HasOutput, Output, Materializes, remoteVars
    <3>. QED
      BY <1>2, <2>1, <2>2, <3>2 DEF SuccessIsComplete
  <2>3. CASE ~Remote
    <3>1. HasOutput'
      BY <1>1, <1>2, <2>1, <2>3 DEF HasOutput, Output, StageInv
    <3>2. archive' = None /\ state' = NoState
      BY <1>1, <2>1, <2>3 DEF StageInv, KindInv
    <3>. QED
      BY <1>2, <2>1, <2>3, <3>1, <3>2 DEF SuccessIsComplete
  <2>. QED
    BY <2>2, <2>3
<1>6. CASE outcome = "completed" /\ UNCHANGED outcome
  <2>1. pc = "down" /\ ~hasCkpt /\ (Remote => transport = None) /\ HasOutput
    BY <1>1, <1>6 DEF SuccessIsComplete
  <2>2. FALSE
    BY <2>1, <1>6 DEF OutputNext, Publish, KeepDirectory, ChooseTransport, ClearTransport, Pack,
       Encrypt, DropArchive, PackingFails, HandleError, HandOver, Upload, CleanUp,
       CleanUpFails, Crash, Resume, ResumeRefused, TransportDeleted, Expires
  <2>. QED
    BY <2>2
<1>7. \/ KeepDirectory \/ HandOver \/ CleanUp
      \/ UNCHANGED outcome
  BY DEF OutputNext, Publish, ChooseTransport, ClearTransport, Pack, Encrypt, DropArchive,
     PackingFails, HandleError, Upload, CleanUpFails, Crash, Resume, ResumeRefused,
     TransportDeleted, Expires, outputVars, Down, Continue
<1>. QED
  BY <1>3, <1>4, <1>5, <1>6, <1>7

LEMMA OutputInvKept == OutputInv /\ [OutputNext]_allVars => OutputInv'
<1> SUFFICES ASSUME OutputInv, [OutputNext]_allVars PROVE OutputInv'
  OBVIOUS
<1>1. CASE OutputNext
  BY <1>1, OutputKeepsTypes, BucketInvKept, PublisherInvKept, NobodyElseKept, StageInvKept,
     KindInvKept, BegunInvKept, NothingLostKept, SuccessKept DEF OutputInv
<1>2. CASE UNCHANGED allVars
  <2>1. S3Inv' /\ OutputTypeOK'
    BY <1>2, S3StepKeepsInv DEF allVars, outputVars, OutputInv, OutputTypeOK, S3Inv
  <2>2. PublisherInv' /\ NobodyElse'
    BY <1>2 DEF allVars, s3Vars, outputVars, OutputInv, PublisherInv, NobodyElse,
       UnmarkedObjectIsResumable
  <2>3. StageInv' /\ KindInv' /\ BegunInv'
    BY <1>2 DEF allVars, s3Vars, outputVars, OutputInv, StageInv, KindInv, BegunInv, Resumable,
       Remote, Encrypted
  <2>4. NothingLostHalfWay' /\ SuccessIsComplete' /\ (outcome' = "completed" => pc' = "down")
    BY <1>2 DEF allVars, s3Vars, outputVars, OutputInv, NothingLostHalfWay, SuccessIsComplete,
       Resumable, HasOutput, Output, GaveUp, Remote, Encrypted, ArchiveRequired, Materializes
  <2>. QED
    BY <2>1, <2>2, <2>3, <2>4 DEF OutputInv
<1>. QED
  BY <1>1, <1>2

LEMMA OutputInvariant == OutputSpec => []OutputInv
BY InitOutputInv, OutputInvKept, PTL DEF OutputSpec

(* The types of local files, bucket and process stay what they are.         *)
THEOREM OutputTypeCorrect == OutputSpec => []OutputTypeOK
<1>1. OutputInv => OutputTypeOK
  BY DEF OutputInv
<1>. QED
  BY <1>1, OutputInvariant, PTL

(* For every kind of output, and with failures and crashes anywhere, the    *)
(* captured data is resumable or handed over (publishBackupOutput).         *)
THEOREM NothingGetsLost == OutputSpec => []NothingLostHalfWay
<1>1. OutputInv => NothingLostHalfWay
  BY DEF OutputInv
<1>. QED
  BY <1>1, OutputInvariant, PTL

(* Success means a readable output and nothing left of the run beside it    *)
(* (publishBackupOutput, cleanupStrict).                                    *)
THEOREM SuccessMeansComplete == OutputSpec => []SuccessIsComplete
<1>1. OutputInv => SuccessIsComplete
  BY DEF OutputInv
<1>. QED
  BY <1>1, OutputInvariant, PTL

(* The state file outlives the marker, so that an object without a marker   *)
(* can be finished (publishS3Backup).                                       *)
THEOREM ObjectStaysResumable == OutputSpec => []UnmarkedObjectIsResumable
<1>1. OutputInv => UnmarkedObjectIsResumable
  BY DEF OutputInv, PublisherInv
<1>. QED
  BY <1>1, OutputInvariant, PTL

(* An output that is not a mere directory is never replaced: archives are   *)
(* linked into place, and object and marker are written once                *)
(* (packBundle, publishS3Backup).                                           *)
THEOREM OutputStays == OutputSpec => FinishedOutputSurvives
<1>1. ASSUME OutputInv, [OutputNext]_allVars, Output # None, kind \notin {"directory", "age"}
      PROVE  Output' = Output
  <2>1. CASE OutputNext
    <3>1. kind' = kind
      BY <2>1 DEF OutputNext, Publish, KeepDirectory, ChooseTransport, ClearTransport, Pack,
         Encrypt, DropArchive, PackingFails, HandleError, HandOver, Upload, CleanUp,
         CleanUpFails, Crash, Resume, ResumeRefused, TransportDeleted, Expires, localVars,
         outputVars
    <3>2. CASE Remote
      <4>1. marker # None
        BY <1>1, <3>2 DEF Output
      <4>2. object' = object /\ marker' = marker
        BY <1>1, <2>1, <4>1, RemoteOutputStays
      <4>. QED
        BY <3>1, <3>2, <4>2 DEF Output, Remote, Materializes
    <3>3. CASE ~Remote
      <4>1. kind = "archive" /\ transport # None
        BY <1>1, <3>3, OutputAssumption DEF Output, Remote, ArchiveRequired, OutputInv, OutputTypeOK
      <4>2. transport' = transport
        BY <1>1, <2>1, <4>1 DEF OutputNext, Publish, KeepDirectory, ChooseTransport,
           ClearTransport, Pack, Encrypt, DropArchive, PackingFails, HandleError, HandOver,
           Upload, CleanUp, CleanUpFails, Crash, Resume, ResumeRefused, TransportDeleted,
           Expires, UploadExpires, s3Vars, outputVars, localVars, OutputInv, StageInv,
           Remote, Encrypted
      <4>. QED
        BY <3>1, <4>1, <4>2 DEF Output, Remote, ArchiveRequired
    <3>. QED
      BY <3>2, <3>3
  <2>2. CASE UNCHANGED allVars
    BY <2>2 DEF allVars, s3Vars, remoteVars, outputVars, Output, Remote, ArchiveRequired, Materializes
  <2>. QED
    BY <1>1, <2>1, <2>2
<1>2. OutputInv /\ [OutputNext]_allVars
      => [Output # None /\ kind \notin {"directory", "age"} => Output' = Output]_allVars
  BY <1>1
<1>. QED
  BY <1>2, OutputInvariant, PTL DEF OutputSpec, FinishedOutputSurvives

(* A resumed run keeps the transport its upload had begun with              *)
(* (publishBackupOutput).                                                   *)
THEOREM BegunKeepsTransport == OutputSpec => BegunUploadKeepsTransport
<1>1. ASSUME OutputInv, OutputNext, state # NoState, transport # None, transport' # transport
      PROVE  pc \in {"cleanup", "down"}
  <2>1. BegunInv /\ KindInv /\ StageInv
    BY <1>1 DEF OutputInv
  <2>2. CASE ClearTransport \/ Pack \/ Encrypt \/ HandleError
    BY <1>1, <2>1, <2>2 DEF BegunInv, KindInv, StageInv, ClearTransport, Pack, Encrypt,
       HandleError, Remote, Encrypted
  <2>3. CASE Upload
    BY <1>1, <2>3, PublisherExists, PublishingLeavesTransport DEF Upload
  <2>4. \/ ClearTransport \/ Pack \/ Encrypt \/ HandleError \/ Upload
        \/ pc \in {"cleanup", "down"}
    BY <1>1 DEF OutputNext, Publish, KeepDirectory, ChooseTransport, DropArchive, PackingFails,
       HandOver, CleanUp, CleanUpFails, Crash, Resume, ResumeRefused, TransportDeleted, Expires,
       UploadExpires, s3Vars
  <2>. QED
    BY <2>2, <2>3, <2>4
<1>2. OutputInv /\ [OutputNext]_allVars
      => [state # NoState /\ transport # None /\ transport' # transport
            => pc \in {"cleanup", "down"}]_allVars
  BY <1>1
<1>. QED
  BY <1>2, OutputInvariant, PTL DEF OutputSpec, BegunUploadKeepsTransport

-----------------------------------------------------------------------------
\* Which uploads can get lost.

\* Outside of the stages of an upload the publisher has none, or one that is over.
Between == {"idle", "marker", "confirm", "head", "prepare", "forget_stale", "create",
            "verify", "mark", "check", "forget"}
Spent ==
  at[Publisher] \in Between =>
    up[Publisher] = None \/ uploads[up[Publisher]].status = "gone"

\* An upload that is over stays so.
LEMMA GoneStaysGone ==
  ASSUME OutputInv, OutputNext, NEW u \in UploadIds, uploads[u].status = "gone"
  PROVE  uploads'[u].status = "gone"
<1>1. uploads \in [UploadIds -> UploadType] /\ Publisher \in Procs
  BY PublisherExists DEF OutputInv, S3Inv, S3TypeOK
<1>2. CASE UNCHANGED uploads
  BY <1>2
<1>3. CASE \E v \in UploadIds : uploads' = Discard(v)
  BY <1>1, <1>3 DEF Discard, UploadType
<1>4. CASE CreateUpload(Publisher)
  BY <1>1, <1>4 DEF CreateUpload, NewUpload
<1>5. ASSUME NEW n \in Parts, UploadPart(Publisher, n) PROVE uploads'[u].status = "gone"
  BY <1>1, <1>5 DEF UploadPart, UploadType
<1>6. up[Publisher] \in UploadIds \/ ~(AbortStale(Publisher) \/ Complete(Publisher))
  BY <1>1 DEF OutputInv, S3Inv, UploadsKnown, MadeFor, UsesUpload, AbortStale, Complete
<1>7. CASE Around
  BY <1>2, <1>7 DEF Around, remoteVars
<1>8. CASE UploadExpires
  BY <1>3, <1>8 DEF UploadExpires
<1>9. CASE Publishing(Publisher)
  BY <1>2, <1>3, <1>4, <1>5, <1>6, <1>9 DEF Publishing, Start, ReadMarker, Confirm, HeadObject,
     ReadState, AbortStale, ForgetStale, ListParts, SaveNewState, SaveParts, AllUploaded,
     Complete, Verify, WriteMarker, CheckMarker, Forget, Fails, remoteVars
<1>. QED
  BY <1>7, <1>8, <1>9, StepsOfARun

LEMMA SpentKept ==
  ASSUME OutputInv, Spent, OutputNext
  PROVE  Spent'
<1> DEFINE p == Publisher
<1>1. /\ p \in Procs /\ PublisherInv /\ uploads \in [UploadIds -> UploadType]
      /\ at \in [Procs -> Stages] /\ up \in [Procs -> UploadIds \cup {None}]
      /\ at[p] \in {"list", "upload", "complete", "abort_stale"} =>
           /\ up[p] \in UploadIds /\ uploads[up[p]].status \in {"open", "gone"}
           /\ state.upload = up[p]
  BY PublisherExists DEF OutputInv, PublisherInv, S3Inv, S3TypeOK, UploadsKnown, UsesUpload,
     MadeFor, UploadType
<1>2. ASSUME up'[p] = up[p], up[p] = None \/ uploads[up[p]].status = "gone"
      PROVE  Spent'
  BY <1>1, <1>2, GoneStaysGone DEF Spent
<1>3. CASE at'[p] \notin Between \/ up'[p] = None
  BY <1>3 DEF Spent
<1>4. CASE UNCHANGED <<at, up>>
  BY <1>1, <1>2, <1>4 DEF Spent
<1>5. CASE Around
  BY <1>1, <1>3, <1>4, <1>5 DEF Around, Down, procVars
<1>6. CASE UploadExpires
  BY <1>4, <1>6 DEF UploadExpires, procVars
<1>7. CASE Publishing(p)
  <2> HIDE DEF p
  <2>1. CASE \/ Start(p) \/ ReadMarker(p) \/ Confirm(p) \/ HeadObject(p) \/ Verify(p)
             \/ WriteMarker(p) \/ CheckMarker(p) \/ Forget(p) \/ Fails(p) \/ ForgetStale(p)
    <3>1. up' = up /\ (at[p] \in Between \/ at'[p] \notin Between)
      BY <1>1, <2>1 DEF Start, ReadMarker, Confirm, HeadObject, Verify, WriteMarker, CheckMarker,
         Forget, Fails, ForgetStale, Goto, Between
    <3>. QED
      BY <1>2, <1>3, <3>1 DEF Spent, p
  <2>2. CASE ReadState(p)
    <3>1. CASE state = NoState
      BY <1>1, <1>3, <2>2, <3>1 DEF ReadState, NoState
    <3>2. CASE state # NoState
      BY <1>1, <1>3, <2>2, <3>2 DEF ReadState, Goto, Between
    <3>. QED
      BY <3>1, <3>2
  <2>3. CASE AbortStale(p)
    <3>1. up[p] \in UploadIds /\ uploads' = Discard(up[p]) /\ up' = up
      BY <1>1, <2>3 DEF AbortStale
    <3>2. uploads'[up[p]].status = "gone"
      BY <1>1, <3>1 DEF Discard, UploadType
    <3>. QED
      BY <3>1, <3>2 DEF Spent, p
  <2>4. CASE ListParts(p)
    <3>1. UNCHANGED <<up, uploads>> /\ at[p] = "list"
      BY <2>4 DEF ListParts, remoteVars
    <3>2. at'[p] \notin Between \/ uploads[up[p]].status # "open"
      BY <1>1, <2>4 DEF ListParts, Goto, Between
    <3>. QED
      BY <1>1, <1>2, <1>3, <3>1, <3>2
  <2>5. CASE CreateUpload(p) \/ SaveNewState(p) \/ SaveParts(p) \/ AllUploaded(p)
             \/ \E n \in Parts : UploadPart(p, n)
    <3>1. at'[p] \notin Between
      BY <1>1, <2>5 DEF CreateUpload, SaveNewState, SaveParts, AllUploaded, UploadPart, Goto,
         Between
    <3>. QED
      BY <1>3, <3>1
  <2>6. CASE Complete(p)
    <3>1. CASE uploads' = Discard(up[p])
      <4>1. uploads'[up[p]].status = "gone" /\ up' = up
        BY <1>1, <2>6, <3>1 DEF Complete, Discard, UploadType
      <4>. QED
        BY <4>1 DEF Spent, p
    <3>2. CASE uploads' # Discard(up[p])
      BY <1>1, <1>3, <2>6, <3>2 DEF Complete, Goto, Between
    <3>. QED
      BY <3>1, <3>2
  <2>. QED
    BY <1>7, <2>1, <2>2, <2>3, <2>4, <2>5, <2>6 DEF Publishing
<1>. QED
  BY <1>5, <1>6, <1>7, StepsOfARun DEF p

(* The state file forgets no upload the bucket still charges for.           *)
LEMMA StateForgetsNoOpenUpload ==
  ASSUME OutputInv, OutputNext, state # NoState, uploads[state.upload].status = "open"
  PROVE  state'.upload = state.upload
<1> DEFINE p == Publisher
<1>1. p \in Procs /\ PublisherInv /\ object = NoObject
  BY PublisherExists DEF OutputInv, PublisherInv
<1>2. marker = None
  BY <1>1 DEF OutputInv, S3Inv, S3TypeOK, MarkedIsVerified, Matches, NoObject, None, Packs
<1>3. CASE Publishing(p)
  <2>1. CASE ForgetStale(p) \/ SaveNewState(p) \/ Forget(p)
    BY <1>1, <1>2, <2>1 DEF ForgetStale, SaveNewState, Forget, PublisherInv
  <2>2. CASE ListParts(p) \/ SaveParts(p)
    <3>1. state' = state \/ state'.upload = up[p]
      BY <2>2 DEF ListParts, SaveParts
    <3>2. state.upload = up[p]
      BY <1>1, <2>2 DEF ListParts, SaveParts, PublisherInv
    <3>. QED
      BY <3>1, <3>2
  <2>3. state' = state \/ ForgetStale(p) \/ SaveNewState(p) \/ Forget(p) \/ ListParts(p)
        \/ SaveParts(p)
    BY <1>3 DEF Publishing, Start, ReadMarker, Confirm, HeadObject, ReadState, AbortStale,
       CreateUpload, UploadPart, AllUploaded, Complete, Verify, WriteMarker, CheckMarker, Fails
  <2>. QED
    BY <2>1, <2>2, <2>3
<1>4. CASE CleanUp \/ CleanUpFails
  BY <1>2, <1>4 DEF CleanUp, CleanUpFails, OutputInv, StageInv
<1>5. state' = state \/ CleanUp \/ CleanUpFails \/ Publishing(p)
  BY DEF OutputNext, Publish, KeepDirectory, ChooseTransport, ClearTransport, Pack, Encrypt,
     DropArchive, PackingFails, HandleError, HandOver, Upload, Crash, Resume, ResumeRefused,
     TransportDeleted, Expires, UploadExpires, s3Vars
<1>. QED
  BY <1>3, <1>4, <1>5

(* A bucket charges for no upload that nobody knows, unless it got lost     *)
(* right after its creation (createUploadState, prepareUploadState).        *)
THEOREM UploadsStayKnown == OutputSpec => UploadsGetLostOnlyAtCreation
<1>1. ASSUME OutputInv, Spent, OutputNext, NEW u \in UploadIds,
             uploads'[u].status = "open", Known(u),
             ~\E p \in Procs : at[p] = "created" /\ u = up[p]
      PROVE  Known(u)'
  <2>1. /\ u # None /\ Publisher \in Procs /\ PublisherInv /\ S3Inv
        /\ NoState.upload = None /\ at \in [Procs -> Stages]
        /\ uploads \in [UploadIds -> UploadType]
    BY <1>1, PublisherExists DEF OutputInv, S3Inv, S3TypeOK, UploadIds, None, NoState
  <2>2. u = state.upload \/ (at[Publisher] \in Working /\ u = up[Publisher])
    BY <1>1 DEF Known, OutputInv, NobodyElse, Working
  <2>3. uploads[u].status # "gone"
    BY <1>1, GoneStaysGone
  <2>4. u = state.upload
    <3>1. CASE at[Publisher] \in Working /\ u = up[Publisher]
      <4>1. at[Publisher] \notin Between /\ at[Publisher] # "created"
        BY <1>1, <2>1, <2>3, <3>1 DEF Spent
      <4>2. at[Publisher] \in {"list", "upload", "complete", "abort_stale"}
        BY <2>1, <3>1, <4>1 DEF Working, Stages, Between
      <4>. QED
        BY <2>1, <3>1, <4>2 DEF PublisherInv
    <3>. QED
      BY <2>2, <3>1
  <2>5. state # NoState /\ uploads[u].status = "open"
    BY <2>1, <2>3, <2>4 DEF S3Inv, StateKnown, MadeFor, UploadType
  <2>. QED
    BY <1>1, <2>4, <2>5, StateForgetsNoOpenUpload DEF Known
<1>2. OutputInv /\ Spent /\ [OutputNext]_allVars
      => [\A u \in UploadIds :
            uploads'[u].status = "open" /\ ~Known(u)' =>
              ~Known(u) \/ \E p \in Procs : at[p] = "created" /\ u = up[p]]_s3Vars
  BY <1>1 DEF allVars
<1>3. OutputInit => Spent
  BY PublisherExists DEF OutputInit, Spent
<1>4. OutputInv /\ Spent /\ [OutputNext]_allVars => Spent'
  <2>1. UNCHANGED allVars /\ Spent => Spent'
    BY DEF allVars, s3Vars, Spent
  <2>. QED
    BY <2>1, SpentKept
<1>5. OutputSpec => []Spent
  BY <1>3, <1>4, OutputInvariant, PTL DEF OutputSpec
<1>. QED
  BY <1>2, <1>5, OutputInvariant, PTL DEF OutputSpec, UploadsGetLostOnlyAtCreation

-----------------------------------------------------------------------------
\* Why a process gives up.

\* What the publisher knows of the packing it sends, before, while and after
\* it uploads the parts.
SendsItsPack ==
  LET p == Publisher IN
  /\ at[p] \in Working => dig[p] = transport
  /\ at[p] \in {"idle", "marker", "confirm", "head"} => up[p] = None
  /\ at[p] \in {"confirm", "check"} => marker = dig[p]
  /\ at[p] = "created" => got[p] = {}
  /\ at[p] = "upload" => \A n \in got[p] : uploads[up[p]].bytes[n] = dig[p]
  /\ at[p] = "complete" => \A n \in Parts : uploads[up[p]].bytes[n] = dig[p]
  /\ at[p] = "verify" => object # NoObject /\ (up[p] # None => object.meta = dig[p])

\* A first process, and one that publishes to a bucket, packs where nothing is.
PacksInTheClear ==
  /\ pc = "publish" /\ ~resumed => transport = None /\ archive = None
  /\ pc = "pack" /\ (Remote \/ ~resumed) => transport = None /\ archive = None
  /\ pc = "encrypt" /\ (Remote \/ ~resumed) => transport = None

LEMMA PacksInTheClearKept ==
  ASSUME OutputInv, PacksInTheClear, OutputNext
  PROVE  PacksInTheClear'
<1>1. kind' = kind
  BY DEF OutputNext, Publish, KeepDirectory, ChooseTransport, ClearTransport, Pack, Encrypt,
     DropArchive, PackingFails, HandleError, HandOver, Upload, CleanUp, CleanUpFails, Crash,
     Resume, ResumeRefused, TransportDeleted, Expires, localVars, outputVars
<1>2. CASE pc' \notin {"publish", "pack", "encrypt"}
  BY <1>2 DEF PacksInTheClear
<1>3. CASE ChooseTransport
  <2>1. UNCHANGED <<transport, archive, resumed>> /\ pc = "publish"
    BY <1>3 DEF ChooseTransport, Continue, localVars
  <2>2. pc' = "pack" => ~Remote \/ ~resumed
    BY <1>3 DEF ChooseTransport, Continue
  <2>3. pc' \in {"upload", "clear", "pack"}
    BY <1>3 DEF ChooseTransport, Continue
  <2>. QED
    BY <1>1, <2>1, <2>2, <2>3 DEF PacksInTheClear, Remote
<1>4. CASE ClearTransport
  BY <1>4 DEF ClearTransport, Continue, PacksInTheClear
<1>5. CASE Pack
  <2>1. resumed' = resumed /\ pc = "pack"
    BY <1>5 DEF Pack, Continue
  <2>2. pc' = "encrypt" => transport' = transport
    BY <1>5 DEF Pack, Continue
  <2>3. pc' \in {"encrypt", "output", "error"}
    BY <1>5 DEF Pack, Continue
  <2>. QED
    BY <1>1, <2>1, <2>2, <2>3 DEF PacksInTheClear, Remote
<1>6. CASE Resume
  BY <1>6 DEF Resume, PacksInTheClear
<1>7. CASE UNCHANGED <<pc, transport, archive, resumed>>
  BY <1>1, <1>7 DEF PacksInTheClear, Remote
<1>8. CASE Upload
  BY <1>2, <1>8 DEF Upload, Continue, Down, outputVars
<1>. QED
  BY <1>2, <1>3, <1>4, <1>5, <1>6, <1>7, <1>8 DEF OutputNext, Publish, KeepDirectory, Encrypt,
     DropArchive, PackingFails, HandleError, HandOver, CleanUp, CleanUpFails, Crash,
     ResumeRefused, TransportDeleted, Expires, UploadExpires, Continue, Down, s3Vars, localVars,
     outputVars

LEMMA PublishingKeepsThePack ==
  ASSUME OutputInv, SendsItsPack, Publishing(Publisher)
  PROVE  SendsItsPack'
<1> DEFINE p == Publisher
<1>1. /\ p \in Procs /\ at \in [Procs -> Stages] /\ dig \in [Procs -> Packs \cup {None}]
      /\ up \in [Procs -> UploadIds \cup {None}] /\ got \in [Procs -> SUBSET Parts]
      /\ uploads \in [UploadIds -> UploadType]
  BY PublisherExists DEF OutputInv, S3Inv, S3TypeOK
<1>2. /\ at[p] \in UsesUpload => MadeFor(up[p], dig[p])
      /\ at[p] \in Working => dig[p] = transport
      /\ at[p] \in {"idle", "marker", "confirm", "head"} => up[p] = None
      /\ at[p] \in {"confirm", "check"} => marker = dig[p]
      /\ at[p] = "created" => got[p] = {}
      /\ at[p] = "upload" => \A n \in got[p] : uploads[up[p]].bytes[n] = dig[p]
      /\ at[p] = "complete" => \A n \in Parts : uploads[up[p]].bytes[n] = dig[p]
      /\ at[p] = "verify" => object # NoObject /\ (up[p] # None => object.meta = dig[p])
  BY <1>1 DEF SendsItsPack, OutputInv, S3Inv, UploadsKnown
<1>3. transport' = transport
  BY <1>1, PublishingLeavesTransport
<1> HIDE DEF p
<1> USE <1>1, <1>2, <1>3 DEF Goto
<1>4. CASE Start(p)
  BY <1>4 DEF Start, SendsItsPack, p, Working, Stages
<1>5. CASE ReadMarker(p)
  BY <1>5 DEF ReadMarker, SendsItsPack, p, Working, Stages, remoteVars
<1>6. CASE Confirm(p) \/ Verify(p) \/ CheckMarker(p) \/ Forget(p) \/ Fails(p) \/ AbortStale(p)
           \/ ForgetStale(p) \/ ReadState(p)
  <2>1. /\ at'[p] \in {"forget", "failed", "mark", "returned", "forget_stale", "create", "list",
                       "abort_stale"}
        /\ UNCHANGED dig /\ at[p] \in Working
    BY <1>6 DEF Confirm, Verify, CheckMarker, Forget, Fails, AbortStale, ForgetStale, ReadState,
       Working, Stages, remoteVars
  <2>. QED
    BY <2>1 DEF SendsItsPack, p
<1>7. CASE HeadObject(p)
  BY <1>7 DEF HeadObject, SendsItsPack, p, Working, Stages, remoteVars
<1>8. CASE ListParts(p)
  <2>1. UNCHANGED <<dig, up, uploads>> /\ at[p] = "list" /\ at'[p] \in {"forget_stale", "upload"}
    BY <1>8 DEF ListParts, remoteVars
  <2>2. at'[p] = "upload" => \A n \in got'[p] : uploads[up[p]].bytes[n] = dig[p]
    BY <1>8 DEF ListParts
  <2>. QED
    BY <2>1, <2>2 DEF SendsItsPack, p, Working, Stages
<1>9. CASE CreateUpload(p)
  BY <1>9 DEF CreateUpload, SendsItsPack, p, Working, Stages
<1>10. CASE SaveNewState(p)
  BY <1>10 DEF SaveNewState, SendsItsPack, p, Working, Stages, remoteVars
<1>11. ASSUME NEW n \in Parts, UploadPart(p, n) PROVE SendsItsPack'
  BY <1>11 DEF UploadPart, SendsItsPack, p, Working, Stages, UsesUpload, MadeFor, UploadType
<1>12. CASE SaveParts(p) \/ AllUploaded(p)
  BY <1>12 DEF SaveParts, AllUploaded, SendsItsPack, p, Working, Stages, remoteVars
<1>13. CASE Complete(p)
  BY <1>13 DEF Complete, SendsItsPack, p, Working, Stages, UsesUpload, MadeFor, ObjectOf,
     NoObject, None, UploadIds
<1>14. CASE WriteMarker(p)
  BY <1>14 DEF WriteMarker, SendsItsPack, p, Working, Stages, OutputInv, S3Inv,
     MarkedIsVerified, Matches
<1>. QED
  BY <1>4, <1>5, <1>6, <1>7, <1>8, <1>9, <1>10, <1>11, <1>12, <1>13, <1>14 DEF Publishing, p

LEMMA SendsItsPackKept ==
  ASSUME OutputInv, SendsItsPack, OutputNext
  PROVE  SendsItsPack'
<1>1. CASE \A p \in Procs : at'[p] = "idle" /\ up'[p] = None
  BY <1>1, PublisherExists DEF SendsItsPack, Working
<1>2. CASE Around
  <2>1. CASE UNCHANGED procVars
    <3>1. pc = "upload" => UNCHANGED transport
      BY PublisherExists, PublishingLeavesTransport DEF OutputNext, Publish, KeepDirectory,
         ChooseTransport, ClearTransport, Pack, Encrypt, DropArchive, PackingFails, HandleError,
         HandOver, Upload, CleanUp, CleanUpFails, Crash, Resume, ResumeRefused,
         TransportDeleted, Expires, UploadExpires
    <3>2. pc # "upload" => at[Publisher] \notin Working
      BY DEF OutputInv, NobodyElse, Working
    <3>. QED
      BY <1>2, <2>1, <3>1, <3>2 DEF Around, procVars, remoteVars, SendsItsPack
  <2>. QED
    BY <1>1, <1>2, <2>1 DEF Around, Down
<1>3. CASE pc = "upload" /\ Publishing(Publisher)
  BY <1>3, PublishingKeepsThePack
<1>4. CASE UploadExpires
  <2>1. \A u \in UploadIds : uploads'[u].bytes = uploads[u].bytes
    BY <1>4 DEF UploadExpires, Discard, OutputInv, S3Inv, S3TypeOK, UploadType
  <2>2. at[Publisher] \in UsesUpload => up[Publisher] \in UploadIds
    BY PublisherExists DEF OutputInv, S3Inv, UploadsKnown, MadeFor
  <2>. QED
    BY <1>4, <2>1, <2>2 DEF UploadExpires, procVars, SendsItsPack, UsesUpload
<1>. QED
  BY <1>2, <1>3, <1>4, StepsOfARun

\* What publishS3Backup may fail from, but for a failing call.
UploadFailsFromOutside ==
  \/ TransportLost /\ up[Publisher] = None
  \/ at[Publisher] \in {"upload", "complete"} /\ uploads[up[Publisher]].status = "gone"

LEMMA PublishingFailsForAReason ==
  ASSUME OutputInv, SendsItsPack, Publishing(Publisher), at'[Publisher] = "failed"
  PROVE  faults' > faults \/ UploadFailsFromOutside
<1> DEFINE p == Publisher
<1>1. /\ p \in Procs /\ at \in [Procs -> Stages] /\ dig \in [Procs -> Packs \cup {None}]
      /\ uploads \in [UploadIds -> UploadType] /\ faults \in Nat
      /\ \A q \in Packs : q # None
  BY PublisherExists, S3Assumption DEF OutputInv, S3Inv, S3TypeOK, Packs, None
<1>2. /\ at[p] \in Working => dig[p] = transport /\ dig[p] \in Packs
      /\ at[p] \in {"upload", "complete"} =>
           /\ up[p] \in UploadIds /\ uploads[up[p]].status \in {"open", "gone"}
           /\ object = NoObject
      /\ at[p] \in {"marker", "confirm"} => up[p] = None
      /\ at[p] \in {"confirm", "check"} => marker = dig[p]
      /\ at[p] = "complete" => \A n \in Parts : uploads[up[p]].bytes[n] = dig[p]
      /\ at[p] = "verify" => object # NoObject /\ (up[p] # None => object.meta = dig[p])
      /\ marker # None => Matches(marker)
      /\ ObjectIsOnePack
  BY <1>1 DEF SendsItsPack, OutputInv, S3Inv, UploadsKnown, UsesUpload, MadeFor, UploadType,
     DigestTaken, PublisherInv, MarkedIsVerified
<1>3. ASSUME Fault PROVE faults' > faults
  BY <1>1, <1>3 DEF Fault
<1> HIDE DEF p
<1> USE <1>1, <1>2 DEF Goto
<1>4. CASE ReadMarker(p)
  <2>1. marker \notin {None, dig[p]} /\ at[p] = "marker"
    BY <1>4 DEF ReadMarker, p
  <2>2. object.meta = marker /\ object # NoObject
    BY <2>1, S3Assumption DEF Matches, NoObject, None
  <2>. QED
    BY <2>1, <2>2 DEF UploadFailsFromOutside, TransportLost, p, Working, Stages
<1>5. CASE Confirm(p) \/ CheckMarker(p)
  BY <1>5 DEF Confirm, CheckMarker, p, Working, Stages
<1>6. CASE CreateUpload(p) \/ WriteMarker(p) \/ Fails(p)
  BY <1>3, <1>6 DEF CreateUpload, WriteMarker, Fails, p
<1>7. ASSUME NEW n \in Parts, UploadPart(p, n)
      PROVE  faults' > faults \/ UploadFailsFromOutside
  BY <1>3, <1>7 DEF UploadPart, UploadFailsFromOutside, p
<1>8. CASE Complete(p)
  BY <1>3, <1>8 DEF Complete, UploadFailsFromOutside, p
<1>9. CASE Verify(p)
  <2>1. ~Matches(dig[p]) /\ at[p] = "verify" /\ object # NoObject
    BY <1>9 DEF Verify, p
  <2>2. object.meta # dig[p]
    BY <2>1 DEF ObjectIsOnePack
  <2>. QED
    BY <2>1, <2>2 DEF UploadFailsFromOutside, TransportLost, p, Working, Stages
<1>10. \/ ReadMarker(p) \/ Confirm(p) \/ CheckMarker(p) \/ CreateUpload(p) \/ WriteMarker(p)
       \/ Fails(p) \/ Complete(p) \/ Verify(p) \/ \E n \in Parts : UploadPart(p, n)
  BY DEF Publishing, Start, HeadObject, ReadState, AbortStale, ForgetStale, ListParts,
     SaveNewState, SaveParts, AllUploaded, Forget, p
<1>. QED
  BY <1>4, <1>5, <1>6, <1>7, <1>8, <1>9, <1>10

(* For every kind of output: a process that ends without its output was     *)
(* stopped by a failing call or from outside, or met a local file of an     *)
(* earlier process (publishBackupOutput, publishS3Backup).                  *)
THEOREM OutputStops == OutputSpec => OutputStopsForAReason
<1> DEFINE Reason == \/ faults' > faults
                     \/ UploadFailsFromOutside
                     \/ ~Remote /\ resumed /\ (transport # None \/ archive # None)
<1>1. ASSUME OutputInv, SendsItsPack, PacksInTheClear, OutputNext, ~Stopping, Stopping'
      PROVE  Reason
  <2>1. faults \in Nat /\ Publisher \in Procs
    BY <1>1, PublisherExists, S3Assumption DEF OutputInv, S3Inv, S3TypeOK
  <2>2. Fault => Reason
    BY <2>1 DEF Fault
  <2>3. pc = "down" => ~hasCkpt
    BY <1>1 DEF Stopping, OutputInv, SuccessIsComplete
  <2>4. CASE PackingFails \/ CleanUpFails \/ Crash \/ TransportDeleted
    BY <2>2, <2>4 DEF PackingFails, CleanUpFails, Crash, TransportDeleted
  <2>5. CASE KeepDirectory \/ CleanUp
    BY <1>1, <2>1, <2>5 DEF KeepDirectory, CleanUp, Down, Stopping
  <2>6. CASE HandOver
    BY <1>1, <2>1, <2>6 DEF HandOver, Down, Continue, procVars, Stopping
  <2>7. CASE ChooseTransport \/ ClearTransport \/ DropArchive
    BY <1>1, <2>7 DEF ChooseTransport, ClearTransport, DropArchive, Continue, procVars, Stopping
  <2>8. CASE Pack
    BY <1>1, <2>8 DEF Pack, Continue, procVars, Stopping, PacksInTheClear
  <2>9. CASE Encrypt
    BY <1>1, <2>9 DEF Encrypt, Continue, procVars, Stopping, PacksInTheClear
  <2>10. CASE HandleError
    BY <1>1, <2>10 DEF HandleError, Stopping
  <2>11. CASE Upload
    <3>1. CASE Publishing(Publisher) /\ UNCHANGED outputVars
      <4>1. at'[Publisher] = "failed"
        BY <1>1, <2>11, <3>1 DEF Upload, Stopping, outputVars
      <4>. QED
        BY <1>1, <3>1, <4>1, PublishingFailsForAReason
    <3>2. CASE at[Publisher] = "returned" /\ Continue("cleanup")
      BY <1>1, <3>2 DEF Continue, procVars, Stopping
    <3>. QED
      BY <1>1, <2>11, <3>1, <3>2 DEF Upload, Stopping
  <2>12. CASE Resume \/ ResumeRefused
    BY <2>3, <2>12 DEF Resume, ResumeRefused
  <2>13. CASE Expires
    BY <2>2, <2>13 DEF Expires, UploadExpires
  <2>. QED
    BY <1>1, <2>4, <2>5, <2>6, <2>7, <2>8, <2>9, <2>10, <2>11, <2>12, <2>13
    DEF OutputNext, Publish
<1>2. OutputInit => SendsItsPack /\ PacksInTheClear
  BY PublisherExists DEF OutputInit, SendsItsPack, PacksInTheClear, Working
<1>3. OutputInv /\ SendsItsPack /\ PacksInTheClear /\ [OutputNext]_allVars
      => SendsItsPack' /\ PacksInTheClear'
  <2>1. UNCHANGED allVars /\ SendsItsPack /\ PacksInTheClear => SendsItsPack' /\ PacksInTheClear'
    BY DEF allVars, s3Vars, outputVars, SendsItsPack, PacksInTheClear, Remote
  <2>. QED
    BY <2>1, SendsItsPackKept, PacksInTheClearKept
<1>4. OutputSpec => [](SendsItsPack /\ PacksInTheClear)
  BY <1>2, <1>3, OutputInvariant, PTL DEF OutputSpec
<1>5. OutputInv /\ SendsItsPack /\ PacksInTheClear /\ [OutputNext]_allVars
      => [~Stopping /\ Stopping' =>
            \/ faults' > faults
            \/ TransportLost /\ up[Publisher] = None
            \/ /\ at[Publisher] \in {"upload", "complete"}
               /\ uploads[up[Publisher]].status = "gone"
            \/ ~Remote /\ resumed /\ (transport # None \/ archive # None)]_allVars
  BY <1>1 DEF UploadFailsFromOutside
<1>. QED
  BY <1>4, <1>5, OutputInvariant, PTL DEF OutputSpec, OutputStopsForAReason

-----------------------------------------------------------------------------

\* How far a stage is from the end of publishS3Backup.
StageRank(stage) ==
  CASE stage = "idle" -> 14
    [] stage = "marker" -> 13
    [] stage = "head" -> 12
    [] stage = "prepare" -> 11
    [] stage \in {"abort_stale", "list"} -> 10
    [] stage = "forget_stale" -> 9
    [] stage = "create" -> 8
    [] stage = "created" -> 7
    [] stage = "upload" -> 6
    [] stage = "complete" -> 5
    [] stage = "verify" -> 4
    [] stage = "mark" -> 3
    [] stage \in {"check", "confirm"} -> 2
    [] stage = "forget" -> 1
    [] OTHER -> 0

\* What is left to send and to record: every part twice, and what a listing
\* kept may have to be recorded once more.
BeforeUpload == {"idle", "marker", "head", "prepare", "abort_stale", "list",
                 "forget_stale", "create", "created"}
Unsent(p) == Cardinality(Parts \ got[p])
PartsLeft(p) ==
  CASE at[p] = "upload" -> IF saved[p] = got[p] THEN 2 * Unsent(p) ELSE 2 * Unsent(p) + 1
    [] at[p] \in BeforeUpload -> 2 * Cardinality(Parts) + 1
    [] OTHER -> 0

S3StepsLeft(p) == StageRank(at[p]) + PartsLeft(p)
S3StepsBound == 2 * Cardinality(Parts) + 15

\* A process that publishes takes at most S3StepsBound steps of its own.
PublishingIsCounted ==
  [][\A p \in Procs :
       /\ S3StepsLeft(p)' \in 0..S3StepsBound
       /\ IF Publishing(p) THEN S3StepsLeft(p)' < S3StepsLeft(p)
          ELSE at[p] # "failed" => S3StepsLeft(p)' = S3StepsLeft(p)]_s3Vars

LEMMA UnsentIsCounted ==
  ASSUME NEW G \in SUBSET Parts
  PROVE  /\ Cardinality(Parts) \in Nat /\ Cardinality(Parts \ G) \in Nat
         /\ Cardinality(Parts \ G) <= Cardinality(Parts)
         /\ \A n \in Parts \ G :
              /\ Cardinality(Parts \ (G \cup {n})) \in Nat
              /\ Cardinality(Parts \ G) = Cardinality(Parts \ (G \cup {n})) + 1
<1>1. IsFiniteSet(Parts)
  BY S3Assumption
<1>2. IsFiniteSet(Parts \ G) /\ Cardinality(Parts \ G) <= Cardinality(Parts)
  BY <1>1, FS_Subset
<1>3. Cardinality(Parts) \in Nat /\ Cardinality(Parts \ G) \in Nat
  BY <1>1, <1>2, FS_CardinalityType
<1>4. ASSUME NEW n \in Parts \ G
      PROVE  /\ Cardinality(Parts \ (G \cup {n})) \in Nat
             /\ Cardinality(Parts \ G) = Cardinality(Parts \ (G \cup {n})) + 1
  <2>1. Parts \ (G \cup {n}) = (Parts \ G) \ {n}
    OBVIOUS
  <2>2. IsFiniteSet((Parts \ G) \ {n})
        /\ Cardinality((Parts \ G) \ {n}) = Cardinality(Parts \ G) - 1
    BY <1>2, <1>4, FS_RemoveElement
  <2>3. Cardinality((Parts \ G) \ {n}) \in Nat
    BY <2>2, FS_CardinalityType
  <2>. QED
    BY <1>3, <2>1, <2>2, <2>3
<1>. QED
  BY <1>2, <1>3, <1>4

LEMMA RanksAreSmall == ASSUME NEW stage PROVE StageRank(stage) \in 0..14
BY DEF StageRank

PartsLeftTyped ==
  \A p \in Procs : PartsLeft(p) \in Nat /\ PartsLeft(p) <= 2 * Cardinality(Parts) + 1
                   /\ S3StepsLeft(p) \in 0..S3StepsBound

LEMMA PartsLeftIsTyped == S3TypeOK => PartsLeftTyped
<1> SUFFICES ASSUME S3TypeOK, NEW p \in Procs
             PROVE  PartsLeft(p) \in Nat /\ PartsLeft(p) <= 2 * Cardinality(Parts) + 1
                    /\ S3StepsLeft(p) \in 0..S3StepsBound
  BY DEF PartsLeftTyped
<1>1. got[p] \in SUBSET Parts
  BY DEF S3TypeOK
<1>2. /\ Cardinality(Parts) \in Nat /\ Unsent(p) \in Nat
      /\ Unsent(p) <= Cardinality(Parts)
  BY <1>1, UnsentIsCounted DEF Unsent
<1>3. \A n, m \in Nat : n <= m => /\ 2 * n \in Nat /\ 2 * n + 1 \in Nat /\ 2 * m + 1 \in Nat
                                  /\ 2 * n <= 2 * m + 1 /\ 2 * n + 1 <= 2 * m + 1
                                  /\ 2 * m + 1 <= 2 * m + 1 /\ 0 <= 2 * m + 1
  OBVIOUS
<1>4. PartsLeft(p) \in Nat /\ PartsLeft(p) <= 2 * Cardinality(Parts) + 1
  BY <1>2, <1>3 DEF PartsLeft
<1>5. StageRank(at[p]) \in 0..14
  BY RanksAreSmall
<1>6. \A m, k \in Nat : \A r \in 0..14 : k <= 2 * m + 1 => r + k \in 0..(2 * m + 15)
  OBVIOUS
<1>. QED
  BY <1>2, <1>4, <1>5, <1>6 DEF S3StepsLeft, S3StepsBound

(* Every step of a publisher moves on, or sends or records a part.          *)
LEMMA PublishingMovesOn ==
  ASSUME S3TypeOK, (S3TypeOK)', NEW p \in Procs, Publishing(p)
  PROVE  S3StepsLeft(p)' < S3StepsLeft(p)
<1>1. /\ PartsLeft(p) \in Nat /\ PartsLeft(p)' \in Nat
      /\ PartsLeft(p)' <= 2 * Cardinality(Parts) + 1
      /\ StageRank(at[p]) \in Nat /\ StageRank(at'[p]) \in Nat
  <2>1. PartsLeftTyped /\ (PartsLeftTyped)'
    BY PartsLeftIsTyped, PTL
  <2>2. StageRank(at[p]) \in 0..14 /\ StageRank(at'[p]) \in 0..14
    BY RanksAreSmall
  <2>. QED
    BY <2>1, <2>2 DEF PartsLeftTyped
<1>2. /\ at \in [Procs -> Stages] /\ got \in [Procs -> SUBSET Parts]
      /\ saved \in [Procs -> SUBSET Parts]
  BY DEF S3TypeOK
<1>3. \A r, s, k, l \in Nat : s < r /\ l <= k => s + l < r + k
  OBVIOUS
<1>4. \A r, k, l \in Nat : l < k => r + l < r + k
  OBVIOUS
<1>5. SUFFICES \/ StageRank(at'[p]) < StageRank(at[p]) /\ PartsLeft(p)' <= PartsLeft(p)
               \/ at'[p] = at[p] /\ PartsLeft(p)' < PartsLeft(p)
  BY <1>1, <1>3, <1>4, <1>5 DEF S3StepsLeft
<1>6. CASE \E n \in Parts : UploadPart(p, n) /\ at' = at
  <2>1. PICK n \in Parts : UploadPart(p, n) /\ at' = at
    BY <1>6
  <2>2. at[p] = "upload" /\ n \notin got[p] /\ got' = [got EXCEPT ![p] = @ \cup {n}]
        /\ saved' = saved
    BY <1>2, <2>1 DEF UploadPart, Goto
  <2>3. got'[p] = got[p] \cup {n} /\ got[p] \in SUBSET Parts
    BY <1>2, <2>2
  <2>4. /\ Unsent(p) \in Nat /\ Unsent(p)' \in Nat /\ Unsent(p) = Unsent(p)' + 1
    BY <2>2, <2>3, UnsentIsCounted DEF Unsent
  <2>5. \A k, l \in Nat : k = l + 1 => 2 * l < 2 * k /\ 2 * l + 1 < 2 * k
                                       /\ 2 * l < 2 * k + 1 /\ 2 * l + 1 < 2 * k + 1
    OBVIOUS
  <2>6. at'[p] = "upload"
    BY <2>1, <2>2
  <2>7. PartsLeft(p) = 2 * Unsent(p) \/ PartsLeft(p) = 2 * Unsent(p) + 1
    BY <2>2, <2>4 DEF PartsLeft, BeforeUpload
  <2>8. PartsLeft(p)' = 2 * Unsent(p)' \/ PartsLeft(p)' = 2 * Unsent(p)' + 1
    BY <2>4, <2>6 DEF PartsLeft, BeforeUpload
  <2>9. PartsLeft(p)' < PartsLeft(p)
    BY <2>4, <2>5, <2>7, <2>8
  <2>. QED
    BY <2>1, <2>9
<1>7. CASE SaveParts(p)
  <2>1. /\ at[p] = "upload" /\ at' = at /\ got' = got
        /\ saved[p] # got[p] /\ saved'[p] = got'[p]
    BY <1>2, <1>7 DEF SaveParts
  <2>2. Unsent(p) \in Nat /\ Unsent(p)' = Unsent(p)
    BY <1>2, <2>1, UnsentIsCounted DEF Unsent
  <2>3. \A k \in Nat : 2 * k < 2 * k + 1
    OBVIOUS
  <2>4. PartsLeft(p) = 2 * Unsent(p) + 1
    BY <2>1, <2>2 DEF PartsLeft, BeforeUpload
  <2>5. at'[p] = "upload"
    BY <2>1
  <2>6. PartsLeft(p)' = 2 * Unsent(p)'
    BY <2>1, <2>2, <2>5 DEF PartsLeft, BeforeUpload
  <2>. QED
    BY <2>1, <2>2, <2>3, <2>4, <2>6
<1>8. CASE at'[p] \in {"failed", "returned", "forget", "check", "mark", "verify",
                       "complete", "confirm"}
           /\ StageRank(at'[p]) < StageRank(at[p])
  <2>1. PartsLeft(p)' = 0
    BY <1>8 DEF PartsLeft, BeforeUpload
  <2>2. \A k \in Nat : 0 <= k
    OBVIOUS
  <2>. QED
    BY <1>1, <1>8, <2>1, <2>2
<1>9. CASE at[p] \in BeforeUpload /\ StageRank(at'[p]) < StageRank(at[p])
  <2>1. PartsLeft(p) = 2 * Cardinality(Parts) + 1
    BY <1>9 DEF PartsLeft, BeforeUpload
  <2>. QED
    BY <1>1, <1>9, <2>1
<1>10. \/ at[p] \in BeforeUpload
       \/ at'[p] \in {"failed", "returned", "forget", "check", "mark", "verify",
                      "complete", "confirm"}
       \/ SaveParts(p)
       \/ \E n \in Parts : UploadPart(p, n) /\ at' = at
  <2>1. CASE Start(p) \/ ReadMarker(p) \/ HeadObject(p) \/ ReadState(p) \/ AbortStale(p)
             \/ ForgetStale(p) \/ ListParts(p) \/ CreateUpload(p) \/ SaveNewState(p)
    BY <2>1 DEF Start, ReadMarker, HeadObject, ReadState, AbortStale, ForgetStale, ListParts,
                CreateUpload, SaveNewState, BeforeUpload
  <2>2. CASE Confirm(p) \/ AllUploaded(p) \/ Complete(p) \/ Verify(p) \/ WriteMarker(p)
             \/ CheckMarker(p) \/ Forget(p) \/ Fails(p)
    BY <1>2, <2>2 DEF Confirm, AllUploaded, Complete, Verify, WriteMarker, CheckMarker,
                Forget, Fails, Goto
  <2>3. ASSUME NEW n \in Parts, UploadPart(p, n)
        PROVE  at'[p] = "failed" \/ at' = at
    BY <1>2, <2>3 DEF UploadPart, Goto
  <2>. QED
    BY <2>1, <2>2, <2>3 DEF Publishing
<1>11. \/ StageRank(at'[p]) < StageRank(at[p])
       \/ SaveParts(p)
       \/ \E n \in Parts : UploadPart(p, n) /\ at' = at
  <2>1. CASE Start(p) \/ ReadMarker(p) \/ HeadObject(p) \/ Confirm(p)
    BY <1>2, <2>1 DEF Start, ReadMarker, HeadObject, Confirm, Goto, StageRank
  <2>2. CASE ReadState(p)
    BY <1>2, <2>2 DEF ReadState, Goto, StageRank
  <2>3. CASE AbortStale(p) \/ ForgetStale(p) \/ SaveNewState(p)
    BY <1>2, <2>3 DEF AbortStale, ForgetStale, SaveNewState, Goto, StageRank
  <2>4. CASE ListParts(p)
    BY <1>2, <2>4 DEF ListParts, Goto, StageRank
  <2>5. CASE CreateUpload(p)
    BY <1>2, <2>5 DEF CreateUpload, Goto, StageRank
  <2>6. CASE AllUploaded(p) \/ Verify(p) \/ WriteMarker(p) \/ CheckMarker(p) \/ Forget(p)
    BY <1>2, <2>6 DEF AllUploaded, Verify, WriteMarker, CheckMarker, Forget, Goto, StageRank
  <2>7. CASE Complete(p)
    BY <1>2, <2>7 DEF Complete, Goto, StageRank
  <2>8. CASE Fails(p)
    BY <1>2, <2>8 DEF Fails, Goto, StageRank, Working, Stages
  <2>9. ASSUME NEW n \in Parts, UploadPart(p, n)
        PROVE  StageRank(at'[p]) < StageRank(at[p]) \/ at' = at
    BY <1>2, <2>9 DEF UploadPart, Goto, StageRank
  <2>. QED
    BY <2>1, <2>2, <2>3, <2>4, <2>5, <2>6, <2>7, <2>8, <2>9 DEF Publishing
<1>. QED
  BY <1>6, <1>7, <1>8, <1>9, <1>10, <1>11

(* publishS3Backup ends, however many processes, repackings and expiries    *)
(* cross it: one process takes at most S3StepsBound steps of its own, and   *)
(* no step of another gives it back one of them.                            *)
THEOREM PublishingStepsAreBounded == S3Spec => PublishingIsCounted
<1>1. S3Inv /\ S3Inv' /\ [S3Next]_s3Vars =>
        [\A p \in Procs :
           /\ S3StepsLeft(p)' \in 0..S3StepsBound
           /\ IF Publishing(p) THEN S3StepsLeft(p)' < S3StepsLeft(p)
              ELSE at[p] # "failed" => S3StepsLeft(p)' = S3StepsLeft(p)]_s3Vars
  <2>. SUFFICES ASSUME S3Inv, (S3Inv)', S3Next, NEW p \in Procs
                PROVE  /\ S3StepsLeft(p)' \in 0..S3StepsBound
                       /\ Publishing(p) => S3StepsLeft(p)' < S3StepsLeft(p)
                       /\ ~Publishing(p) /\ at[p] # "failed" =>
                            S3StepsLeft(p)' = S3StepsLeft(p)
    OBVIOUS
  <2>1. S3TypeOK /\ (S3TypeOK)'
    BY DEF S3Inv
  <2>2. (PartsLeftTyped)'
    BY <2>1, PartsLeftIsTyped, PTL
  <2>3. ASSUME ~Publishing(p), at[p] # "failed"
        PROVE  at'[p] = at[p] /\ got'[p] = got[p] /\ saved'[p] = saved[p]
    <3>1. ASSUME NEW q \in Procs \ {p}, Publishing(q) \/ Restart(q)
          PROVE  at'[p] = at[p] /\ got'[p] = got[p] /\ saved'[p] = saved[p]
      BY <2>1, <3>1 DEF Publishing, Restart, Start, ReadMarker, Confirm, HeadObject, ReadState,
         AbortStale, ForgetStale, ListParts, CreateUpload, SaveNewState, UploadPart, SaveParts,
         AllUploaded, Complete, Verify, WriteMarker, CheckMarker, Forget, Fails, Goto, S3TypeOK
    <3>2. CASE UploadExpires \/ Repack
      BY <3>2 DEF UploadExpires, Repack, procVars
    <3>3. ~Restart(p)
      BY <2>3 DEF Restart
    <3>. QED
      BY <2>3, <3>1, <3>2, <3>3 DEF S3Next
  <2>4. ~Publishing(p) /\ at[p] # "failed" => S3StepsLeft(p)' = S3StepsLeft(p)
    BY <2>3 DEF S3StepsLeft, PartsLeft, Unsent
  <2>. QED
    BY <2>1, <2>2, <2>4, PublishingMovesOn DEF PartsLeftTyped
<1>. QED
  BY <1>1, S3Invariant, PTL DEF S3Spec, PublishingIsCounted

-----------------------------------------------------------------------------

\* What publishBackupOutput still has before it, from each of its stages.
OutputLeft ==
  CASE pc = "publish" -> S3StepsBound + 8
    [] pc = "clear" -> S3StepsBound + 7
    [] pc = "pack" -> S3StepsBound + 6
    [] pc = "encrypt" -> S3StepsBound + 5
    [] pc = "drop_archive" -> S3StepsBound + 4
    [] pc = "output" -> S3StepsBound + 3
    [] pc = "upload" -> S3StepsLeft(Publisher) + 2
    [] pc \in {"error", "cleanup"} -> 1
    [] OTHER -> 0

\* One process takes at most S3StepsBound + 8 steps until it is down.
OutputIsCounted ==
  [][/\ OutputLeft' \in 0..(S3StepsBound + 8)
     /\ pc # "down" => IF Publish \/ Crash THEN OutputLeft' < OutputLeft
                       ELSE OutputLeft' = OutputLeft]_allVars

\* OutputLeft without the stages: where it stands and how far that reaches.
OutputLeftTyped ==
  /\ S3StepsBound \in Nat /\ S3StepsLeft(Publisher) \in 0..S3StepsBound
  /\ OutputLeft \in 0..(S3StepsBound + 8)
  /\ pc # "down" => OutputLeft > 0

LEMMA OutputLeftIsTyped == OutputTypeOK => OutputLeftTyped
<1> SUFFICES ASSUME OutputTypeOK PROVE OutputLeftTyped
  OBVIOUS
<1>1. S3StepsBound \in Nat
  <2>1. Cardinality(Parts) \in Nat
    BY S3Assumption, FS_CardinalityType
  <2>. QED
    BY <2>1 DEF S3StepsBound
<1>2. S3StepsLeft(Publisher) \in 0..S3StepsBound
  BY PublisherExists, PartsLeftIsTyped DEF PartsLeftTyped, OutputTypeOK
<1>3. pc \in PCs
  BY DEF OutputTypeOK
<1>. QED
  BY <1>1, <1>2, <1>3 DEF OutputLeftTyped, OutputLeft, PCs

LEMMA OutputMovesOn ==
  ASSUME OutputTypeOK, (OutputTypeOK)', pc # "down", Publish \/ Crash
  PROVE  OutputLeft' < OutputLeft
<1>1. OutputLeftTyped
  BY OutputLeftIsTyped
<1>2. (OutputLeftTyped)'
  BY OutputLeftIsTyped, PTL
<1>3. /\ S3StepsBound \in Nat
      /\ S3StepsLeft(Publisher) \in 0..S3StepsBound
      /\ S3StepsLeft(Publisher)' \in 0..S3StepsBound
      /\ OutputLeft > 0 /\ OutputLeft \in Nat
  BY <1>1, <1>2 DEF OutputLeftTyped, S3StepsBound
<1>4. CASE pc' = "down"
  <2>1. OutputLeft' = 0
    BY <1>4 DEF OutputLeft
  <2>. QED
    BY <1>3, <2>1
<1>5. CASE KeepDirectory \/ HandleError \/ CleanUp \/ CleanUpFails \/ Crash
  BY <1>4, <1>5 DEF KeepDirectory, HandleError, CleanUp, CleanUpFails, Crash, Down
<1>6. CASE ChooseTransport
  <2>1. pc = "publish" /\ pc' \in {"upload", "clear", "pack"}
    BY <1>6 DEF ChooseTransport, Continue
  <2>. QED
    BY <1>3, <2>1 DEF OutputLeft
<1>7. CASE ClearTransport \/ Pack \/ Encrypt \/ DropArchive \/ PackingFails
  <2>1. \/ pc = "clear" /\ pc' = "pack"
        \/ pc = "pack" /\ pc' \in {"encrypt", "output", "error"}
        \/ pc = "encrypt" /\ pc' \in {"drop_archive", "error"}
        \/ pc = "drop_archive" /\ pc' \in {"output", "error"}
    BY <1>7 DEF ClearTransport, Pack, Encrypt, DropArchive, PackingFails, Continue
  <2>. QED
    BY <1>3, <2>1 DEF OutputLeft
<1>8. CASE HandOver
  <2>1. pc = "output" /\ pc' \in {"upload", "cleanup", "down"}
    BY <1>8 DEF HandOver, Continue, Down
  <2>. QED
    BY <1>3, <2>1 DEF OutputLeft
<1>9. CASE Upload
  <2>1. CASE Publishing(Publisher) /\ UNCHANGED outputVars
    <3>1. pc = "upload" /\ pc' = "upload"
      BY <1>9, <2>1 DEF Upload, outputVars
    <3>2. S3StepsLeft(Publisher)' < S3StepsLeft(Publisher)
      BY <2>1, PublisherExists, PublishingMovesOn DEF OutputTypeOK
    <3>. QED
      BY <1>3, <3>1, <3>2 DEF OutputLeft
  <2>2. CASE pc = "upload" /\ pc' \in {"cleanup", "down"}
    BY <1>3, <2>2 DEF OutputLeft
  <2>. QED
    BY <1>9, <2>1, <2>2 DEF Upload, Continue, Down
<1>. QED
  BY <1>5, <1>6, <1>7, <1>8, <1>9 DEF Publish

(* publishBackupOutput ends, for every kind of output and whatever earlier  *)
(* processes left: one process takes at most S3StepsBound + 8 steps until   *)
(* it is down, and an upload the bucket drops meanwhile adds none.          *)
THEOREM OutputStepsAreBounded == OutputSpec => OutputIsCounted
<1>1. OutputInv /\ (OutputInv)' /\ [OutputNext]_allVars =>
        [/\ OutputLeft' \in 0..(S3StepsBound + 8)
         /\ pc # "down" => IF Publish \/ Crash THEN OutputLeft' < OutputLeft
                           ELSE OutputLeft' = OutputLeft]_allVars
  <2>. SUFFICES ASSUME OutputInv, (OutputInv)', OutputNext
                PROVE  /\ OutputLeft' \in 0..(S3StepsBound + 8)
                       /\ pc # "down" => IF Publish \/ Crash THEN OutputLeft' < OutputLeft
                                         ELSE OutputLeft' = OutputLeft
    OBVIOUS
  <2>1. OutputTypeOK /\ (OutputTypeOK)'
    BY DEF OutputInv
  <2>2. (OutputLeftTyped)'
    BY <2>1, OutputLeftIsTyped, PTL
  <2>3. ASSUME pc # "down", ~(Publish \/ Crash)
        PROVE  OutputLeft' = OutputLeft
    <3>1. Expires
      BY <2>3 DEF OutputNext, Resume, ResumeRefused, TransportDeleted
    <3>2. UNCHANGED <<at, got, saved, pc>>
      BY <3>1 DEF Expires, UploadExpires, outputVars, procVars
    <3>. QED
      BY <3>2 DEF OutputLeft, S3StepsLeft, PartsLeft, Unsent
  <2>4. OutputLeft' \in 0..(S3StepsBound + 8)
    BY <2>2 DEF OutputLeftTyped, S3StepsBound
  <2>. QED
    BY <2>1, <2>3, <2>4, OutputMovesOn
<1>. QED
  BY <1>1, OutputInvariant, PTL DEF OutputSpec, OutputIsCounted

=============================================================================

---------------------------- MODULE BackupOutput ----------------------------
(***************************************************************************)
(* publishBackupOutput (destination/backup-output.ts): what becomes of a   *)
(* finalized workspace.  It stays as it is, or is packed into an archive,  *)
(* the archive may be encrypted with age, and either may go to a bucket    *)
(* (S3Publication).  Plaintext staging, the checkpoint and the state file  *)
(* go last.  A process may fail or die between any two effects, and the    *)
(* operator resumes it with the checkpoint: executeBackup then seals the   *)
(* workspace again, which makes it a new pack.                             *)
(*                                                                         *)
(* transport is the file handed out or uploaded: the archive, or the       *)
(* encrypted archive; archive is the plaintext archive of an encrypted run.*)
(***************************************************************************)
EXTENDS S3Publication

CONSTANT Kinds   \* the outputs a run may be configured for

ASSUME OutputAssumption ==
  /\ Kinds \subseteq {"directory", "archive", "age", "s3", "s3_age"}
  /\ Procs # {}

\* One process publishes at a time.
Publisher == CHOOSE p \in Procs : TRUE

VARIABLES
  kind,     \* the configured output, bound to the run by its checkpoint
  ws,       \* the workspace: "intact", "partial" (half removed) or "absent"
  sealed,   \* the pack the workspace would make
  hasCkpt,  \* the checkpoint file exists
  archive,  \* the plaintext archive of an encrypted run
  resumed,  \* this process resumes another
  pc,       \* where publishBackupOutput stands
  outcome   \* how the last process ended

Remote == kind \in {"s3", "s3_age"}
Encrypted == kind \in {"age", "s3_age"}
ArchiveRequired == kind # "directory"

outputVars == <<kind, ws, sealed, hasCkpt, archive, resumed, pc, outcome>>
allVars == <<s3Vars, outputVars>>
localVars == <<kind, ws, sealed, hasCkpt, archive>>

PCs == {"publish", "clear", "pack", "encrypt", "drop_archive", "error",
        "output", "upload", "cleanup", "down"}

OutputTypeOK ==
  /\ S3TypeOK
  /\ kind \in Kinds
  /\ ws \in {"intact", "partial", "absent"}
  /\ sealed \in Packs
  /\ hasCkpt \in BOOLEAN
  /\ archive \in Packs \cup {None}
  /\ resumed \in BOOLEAN
  /\ pc \in PCs
  /\ outcome \in {"none", "completed", "failed", "discarded", "refused"}

-----------------------------------------------------------------------------

\* The process ends; publishS3Backup's memory goes with it.
Down(o) ==
  /\ pc' = "down" /\ outcome' = o
  /\ at' = [p \in Procs |-> "idle"] /\ dig' = [p \in Procs |-> None]
  /\ up' = [p \in Procs |-> None]
  /\ got' = [p \in Procs |-> {}] /\ saved' = [p \in Procs |-> {}]
  /\ UNCHANGED resumed

Continue(stage) ==
  pc' = stage /\ UNCHANGED <<procVars, resumed, outcome>>

\* A plain directory is its own backup.
KeepDirectory ==
  /\ pc = "publish" /\ ~ArchiveRequired
  /\ hasCkpt' = FALSE
  /\ Down("completed")
  /\ UNCHANGED <<transport, state, remoteVars, faults, kind, ws, sealed, archive>>

\* Only an upload that had begun makes a resumed run keep its transport.
ReusesByArchive ==   \* mutant: it looks for the archive, not for the transport
  Remote /\ resumed /\ archive # None /\ state # NoState
Reuses == Remote /\ resumed /\ transport # None /\ state # NoState

ChooseTransport ==
  /\ pc = "publish" /\ ArchiveRequired
  /\ Continue(CASE Reuses -> "upload"
                [] ~Reuses /\ Remote /\ resumed -> "clear"
                [] OTHER -> "pack")
  /\ UNCHANGED <<transport, state, remoteVars, faults, localVars>>

ClearArchiveOnly ==   \* mutant: the encrypted file of the last process stays
  /\ pc = "clear"
  /\ archive' = None
  /\ Continue("pack")
  /\ UNCHANGED <<transport, state, remoteVars, faults, kind, ws, sealed, hasCkpt>>
ClearTransport ==
  /\ pc = "clear"
  /\ transport' = None /\ archive' = None
  /\ Continue("pack")
  /\ UNCHANGED <<state, remoteVars, faults, kind, ws, sealed, hasCkpt>>

\* packBundle verifies the bundle and links the archive into place: it never
\* replaces one that is there.
PackReplacing ==   \* mutant: rename instead of link
  /\ pc = "pack"
  /\ IF Encrypted THEN archive' = sealed /\ UNCHANGED transport
                  ELSE transport' = sealed /\ UNCHANGED archive
  /\ Continue(IF Encrypted THEN "encrypt" ELSE "output")
  /\ UNCHANGED <<state, remoteVars, faults, kind, ws, sealed, hasCkpt>>
Pack ==
  /\ pc = "pack"
  /\ \/ /\ Encrypted /\ archive = None
        /\ archive' = sealed /\ UNCHANGED transport
        /\ Continue("encrypt")
     \/ /\ ~Encrypted /\ transport = None
        /\ transport' = sealed /\ UNCHANGED archive
        /\ Continue("output")
     \/ /\ IF Encrypted THEN archive # None ELSE transport # None   \* EEXIST
        /\ UNCHANGED <<transport, archive>>
        /\ Continue("error")
  /\ UNCHANGED <<state, remoteVars, faults, kind, ws, sealed, hasCkpt>>

\* encryptArchiveWithAge: age writes a temporary, linked into place.
Encrypt ==
  /\ pc = "encrypt"
  /\ \/ /\ transport = None
        /\ transport' = sealed
        /\ Continue("drop_archive")
     \/ /\ transport # None                                         \* EEXIST
        /\ UNCHANGED transport
        /\ Continue("error")
  /\ UNCHANGED <<state, remoteVars, faults, localVars>>

DropArchiveSkipped ==   \* mutant: the plaintext archive is left to the cleanup
  /\ pc = "drop_archive"
  /\ Continue("output")
  /\ UNCHANGED <<transport, state, remoteVars, faults, localVars>>
DropArchive ==
  /\ pc = "drop_archive"
  /\ archive' = None
  /\ Continue("output")
  /\ UNCHANGED <<transport, state, remoteVars, faults, kind, ws, sealed, hasCkpt>>

\* Packing, encrypting or removing the archive throws.
PackingFails ==
  /\ pc \in {"pack", "encrypt", "drop_archive"} /\ Fault
  /\ Continue("error")
  /\ UNCHANGED <<transport, state, remoteVars, localVars>>

\* Removals that run side by side and may fail one by one.
Removed(full) ==
  /\ ws' \in (IF full THEN {"absent"} ELSE {ws, "partial", "absent"})
  /\ ws = "absent" => ws' = "absent"
  /\ hasCkpt' \in (IF full THEN {FALSE} ELSE {hasCkpt, FALSE})

\* The catch block: a bucket run drops the plaintext archive, a local
\* encrypted run drops everything, a local archive run nothing.
HandleError ==
  /\ pc = "error"
  /\ \/ /\ Remote
        /\ \/ archive' = None /\ (Encrypted => UNCHANGED transport)
                              /\ (~Encrypted => transport' = None) /\ UNCHANGED faults
           \/ UNCHANGED <<archive, transport>> /\ Fault
        /\ UNCHANGED <<ws, hasCkpt>>
     \/ /\ ~Remote /\ Encrypted
        /\ \/ Removed(TRUE) /\ archive' = None /\ transport' = None /\ UNCHANGED faults
           \/ /\ Removed(FALSE) /\ Fault
              /\ archive' \in {archive, None} /\ transport' \in {transport, None}
     \/ /\ ~Remote /\ ~Encrypted
        /\ UNCHANGED <<archive, transport, ws, hasCkpt, faults>>
  /\ Down(IF kind = "age" THEN "discarded" ELSE "failed")
  /\ UNCHANGED <<state, remoteVars, kind, sealed>>

HandOverEarly ==   \* mutant: the workspace goes as soon as there is an archive
  /\ pc = "output" /\ Remote
  /\ ws' = "absent"
  /\ Continue("upload")
  /\ UNCHANGED <<transport, state, remoteVars, faults, kind, sealed, hasCkpt, archive>>
HandOver ==
  /\ pc = "output"
  /\ IF Remote \/ Encrypted
     THEN Continue(IF Remote THEN "upload" ELSE "cleanup") /\ UNCHANGED hasCkpt
     ELSE hasCkpt' = FALSE /\ Down("completed")
  /\ UNCHANGED <<transport, state, remoteVars, faults, kind, ws, sealed, archive>>

\* publishS3Backup
Upload ==
  /\ pc = "upload"
  /\ \/ Publishing(Publisher) /\ UNCHANGED outputVars
     \/ /\ at[Publisher] = "returned" /\ Continue("cleanup")
        /\ UNCHANGED <<transport, state, remoteVars, faults, localVars>>
     \/ /\ at[Publisher] = "failed" /\ Down("failed")
        /\ UNCHANGED <<transport, state, remoteVars, faults, localVars>>

\* cleanupStrict
CleanUp ==
  /\ pc = "cleanup"
  /\ Removed(TRUE)
  /\ IF Remote THEN archive' = None /\ transport' = None /\ state' = NoState
               ELSE UNCHANGED <<archive, transport, state>>
  /\ Down("completed")
  /\ UNCHANGED <<remoteVars, faults, kind, sealed>>

CleanUpFails ==
  /\ pc = "cleanup" /\ Fault
  /\ Removed(FALSE)
  /\ IF Remote THEN /\ archive' \in {archive, None}
                    /\ transport' \in {transport, None}
                    /\ state' \in {state, NoState}
               ELSE UNCHANGED <<archive, transport, state>>
  /\ Down("failed")
  /\ UNCHANGED <<remoteVars, kind, sealed>>

\* The process dies.  What it was removing or writing is at one of the steps
\* the actions above stop at.
Crash ==
  /\ pc # "down" /\ Fault
  /\ Down("failed")
  /\ UNCHANGED <<transport, state, remoteVars, localVars>>

Publish ==
  \/ KeepDirectory \/ ChooseTransport \/ ClearTransport
  \/ Pack \/ Encrypt \/ DropArchive \/ PackingFails \/ HandleError
  \/ HandOver \/ Upload \/ CleanUp \/ CleanUpFails

-----------------------------------------------------------------------------

\* The operator resumes: executeBackup finds every step completed and seals
\* the workspace anew.  Beyond the bound on packs all packs are the last one.
Resume ==
  /\ pc = "down" /\ hasCkpt /\ ws = "intact"
  /\ sealed' = IF sealed < MaxPacks THEN sealed + 1 ELSE sealed
  /\ resumed' = TRUE /\ pc' = "publish"
  /\ UNCHANGED <<s3Vars, kind, ws, hasCkpt, archive, outcome>>

ResumeRefused ==
  /\ pc = "down" /\ hasCkpt /\ ws # "intact"
  /\ outcome' = "refused"
  /\ UNCHANGED <<s3Vars, localVars, resumed, pc>>

\* Between processes someone makes room by deleting the transport.
TransportDeleted ==
  /\ pc = "down" /\ Remote /\ transport # None /\ Fault
  /\ transport' = None
  /\ UNCHANGED <<state, remoteVars, procVars, outputVars>>

Expires == pc # "down" /\ UploadExpires /\ UNCHANGED outputVars

OutputNext ==
  Publish \/ Crash \/ Resume \/ ResumeRefused \/ TransportDeleted \/ Expires

OutputInit ==
  /\ transport = None /\ state = NoState
  /\ uploads = [u \in UploadIds |->
                  [status |-> "unused", meta |-> None, bytes |-> NoBytes]]
  /\ object = NoObject /\ marker = None /\ faults = 0
  /\ at = [p \in Procs |-> "idle"] /\ dig = [p \in Procs |-> None]
  /\ up = [p \in Procs |-> None]
  /\ got = [p \in Procs |-> {}] /\ saved = [p \in Procs |-> {}]
  /\ kind \in Kinds
  /\ ws = "intact" /\ sealed = 1 /\ hasCkpt = TRUE /\ archive = None
  /\ resumed = FALSE /\ pc = "publish" /\ outcome = "none"

OutputSpec == OutputInit /\ [][OutputNext]_allVars

\* The process goes on; the operator resumes as long as there is something to.
OutputFairSpec == OutputSpec /\ WF_allVars(Publish) /\ WF_allVars(Resume)

-----------------------------------------------------------------------------

\* What a user can restore from: the committed object, the transport, or
\* the sealed directory.
Output ==
  IF Remote THEN IF Materializes THEN marker ELSE None
  ELSE IF ArchiveRequired THEN transport
  ELSE IF ws = "intact" THEN sealed ELSE None
HasOutput == Output # None
Resumable == hasCkpt /\ ws = "intact"

\* The error handler of a local encrypted run removes all there is.
GaveUp == kind = "age" /\ outcome \in {"discarded", "refused"}

(* The captured data is never lost half way: until the output is there, the *)
(* checkpoint and the workspace it needs are, unless the error handler of a *)
(* local encrypted run has removed the lot (publishBackupOutput).           *)
NothingLostHalfWay == Resumable \/ HasOutput \/ GaveUp

(* A run reports success only when its output is there and can be read, and *)
(* its plaintext staging, its checkpoint and its upload state are gone,     *)
(* also when another process had failed in the middle before                *)
(* (publishBackupOutput, cleanupStrict).                                    *)
SuccessIsComplete ==
  outcome = "completed" =>
    /\ HasOutput /\ ~hasCkpt /\ archive = None /\ state = NoState
    /\ Remote \/ Encrypted => ws = "absent"
    /\ Remote => transport = None

(* A transport that an interrupted upload had begun to send is not packed   *)
(* again while it is there: the parts in the bucket stay useful             *)
(* (publishBackupOutput, reuseRemoteTransport).                             *)
BegunUploadKeepsTransport ==
  [][state # NoState /\ transport # None /\ transport' # transport
       => pc \in {"cleanup", "down"}]_allVars

(* An operator who keeps resuming gets the output after finitely many       *)
(* failures, unless a local encrypted run has given up, or someone deleted  *)
(* the transport of an object that only lacked its marker                   *)
(* (publishBackupOutput, publishS3Backup).                                  *)
TransportLost == object # NoObject /\ transport # object.meta
OutputIsReached == <>(HasOutput \/ GaveUp \/ TransportLost)

(* Once an archive or a committed object exists, nothing the program does   *)
(* replaces or removes it: not the packing of a resumed run, not its error  *)
(* handler, not a cleanup.  Local encrypted runs are the exception          *)
(* (publishBackupOutput).                                                   *)
FinishedOutputSurvives ==
  [][Output # None /\ kind \notin {"directory", "age"} => Output' = Output]_allVars

\* The publishing is over, or about to be, without an output.
Stopping ==
  \/ pc = "error" \/ at[Publisher] = "failed"
  \/ pc = "down" /\ outcome # "completed"

(* No process gives up for nothing, whatever the processes before it left   *)
(* behind: packing, uploading and reading back only fail through a call     *)
(* that fails, an upload the bucket drops while it is being used, a lost    *)
(* transport whose object an earlier process has completed, or, in a local  *)
(* run, a file of an earlier process in the place of the archive            *)
(* (publishBackupOutput, publishS3Backup).                                  *)
OutputStopsForAReason ==
  [][~Stopping /\ Stopping' =>
       \/ faults' > faults
       \/ TransportLost /\ up[Publisher] = None
       \/ /\ at[Publisher] \in {"upload", "complete"}
          /\ uploads[up[Publisher]].status = "gone"
       \/ ~Remote /\ resumed /\ (transport # None \/ archive # None)]_allVars

(* "a hard process termination can still leave the protected resumable      *)
(* workspace/checkpoint, which is handled by the backup resume model"       *)
(* (docs/07-cli-and-ux.md:93): resuming a local encrypted run keeps the     *)
(* encrypted file the last process had finished.                            *)
ResumeKeepsEncryptedFile ==
  [][kind = "age" /\ Output # None => Output' = Output]_allVars

=============================================================================

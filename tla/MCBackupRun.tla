---------------------------- MODULE MCBackupRun -----------------------------
(* A small instance of BackupRun: the "database" step writes a data dump    *)
(* and the dump of the Storage metadata, the "file-storage" step a catalog  *)
(* and, when the bucket holds one, an object; it lists the metadata dump as *)
(* its own artifact.  In a best-effort run it writes its files in branches  *)
(* side by side, as the specialized storage step does.                      *)
EXTENDS BackupRun

MCArtifacts == {"data", "metadata", "catalog", "object"}
MCOwns == <<{"data", "metadata"}, {"catalog", "object"}>>
MCSurface == [a \in MCArtifacts |-> IF a = "data" THEN 1 ELSE 2]
MCMandatory == {"data", "metadata", "catalog"}
Verified == [mode |-> "verified", adapted |-> {1, 2}, cleaned |-> {1, 2},
             parallel |-> {}]
BestEffort == [mode |-> "best-effort", adapted |-> {2}, cleaned |-> {2},
               parallel |-> {2}]
MCShared == <<{}, {"metadata"}>>

AllRuns == {Verified, BestEffort}

=============================================================================

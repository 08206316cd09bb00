-------------------------- MODULE MCConsistentCopy --------------------------
(* A small instance of ConsistentCopy: the "database" step writes a data    *)
(* dump and the dump of the storage schema's metadata, the "file-storage"   *)
(* step a catalog and one object.  Both metadata and catalog reflect the    *)
(* Storage surface.  The second step also stands for one that writes its    *)
(* files in branches side by side, as specialized storage does.             *)
EXTENDS ConsistentCopy

MCArtifacts == {"data", "metadata", "catalog", "object"}
MCOwns == <<{"data", "metadata"}, {"catalog", "object"}>>
MCSurface == [a \in MCArtifacts |-> IF a = "data" THEN 1 ELSE 2]
MCMandatory == {"data", "metadata", "catalog"}
MCConfigs ==
  {c \in [mode : {"verified", "best-effort", "quiesced"}, adapted : {{1, 2}},
          cleaned : {{2}, {1, 2}}, parallel : {{}, {2}}] :
     c.parallel # {} => c.cleaned = {1, 2} /\ c.mode # "quiesced"}

=============================================================================

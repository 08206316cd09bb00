--------------------------- MODULE MCRestorePlan ----------------------------
(* RestorePlan over the tables of the repository.  The components of Varied *)
(* - the trunk of the database, the Vault branch, the Storage branch and    *)
(* the network branch - may have any status at the source, the others are   *)
(* backed up.                                                               *)
EXTENDS RestorePlan, RestoreTables

Varied == {"database.extensions", "database.data", "database.vault_root_key",
           "storage.service_config", "rest.postgrest_config"}
Found == {"backed_up", "not_identical", "not_configured", "failed"}

MCInputs ==
  {[source |-> [c \in AllComponents |-> IF c \in Varied THEN v[c] ELSE "backed_up"],
    allowBillable |-> b] : v \in [Varied -> Found], b \in BOOLEAN}

\* The depth of a component under its dependencies.
MCDepth ==
  LET depth[c \in AllComponents] ==
        IF DependencyTable[c] = {} THEN 0
        ELSE 1 + (CHOOSE n \in {depth[d] : d \in DependencyTable[c]} :
                    \A d \in DependencyTable[c] : depth[d] <= n)
  IN depth
=============================================================================

-------------------------- MODULE MCManagementClient --------------------------
(* Two requests of one project side by side, two attempts each.           *)
EXTENDS ManagementClient
OneProject == [r \in {"r1", "r2"} |-> "project"]
=============================================================================

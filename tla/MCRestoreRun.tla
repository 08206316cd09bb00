---------------------------- MODULE MCRestoreRun ----------------------------
(* Two actions, the second depending on the first: one of the database's or *)
(* the Storage's handlers, then any handler, each with two units.           *)
EXTENDS RestoreRun

TwoActions == <<"base", "top">>
TopNeedsBase == [a \in {"base", "top"} |-> IF a = "top" THEN {"base"} ELSE {}]
TwoUnits == {1, 2}
AllRuns ==
  {[policy |-> p, kind |-> [a \in {"base", "top"} |-> IF a = "base" THEN b ELSE t]] :
     p \in {"fail", "replace"}, b \in {"sql", "items"}, t \in Kinds}
(* The custom API keys, after a Storage component.                          *)
KeyRuns == {r \in AllRuns : r.kind["base"] = "items" /\ r.kind["top"] = "keys"}
=============================================================================

---------------------------- MODULE RestorePlan -----------------------------
(***************************************************************************)
(* buildRestorePlan (core/restore/plan.ts): every component of the coverage *)
(* registry gets an action; what the source and the options allow decides   *)
(* its first status, platform limits spread to the planned actions that     *)
(* depend on them, and the actions are put in order of their dependencies.  *)
(* validatePlanForExecution (core/restore/executor.ts) then accepts the     *)
(* plan or not, with the handlers main.ts assembles for it.                 *)
(*                                                                          *)
(* The position of an action is the round it was ready in, then its phase,  *)
(* then its name.                                                           *)
(***************************************************************************)
EXTENDS Naturals, Sequences

CONSTANTS
  Registry,         \* the components, in the order of the registry
  Deps,             \* DEPENDENCIES, for every component
  Phase,            \* phase
  Billable,         \* BILLABLE
  InspectionOnly,   \* INSPECTION_ONLY
  External,         \* the components whose name starts with "external."
  Automatic,        \* AUTOMATIC_RESTORE_COMPONENTS
  NeedsDatabase,    \* DATABASE_CREDENTIAL_RESTORE_COMPONENTS
  NeedsManagement,  \* MANAGEMENT_CREDENTIAL_RESTORE_COMPONENTS
  NeedsStorageKey,  \* STORAGE_CREDENTIAL_RESTORE_COMPONENTS
  Depth,            \* a rank that shows the dependencies to have no cycle
  Inputs            \* the source coverage and options a plan may be asked for

Indices == DOMAIN Registry
Components == {Registry[i] : i \in Indices}

SourceStatuses == {"backed_up", "not_identical", "not_configured",
                   "not_applicable", "not_exportable", "failed"}
Statuses == {"planned", "skipped", "blocked_platform_limit",
             "blocked_source_failure", "blocked_by_policy"}

ASSUME PlanAssumption ==
  /\ Registry \in Seq(Components)
  /\ Deps \in [Components -> SUBSET Components]
  /\ Phase \in [Components -> Nat]
  /\ Inputs \subseteq [source : [Components -> SourceStatuses],
                       allowBillable : BOOLEAN]

ASSUME AcyclicAssumption ==
  /\ Depth \in [Components -> Nat]
  /\ \A c \in Components : \A d \in Deps[c] : Depth[d] < Depth[c]

\* What main.ts builds handlers from is what every automatic component needs.
ASSUME CredentialAssumption ==
  /\ Automatic \subseteq NeedsDatabase \cup NeedsManagement
  /\ NeedsStorageKey \subseteq NeedsManagement

VARIABLES
  input,    \* what the plan is built from
  status,   \* the status of every action
  stage,    \* "assign", "propagate", "order", "built" or "cycle"
  at,       \* the action propagatePlatformLimits looks at next
  changed,  \* this sweep has changed an action
  round     \* the round an action was put in order, 0 when it was not

vars == <<input, status, stage, at, changed, round>>

-----------------------------------------------------------------------------

\* What the source, the kind of component and the options make of it.
FirstStatus(c) ==
  LET source == input.source[c] IN
  CASE source \in {"not_configured", "not_applicable"} -> "skipped"
    [] source = "not_exportable" -> "blocked_platform_limit"
    [] source = "failed" -> "blocked_source_failure"
    [] source = "not_identical" -> "blocked_platform_limit"
    [] source = "backed_up" /\ c \in InspectionOnly -> "skipped"
    [] source = "backed_up" /\ c \in External \ InspectionOnly -> "blocked_platform_limit"
    [] source = "backed_up" /\ c \in Billable \ (InspectionOnly \cup External)
         /\ ~input.allowBillable -> "blocked_by_policy"
    [] OTHER -> IF c \in Automatic THEN "planned" ELSE "blocked_platform_limit"

Assign ==
  /\ stage = "assign"
  /\ status' = [c \in Components |-> FirstStatus(c)]
  /\ stage' = "propagate" /\ at' = 1 /\ changed' = FALSE
  /\ UNCHANGED <<input, round>>

\* Mutant: limits are taken over by skipped actions too.
LimitedUnplanned(c) ==
  /\ status[c] # "blocked_platform_limit"
  /\ \E d \in Deps[c] : status[d] = "blocked_platform_limit"

\* Mutant: only limits of the source are taken over, not those of a dependency.
LimitedAtSource(c) ==
  /\ status[c] = "planned"
  /\ \E d \in Deps[c] : FirstStatus(d) = "blocked_platform_limit"

Limited(c) ==
  /\ status[c] = "planned"
  /\ \E d \in Deps[c] : status[d] = "blocked_platform_limit"

\* One pass of the inner loop: the change is seen by the actions after it.
Visit ==
  /\ stage = "propagate" /\ at \in Indices
  /\ LET c == Registry[at] IN
     IF Limited(c)
       THEN status' = [status EXCEPT ![c] = "blocked_platform_limit"] /\ changed' = TRUE
       ELSE UNCHANGED <<status, changed>>
  /\ at' = at + 1
  /\ UNCHANGED <<input, stage, round>>

SweepAgain ==
  /\ stage = "propagate" /\ at \notin Indices /\ changed
  /\ at' = 1 /\ changed' = FALSE
  /\ UNCHANGED <<input, status, stage, round>>

SweepDone ==
  /\ stage = "propagate" /\ at \notin Indices /\ ~changed
  /\ stage' = "order" /\ at' = 1
  /\ UNCHANGED <<input, status, changed, round>>

Placed(c) == round[c] > 0
\* Mutant: an action is ready with its first dependency.
ReadyEarly ==
  {c \in Components : ~Placed(c) /\ (Deps[c] = {} \/ \E d \in Deps[c] : Placed(d))}
Ready == {c \in Components : ~Placed(c) /\ \A d \in Deps[c] : Placed(d)}

\* One batch; actions made ready by it wait for the next.
PlaceBatch ==
  /\ stage = "order" /\ Ready # {}
  /\ round' = [c \in Components |-> IF c \in Ready THEN at ELSE round[c]]
  /\ at' = at + 1
  /\ UNCHANGED <<input, status, stage, changed>>

Built ==
  /\ stage = "order" /\ Ready = {}
  /\ stage' = IF \A c \in Components : Placed(c) THEN "built" ELSE "cycle"
  /\ UNCHANGED <<input, status, at, changed, round>>

Next == Assign \/ Visit \/ SweepAgain \/ SweepDone \/ PlaceBatch \/ Built

Init ==
  /\ input \in Inputs
  /\ status = [c \in Components |-> "skipped"]
  /\ stage = "assign" /\ at = 1 /\ changed = FALSE
  /\ round = [c \in Components |-> 0]

Spec == Init /\ [][Next]_vars

-----------------------------------------------------------------------------

Blocked == \E c \in Components : status[c] \in {"blocked_by_policy", "blocked_source_failure"}

Planned == {c \in Components : status[c] = "planned"}

\* The handlers main.ts assembles: those whose credentials it looked up.
Handlers ==
  LET database == Planned \cap NeedsDatabase # {}
      management == Planned \cap NeedsManagement # {}
      storageKey == Planned \cap NeedsStorageKey # {} IN
  {c \in Automatic :
     /\ c \in NeedsDatabase => database
     /\ c \in NeedsManagement => management
     /\ c \in NeedsStorageKey => storageKey}

\* validatePlanForExecution and validateSuccessfulActionStatuses.
Accepted ==
  /\ \A c \in Planned :
       c \in Handlers /\ \A d \in Deps[c] : status[d] \in {"planned", "skipped"}
  /\ \A c \in Components : status[c] \notin {"blocked_by_policy", "blocked_source_failure"}

-----------------------------------------------------------------------------

PlanTypeOK ==
  /\ input.source \in [Components -> SourceStatuses] /\ input.allowBillable \in BOOLEAN
  /\ status \in [Components -> Statuses]
  /\ stage \in {"assign", "propagate", "order", "built", "cycle"}
  /\ at \in Nat \ {0}
  /\ changed \in BOOLEAN
  /\ round \in [Components -> Nat]

(* What the executor validates is what the planner builds: a plan that is   *)
(* not blocked is never refused before its first mutation, for a missing    *)
(* handler, a dependency that cannot run or a cycle (buildRestorePlan,      *)
(* validatePlanForExecution, main.ts restore).                              *)
ReadyPlanIsAccepted ==
  /\ stage # "cycle"
  /\ stage = "built" /\ ~Blocked => Accepted

(* An action comes after everything it depends on, so the executor never    *)
(* reaches an action before its dependencies (orderActionsByDependencies,   *)
(* dependenciesSatisfied).                                                  *)
DependenciesComeFirst ==
  stage = "built" => \A c \in Components : \A d \in Deps[c] : round[d] < round[c]

(* Propagation ends with exactly the closure, however the registry orders   *)
(* the components: every action is as the source has it, or it was planned  *)
(* and something it depends on is limited.  Limits do not pass through      *)
(* actions that are skipped or blocked for another reason; as dependencies  *)
(* have no cycle, one plan has this property (propagatePlatformLimits).     *)
LimitsReachTheirDependents ==
  stage = "built" =>
    \A c \in Components :
      status[c] = IF /\ FirstStatus(c) = "planned"
                     /\ \E d \in Deps[c] : status[d] = "blocked_platform_limit"
                    THEN "blocked_platform_limit"
                    ELSE FirstStatus(c)

=============================================================================

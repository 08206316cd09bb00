----------------------------- MODULE RestoreRun -----------------------------
(***************************************************************************)
(* executeRestore (core/restore/executor.ts) and the restore checkpoint     *)
(* (core/checkpoint/restore.ts) over the handlers of core/restore: the      *)
(* planned actions are applied one after the other, each journaled before   *)
(* its first effect and verified after its last.  A process fails or dies   *)
(* between any two effects; --resume takes its checkpoint up again.         *)
(*                                                                          *)
(* A handler puts the Units of its component on the target.  What counts is *)
(* which units are there (own), which are there under the backup's names    *)
(* but differ in what the handler compares (odd) or only in what it does    *)
(* not compare (alike), and whether the target also holds state that is not *)
(* the backup's (foreign): other rows, objects, a differing configuration.  *)
(* Actions that are not planned are left out: the executor skips them.      *)
(***************************************************************************)
EXTENDS Naturals, Sequences, FiniteSets

CONSTANTS
  Order,       \* the planned actions, in the order of the plan
  Needs,       \* dependsOn, for every action
  Units,       \* the units of a component: objects, keys, providers, rows
  First,       \* the unit that comes first, where units have an order
  Runs,        \* the plans: conflict policy and kind of handler per action
  MaxFaults,   \* how many calls fail and processes die
  MaxChanges   \* how often somebody else changes the target

Actions == {Order[i] : i \in DOMAIN Order}

(* The kinds of handlers, by what apply refuses and what it does:           *)
(*   sql         roles, schema and data                                     *)
(*   dedicated   auth.data                                                  *)
(*   rows        Cron, Queues, managed-schema customizations                *)
(*   rootkey     the Vault root key                                         *)
(*   catalog     Webhooks, publications                                     *)
(*   config      the control plane, legacy key state                        *)
(*   patch       Auth configuration                                         *)
(*   history     the migration history: its schema, then its rows           *)
(*   items       File and Vector Storage                                    *)
(*   functions   Edge Functions restored from their multipart bodies         *)
(*   sources     Edge Functions deployed from their source trees            *)
(*   extensions  extensions                                                 *)
(*   collection  SSO and third-party Auth                                   *)
(*   keys        API keys with custom names                                 *)
(*   check       File metadata: nothing is applied                          *)
Transactional == {"sql", "dedicated", "rows", "rootkey", "catalog", "config", "patch"}
EdgeKinds == {"functions", "sources"}
Kinds == Transactional \cup EdgeKinds \cup
           {"history", "items", "extensions", "collection", "keys", "check"}

ASSUME RunAssumption ==
  /\ Order \in Seq(Actions)
  /\ \A i, j \in DOMAIN Order : Order[i] = Order[j] => i = j
  /\ Needs \in [Actions -> SUBSET Actions]
  /\ First \in Units
  /\ Runs \subseteq [policy : {"fail", "replace"}, kind : [Actions -> Kinds]]
  /\ MaxFaults \in Nat /\ MaxChanges \in Nat

ASSUME UnitsAssumption == IsFiniteSet(Units)

\* RestorePlan's DependenciesComeFirst.
ASSUME OrderAssumption ==
  \A i \in DOMAIN Order : \A d \in Needs[Order[i]] : \E j \in 1..(i - 1) : d = Order[j]

\* The one action that only checks is on top of one that applies.
ASSUME CheckAssumption ==
  \A r \in Runs : \A a \in Actions :
    r.kind[a] = "check" => \A d \in Needs[a] : r.kind[d] # "check"

VARIABLES
  run,      \* the plan that is executed
  target,   \* what the target holds of every component
  mapped,   \* the protected rotation map of an action is written
  ckpt,     \* the checkpoint file: the status of every action, or NoCheckpoint
  next,     \* the position of the action the process works on
  pc,       \* where the process stands
  todo,     \* the effects apply still has to make
  resumed,  \* this process resumes another
  outcome,  \* how the last process ended
  faults, changes,
  fresh     \* the target held nothing the policy lets stand in the way, and
            \* was left alone

vars == <<run, target, mapped, ckpt, next, pc, todo, resumed, outcome, faults,
          changes, fresh>>
fileVars == <<target, mapped, ckpt>>

NoCheckpoint == [a \in Actions |-> "none"]
ActionStatuses == {"pending", "in_progress", "completed", "failed"}

\* todo: clear the foreign state, drop units, put units, in this order; or put
\* all of them in one transaction or request; and write the rotation map.
Effects == [clear : BOOLEAN, drop : SUBSET Units, put : SUBSET Units,
            whole : BOOLEAN, map : BOOLEAN]
Nothing == [clear |-> FALSE, drop |-> {}, put |-> {}, whole |-> FALSE, map |-> FALSE]
Whole == [Nothing EXCEPT !.whole = TRUE]

\* secrets: the Vault of the target holds secrets under the root key it has.
Held == [own : SUBSET Units, alike : SUBSET Units, odd : SUBSET Units,
         foreign : BOOLEAN, secrets : BOOLEAN]

current == Order[next]
Kind(a) == run.kind[a]

\* What a comparison takes for the backup's.  Of a function deployed from
\* source it looks at the metadata only.
Seen(a) == target[a].own \cup target[a].alike

\* The target holds exactly the backup's units.  API keys are looked up by
\* the identities in the rotation map; others do not matter.
Holds(a) ==
  /\ Seen(a) = Units
  /\ IF Kind(a) = "keys" THEN a \in mapped ELSE ~target[a].foreign

\* verify.  The File metadata is that of the objects it depends on.
Exact(a) == IF Kind(a) = "check" THEN \A d \in Needs[a] : Holds(d) ELSE Holds(a)

Empty(a) == Seen(a) \cup target[a].odd = {} /\ ~target[a].foreign

\* Publications and Webhooks are altered, functions deployed over where they
\* differ; elsewhere what differs counts as foreign.
Shaped(a, t) ==
  /\ Kind(a) \notin {"catalog"} \cup EdgeKinds => t.odd = {}
  /\ Kind(a) # "sources" => t.alike = {}
  /\ Kind(a) # "rootkey" => ~t.secrets

\* A configuration and a root key are always there: the backup's, or another.
\* Units that have an order are not there without the first.
Plausible(a, t) ==
  /\ Shaped(a, t)
  /\ t.own \cap t.alike = {} /\ (t.own \cup t.alike) \cap t.odd = {}
  /\ Kind(a) \in {"config", "patch", "rootkey"} => (t.foreign <=> t.own # Units)
  /\ Kind(a) = "rootkey" => t.own \in {{}, Units}
  /\ Kind(a) = "history" => (t.own # {} => First \in t.own)
  /\ Kind(a) = "check" => (t.own = {} /\ ~t.foreign)

-----------------------------------------------------------------------------

Fault == faults < MaxFaults /\ faults' = faults + 1

Down(o) == pc' = "down" /\ outcome' = o /\ todo' = Nothing /\ UNCHANGED <<next, resumed>>

Continue(stage) == pc' = stage /\ UNCHANGED <<next, resumed, outcome>>

Record(a, s) == ckpt' = [ckpt EXCEPT ![a] = s]

\* A new restore: the plan is in place, the checkpoint is written first.
Begin ==
  /\ pc = "down" /\ ckpt = NoCheckpoint
  /\ ckpt' = [a \in Actions |-> "pending"]
  /\ pc' = "next" /\ next' = 1 /\ resumed' = FALSE /\ outcome' = "none"
  /\ UNCHANGED <<run, target, mapped, todo, faults, changes, fresh>>

Resume ==
  /\ pc = "down" /\ ckpt # NoCheckpoint /\ outcome # "restored"
  /\ pc' = "next" /\ next' = 1 /\ resumed' = TRUE /\ outcome' = "none"
  /\ UNCHANGED <<run, fileVars, todo, faults, changes, fresh>>

\* Mutant: a resumed process trusts its checkpoint.
TrustCompleted ==
  /\ pc = "next" /\ next \in DOMAIN Order /\ ckpt[current] = "completed"
  /\ next' = next + 1
  /\ UNCHANGED <<run, fileVars, pc, resumed, outcome, todo, faults, changes, fresh>>

\* A completed action is verified again before it is trusted.
Reverify ==
  /\ pc = "next" /\ next \in DOMAIN Order /\ ckpt[current] = "completed"
  /\ IF Exact(current)
       THEN next' = next + 1 /\ UNCHANGED <<pc, resumed, outcome, todo>>
       ELSE Down("RESTORE_RESUME_PARITY_FAILED")
  /\ UNCHANGED <<run, fileVars, faults, changes, fresh>>

\* Mutant: an interrupted action is applied again without a look at the target.
NeverInterrupted == FALSE

Interrupted == resumed /\ ckpt[current] \in {"in_progress", "failed"}

\* An interrupted action that turns out to be applied is completed.
Recover ==
  /\ pc = "next" /\ next \in DOMAIN Order /\ Interrupted /\ Exact(current)
  /\ Record(current, "completed")
  /\ next' = next + 1
  /\ UNCHANGED <<run, target, mapped, pc, todo, resumed, outcome, faults, changes, fresh>>

\* Mutant: the action starts, its entry is left for later.
MarkLater ==
  /\ pc = "next" /\ next \in DOMAIN Order
  /\ ckpt[current] # "completed" /\ ~(Interrupted /\ Exact(current))
  /\ \A d \in Needs[current] : ckpt[d] = "completed"
  /\ Continue("observe")
  /\ UNCHANGED <<run, fileVars, todo, faults, changes, fresh>>

\* dependenciesSatisfied, and the in_progress entry that precedes every effect.
Mark ==
  /\ pc = "next" /\ next \in DOMAIN Order
  /\ ckpt[current] # "completed" /\ ~(Interrupted /\ Exact(current))
  /\ IF \A d \in Needs[current] : ckpt[d] = "completed"
       THEN Record(current, "in_progress") /\ Continue("observe") /\ UNCHANGED todo
       ELSE Down("RESTORE_DEPENDENCY_UNSATISFIED") /\ UNCHANGED ckpt
  /\ UNCHANGED <<run, target, mapped, faults, changes, fresh>>

-----------------------------------------------------------------------------

Strict == run.policy = "fail"

\* Functions the backup does not have, or has otherwise.
Differs(a) == target[a].foreign \/ target[a].odd # {}

\* What apply refuses before it mutates anything.
RowsConflict(a) == Kind(a) = "rows" /\ ~Exact(a) /\ ~Empty(a)
RootKeyConflict(a) == Kind(a) = "rootkey" /\ ~Exact(a) /\ target[a].secrets
HistoryMustBeEmpty(a) ==   \* mutant: part of the history is a conflict as well
  Kind(a) = "history" /\ ~Exact(a) /\ ~Empty(a)
HistoryConflict(a) == Kind(a) = "history" /\ target[a].foreign
ExtensionsConflict(a) == Kind(a) = "extensions" /\ target[a].foreign
CatalogConflict(a) == Kind(a) = "catalog" /\ Strict /\ target[a].foreign
ItemsConflict(a) == Kind(a) = "items" /\ Strict /\ target[a].foreign
ConfigConflict(a) == Kind(a) = "config" /\ Strict /\ ~Exact(a)
FunctionsConflict(a) == Kind(a) = "functions" /\ Strict /\ Differs(a)
SourcesConflict(a) == Kind(a) = "sources" /\ Strict /\ Differs(a)
CollectionConflict(a) == Kind(a) = "collection" /\ Strict /\ ~Exact(a) /\ ~Empty(a)
KeysConflict(a) == Kind(a) = "keys" /\ target[a].own # {}

\* Mutant: handlers that can replace what they find do so under any policy.
ConflictOfRows(a) ==
  \/ RowsConflict(a) \/ RootKeyConflict(a) \/ HistoryConflict(a)
  \/ ExtensionsConflict(a) \/ KeysConflict(a)

Conflict(a) ==
  \/ RowsConflict(a) \/ RootKeyConflict(a) \/ HistoryConflict(a) \/ ExtensionsConflict(a)
  \/ CatalogConflict(a) \/ ItemsConflict(a) \/ ConfigConflict(a)
  \/ FunctionsConflict(a) \/ SourcesConflict(a)
  \/ CollectionConflict(a) \/ KeysConflict(a)

\* What apply sets out to do.  Only the handlers of roles, schema and data do
\* not look at the target first.
Work(a) ==
  LET missing == Units \ Seen(a) IN
  IF Kind(a) = "check" \/ (Exact(a) /\ Kind(a) # "sql") THEN Nothing
  ELSE CASE Kind(a) \in Transactional -> Whole
         [] Kind(a) \in {"history", "extensions"} -> [Nothing EXCEPT !.put = missing]
         [] Kind(a) \in {"items"} \cup EdgeKinds ->
              [Nothing EXCEPT !.clear = target[a].foreign, !.put = missing]
         [] Kind(a) = "collection" ->
              [Nothing EXCEPT !.clear = target[a].foreign, !.drop = target[a].own,
                              !.put = Units]
         [] Kind(a) = "keys" -> [Nothing EXCEPT !.put = Units, !.map = TRUE]

Observe ==
  /\ pc = "observe"
  /\ IF Conflict(current)
       THEN Continue("conflict") /\ UNCHANGED todo
       ELSE Continue("mutate") /\ todo' = Work(current)
  /\ UNCHANGED <<run, fileVars, faults, changes, fresh>>

\* apply throws before its first effect: an artifact is not what its index
\* says, the CLI that deploys is missing, the target cannot be listed.
ObserveFails ==
  /\ pc = "observe" /\ Fault
  /\ Continue("failed")
  /\ UNCHANGED <<run, fileVars, todo, changes, fresh>>

\* psql onto a component that is not empty stops at the first clash and rolls
\* back, or adds to what is there.
Mixes == Kind(current) \in {"sql", "dedicated"} /\ ~Empty(current)

Ordered == Kind(current) \in {"history", "keys"}

\* What a bucket or an index holds belongs to actions that need it: objects to
\* their buckets, indexes to theirs, vectors to their indexes.
Inside(a) ==
  {b \in Actions :
     /\ Kind(a) = "items" /\ Kind(b) = "items"
     /\ \/ a \in Needs[b]
        \/ \E c \in Needs[b] : Kind(c) = "items" /\ a \in Needs[c]}

\* What may be left of it: a bucket that is not the backup's goes with all it
\* holds, an index that differs with vectors the backup has as well.
Remains(b) ==
  {[target[b] EXCEPT !.own = left.own, !.foreign = left.foreign] :
     left \in [own : SUBSET target[b].own, foreign : {FALSE, target[b].foreign}]}

Sweep(cleared) ==
  \E rest \in [Inside(current) -> UNION {Remains(b) : b \in Inside(current)}] :
    /\ \A b \in Inside(current) : rest[b] \in Remains(b)
    /\ target' = [a \in Actions |->
                    IF a \in Inside(current) THEN rest[a]
                    ELSE IF a \in cleared THEN [target[a] EXCEPT !.foreign = FALSE]
                    ELSE target[a]]

\* Remove what is not the backup's, or is not as the backup has it.
ClearForeign ==
  /\ todo.clear
  /\ todo' = [todo EXCEPT !.clear = FALSE]
  /\ Sweep({current})
  /\ UNCHANGED mapped

\* A bucket is emptied, but not removed any more.
EmptyOnly == todo.clear /\ Sweep({}) /\ UNCHANGED <<todo, mapped>>

DropUnit(u) ==
  /\ ~todo.clear /\ u \in todo.drop
  /\ todo' = [todo EXCEPT !.drop = @ \ {u}]
  /\ target' = [target EXCEPT ![current].own = @ \ {u}]
  /\ UNCHANGED mapped

\* One upload, statement or request; uploads finish in any order.
PutUnit(u) ==
  /\ Kind(current) \notin EdgeKinds
  /\ ~todo.clear /\ todo.drop = {} /\ u \in todo.put
  /\ (Ordered /\ First \in todo.put) => u = First
  /\ todo' = [todo EXCEPT !.put = @ \ {u}]
  /\ target' = [target EXCEPT ![current].own = @ \cup {u}]
  /\ UNCHANGED mapped

\* A deployment takes the place of what is there under its name.
Deploy(u) ==
  /\ Kind(current) \in EdgeKinds
  /\ ~todo.clear /\ u \in todo.put
  /\ todo' = [todo EXCEPT !.put = @ \ {u}]
  /\ target' = [target EXCEPT ![current] =
                  [own |-> @.own \cup {u}, alike |-> @.alike \ {u}, odd |-> @.odd \ {u},
                   foreign |-> @.foreign, secrets |-> @.secrets]]
  /\ UNCHANGED mapped

\* One transaction, or one request.
PutWhole ==
  /\ todo.whole
  /\ todo' = [todo EXCEPT !.whole = FALSE]
  /\ target' = [target EXCEPT ![current] = [own |-> Units, alike |-> {}, odd |-> {},
                                            foreign |-> Mixes, secrets |-> @.secrets]]
  /\ UNCHANGED mapped

WriteMap ==
  /\ todo.map /\ todo.put = {}
  /\ todo' = [todo EXCEPT !.map = FALSE]
  /\ mapped' = mapped \cup {current}
  /\ UNCHANGED target

Effect ==
  \/ ClearForeign
  \/ \E u \in Units : DropUnit(u) \/ PutUnit(u) \/ Deploy(u)
  \/ PutWhole
  \/ WriteMap

Mutate ==
  /\ pc = "mutate" /\ todo # Nothing
  /\ Effect
  /\ UNCHANGED <<run, ckpt, next, pc, resumed, outcome, faults, changes, fresh>>

\* A call fails before its effect, or its effect is made and the answer lost.
MutateFails ==
  /\ pc = "mutate" /\ todo # Nothing
  /\ Fault
  /\ Effect \/ EmptyOnly \/ UNCHANGED <<target, mapped, todo>>
  /\ Continue("failed")
  /\ UNCHANGED <<run, ckpt, changes, fresh>>

\* psql rolls back over state it clashes with.
Clash ==
  /\ pc = "mutate" /\ todo.whole /\ Mixes
  /\ Continue("failed")
  /\ UNCHANGED <<run, fileVars, todo, faults, changes, fresh>>

\* Mutant: an apply that returns is taken for a success.
VerifyNothing ==
  /\ pc = "mutate" /\ todo = Nothing
  /\ Continue("complete")
  /\ UNCHANGED <<run, fileVars, todo, faults, changes, fresh>>

Verify ==
  /\ pc = "mutate" /\ todo = Nothing
  /\ Continue(IF Exact(current) THEN "complete" ELSE "failed")
  /\ UNCHANGED <<run, fileVars, todo, faults, changes, fresh>>

Complete ==
  /\ pc = "complete"
  /\ Record(current, "completed")
  /\ pc' = "next" /\ next' = next + 1
  /\ UNCHANGED <<run, target, mapped, todo, resumed, outcome, faults, changes, fresh>>

\* The entry cannot be written; the failure cannot be recorded over it either.
CompleteFails ==
  /\ pc = "complete" /\ Fault
  /\ Down("RESTORE_CHECKPOINT_INVALID")
  /\ UNCHANGED <<run, fileVars, changes, fresh>>

RecordFailure ==
  /\ pc \in {"failed", "conflict"}
  /\ Record(current, "failed")
  /\ Down(pc)
  /\ UNCHANGED <<run, target, mapped, faults, changes, fresh>>

\* actionEvidence: every planned action is completed, and verified by this process.
Finish ==
  /\ pc = "next" /\ next \notin DOMAIN Order
  /\ Down("restored")
  /\ UNCHANGED <<run, fileVars, faults, changes, fresh>>

\* The process is killed, or a read or a checkpoint write outside apply throws.
Crash ==
  /\ pc # "down" /\ Fault
  /\ Down("crashed")
  /\ UNCHANGED <<run, fileVars, changes, fresh>>

\* Somebody else changes the target while no restore is running.
Change ==
  /\ pc = "down" /\ changes < MaxChanges
  /\ changes' = changes + 1 /\ fresh' = FALSE
  /\ \E a \in Actions, t \in Held :
       Plausible(a, t) /\ target' = [target EXCEPT ![a] = t]
  /\ UNCHANGED <<run, mapped, ckpt, next, pc, todo, resumed, outcome, faults>>

Process ==
  \/ Reverify \/ Recover \/ Mark \/ Observe \/ Mutate \/ Clash \/ Verify
  \/ Complete \/ RecordFailure \/ Finish

Next ==
  Begin \/ Resume \/ Process \/ ObserveFails \/ MutateFails \/ CompleteFails \/ Crash \/ Change

\* What the policy "replace" replaces, where it differs visibly.
Replaceable == {"catalog", "config", "patch", "items", "collection"} \cup EdgeKinds

Init ==
  /\ run \in Runs
  /\ target \in [Actions -> Held]
  /\ \A a \in Actions : Plausible(a, target[a])
  /\ mapped = {}
  /\ ckpt = NoCheckpoint
  /\ next = 1 /\ pc = "down" /\ todo = Nothing /\ resumed = FALSE
  /\ outcome = "none" /\ faults = 0 /\ changes = 0
  /\ fresh = \A a \in Actions :
       \/ Empty(a)
       \/ /\ Kind(a) \in Replaceable
          /\ target[a].alike = {}
          /\ run.policy = "replace"
       \/ Kind(a) \in {"config", "patch", "rootkey"} /\ Exact(a)
       \/ Kind(a) = "rootkey" /\ ~target[a].secrets

Spec == Init /\ [][Next]_vars

\* The executor is one async function, which keeps running; the operator keeps
\* resuming.
FairSpec == Spec /\ WF_vars(Process) /\ WF_vars(Begin \/ Resume)

-----------------------------------------------------------------------------

RestoreTypeOK ==
  /\ run \in Runs
  /\ target \in [Actions -> Held]
  /\ mapped \subseteq Actions
  /\ ckpt \in [Actions -> ActionStatuses] \cup {NoCheckpoint}
  /\ next \in 1..(Len(Order) + 1)
  /\ pc \in {"down", "next", "observe", "mutate", "complete", "failed", "conflict"}
  /\ todo \in Effects
  /\ resumed \in BOOLEAN /\ fresh \in BOOLEAN
  /\ outcome \in {"none", "restored", "failed", "conflict", "crashed",
                  "RESTORE_RESUME_PARITY_FAILED", "RESTORE_DEPENDENCY_UNSATISFIED",
                  "RESTORE_CHECKPOINT_INVALID"}
  /\ faults \in 0..MaxFaults /\ changes \in 0..MaxChanges

\* What a process does to the target, as opposed to somebody else.
Touched(a) == pc # "down" /\ target'[a] # target[a]

\* It goes with the bucket or index it is in, which an action under way removes.
SweptAway(a) ==
  \E b \in Actions : ckpt[b] = "in_progress" /\ a \in Inside(b) /\ target'[a] \in Remains(a)

(* "restored" means that every planned component on the target is the       *)
(* backup's as its verification sees it, also of a process that resumed     *)
(* another and of actions that were completed before the target was changed *)
(* (executeRestore, actionEvidence); on a fresh target it is the backup's   *)
(* down to the sources the verification of deployed functions leaves out    *)
(* (edge-source-tree-handler.ts, matches).                                  *)
RestoredIsExact ==
  [][outcome # "restored" /\ outcome' = "restored" =>
       \A a \in Actions : /\ Exact(a)
                          /\ (fresh /\ Kind(a) # "check") => target[a].own = Units]_vars

(* A component is never touched unless its own action, or the one that      *)
(* removes the bucket or index it is in, is in_progress in the checkpoint   *)
(* file, so an interrupted action is always one that resume verifies        *)
(* (executeRestore, writeRestoreCheckpoint).                                *)
EffectsAreJournaled ==
  [][\A a \in Actions : Touched(a) => ckpt[a] = "in_progress" \/ SweptAway(a)]_vars

(* A component is only put on top of components that are, at that moment,   *)
(* exactly the backup's: not of ones a checkpoint says were                 *)
(* (dependenciesSatisfied, the verification of completed actions).          *)
FoundationIsExact ==
  [][\A a \in Actions :
       Touched(a) => SweptAway(a) \/ \A d \in Needs[a] : Exact(d)]_vars

\* A step of a process removes nothing from a component.
Keeps(a) ==
  Touched(a) => /\ target[a].own \subseteq target'[a].own
                /\ target[a].alike \subseteq target'[a].alike
                /\ Kind(a) # "catalog" => target[a].odd \subseteq target'[a].odd
                /\ target[a].foreign => target'[a].foreign

(* Under the policy "fail" a restore removes and overwrites nothing it      *)
(* finds on the target, a function of the backup's metadata with another    *)
(* source included.  Four things are altered without asking for the policy: *)
(* the Auth configuration, the tables of a publication and the state of a   *)
(* Webhook (odd units of a catalog), and the Vault root key, which the      *)
(* handler puts over another one; but under either policy only while the    *)
(* Vault of the target holds no secret the other key encrypts               *)
(* (the handlers' conflict checks, targetVaultIsEmpty).                     *)
FailPolicyKeepsTarget ==
  [][\A a \in Actions :
       /\ (run.policy = "fail" /\ Kind(a) \notin {"patch", "rootkey"}) => Keeps(a)
       /\ (Kind(a) = "rootkey" /\ Touched(a)) => ~target[a].secrets]_vars

\* The handlers that refuse what an interrupted apply of theirs left behind.
OneShot(a) ==
  \/ Kind(a) = "keys"
  \/ Kind(a) = "collection" /\ run.policy = "fail"

(* A restore into a target with nothing in the way ends restored when the   *)
(* operator keeps resuming, wherever earlier processes failed or died; API  *)
(* keys, and Auth providers under "fail", excepted.  Under "replace" what   *)
(* the handlers replace is not in the way (executeRestore, the handlers'    *)
(* apply).                                                                  *)
FreshRestoreSucceeds ==
  (fresh /\ \A a \in Actions : ~OneShot(a)) ~> (outcome = "restored" \/ ~fresh)

(* No process ends for nothing.  Whatever was interrupted before, what an   *)
(* action needs is completed when its turn comes; what a checkpoint calls   *)
(* completed is found exact unless somebody else has changed the target;    *)
(* and where nothing stands in the way no action is refused, and none fails *)
(* but through a call that fails (executeRestore, dependenciesSatisfied,    *)
(* the handlers' apply and verify).                                         *)
RestoreStopsForAReason ==
  [][/\ outcome' # "RESTORE_DEPENDENCY_UNSATISFIED"
     /\ outcome' = "RESTORE_RESUME_PARITY_FAILED" => changes > 0
     /\ (fresh /\ \A a \in Actions : ~OneShot(a)) =>
          /\ pc' # "conflict"
          /\ (pc # "failed" /\ pc' = "failed") => faults' > faults]_vars

(* "Interrupted backup/restore MUST be resumable."                          *)
(* (docs/01-product-requirements.md:174): in a fresh target, no action is   *)
(* refused over a conflict with what the restore itself has put there.      *)
InterruptedRestoreIsResumable == fresh => outcome # "conflict"

=============================================================================

-------------------------- MODULE RestoreRunProofs --------------------------
(***************************************************************************)
(* RestoreRun for any plan, any number of units, faults and changes.        *)
(*                                                                         *)
(* None of the properties is inductive.  RunInv adds what a running process *)
(* knows: everything before the action it works on is exactly the backup's  *)
(* (PrefixIsExact), the action it works on is in_progress in the file       *)
(* (CurrentIsMarked), and what apply still intends does not collide with    *)
(* the policy (IntentKeepsPolicy) nor with the secrets of the target's      *)
(* Vault (IntentSparesSecrets).  Nobody else touches the target while a     *)
(* process runs, and a process touches only its current action and what is  *)
(* in the buckets and indexes that action removes, which stands after it    *)
(* (InsideIsAfter), so the prefix stays exact until Finish.  Only functions *)
(* deployed from source can be alike and only the root key's Vault has      *)
(* secrets (TargetIsShaped), and on a fresh target nothing is alike         *)
(* (FreshIsVisible).                                                        *)
(*                                                                         *)
(* StopsForAReason is the safety half of FreshRestoreSucceeds: on a fresh   *)
(* target every step but a failing call leads on, because what an action    *)
(* meets there is only what an earlier process of this restore has put.     *)
(*                                                                         *)
(* RestoreStepsAreBounded is its counting half: an action removes and puts *)
(* a unit at most once each, so a process has only so many steps.          *)
(***************************************************************************)
EXTENDS RestoreRun, FiniteSetTheorems, TLAPS

Applying == {"observe", "mutate", "complete", "failed", "conflict"}

CheckpointIsThere == pc # "down" => ckpt \in [Actions -> ActionStatuses]

PrefixIsExact ==
  pc # "down" => \A i \in DOMAIN Order : i < next =>
                   Exact(Order[i]) /\ ckpt[Order[i]] = "completed"

CurrentIsMarked ==
  pc \in Applying => next \in DOMAIN Order /\ ckpt[current] = "in_progress"

CompleteIsExact == pc = "complete" => Exact(current)

IntentKeepsPolicy ==
  (pc = "mutate" /\ Strict /\ Kind(current) \notin {"patch", "rootkey"}) =>
    /\ ~todo.clear
    /\ todo.drop = {}
    /\ todo.put \cap (target[current].odd \cup target[current].alike) = {}
    /\ todo.whole => /\ Kind(current) \in Transactional
                     /\ target[current].foreign => Kind(current) \in {"sql", "dedicated"}

IntentSparesSecrets ==
  (pc = "mutate" /\ Kind(current) = "rootkey" /\ todo # Nothing) =>
    ~target[current].secrets

TargetIsShaped == \A a \in Actions : Shaped(a, target[a])

FreshIsVisible == fresh => \A a \in Actions : target[a].alike = {}

TargetInv == TargetIsShaped /\ FreshIsVisible

RunInv ==
  /\ RestoreTypeOK /\ CheckpointIsThere /\ PrefixIsExact /\ CurrentIsMarked
  /\ CompleteIsExact /\ IntentKeepsPolicy /\ IntentSparesSecrets /\ TargetInv

(* Every position of the plan names an action, and no two the same.         *)
LEMMA OrderFacts ==
  /\ Len(Order) \in Nat /\ DOMAIN Order = 1..Len(Order)
  /\ \A i \in DOMAIN Order : Order[i] \in Actions
  /\ \A i, j \in DOMAIN Order : Order[i] = Order[j] => i = j
<1>1. Order \in Seq(Actions) /\ \A i, j \in DOMAIN Order : Order[i] = Order[j] => i = j
  BY RunAssumption DEF RunAssumption
<1>. QED
  BY <1>1

(* What an action needs stands before it.                                   *)
LEMMA NeedsAreBefore ==
  ASSUME NEW i \in DOMAIN Order, NEW d \in Needs[Order[i]]
  PROVE  \E j \in DOMAIN Order : j < i /\ d = Order[j]
<1>1. PICK j \in 1..(i - 1) : d = Order[j]
  BY OrderAssumption DEF OrderAssumption
<1>. QED
  BY <1>1, OrderFacts

LEMMA WorkIsEffects ==
  ASSUME RestoreTypeOK, NEW a \in Actions PROVE Work(a) \in Effects
<1>1. Kind(a) \in Kinds /\ target[a].own \subseteq Units /\ target[a].foreign \in BOOLEAN
  BY RunAssumption DEF RunAssumption, RestoreTypeOK, Kind, Held
<1>. QED
  BY <1>1 DEF Work, Effects, Nothing, Whole, Kinds, EdgeKinds, Transactional

(* What a bucket or an index holds stands after it.                         *)
LEMMA InsideIsAfter ==
  ASSUME NEW n \in DOMAIN Order, NEW i \in DOMAIN Order, i <= n
  PROVE  Order[i] \notin Inside(Order[n])
<1>. SUFFICES ASSUME Order[i] \in Inside(Order[n]) PROVE FALSE
  OBVIOUS
<1>1. \A k, m \in DOMAIN Order : Order[k] \in Needs[Order[m]] => k < m
  <2>1. TAKE k, m \in DOMAIN Order
  <2>2. HAVE Order[k] \in Needs[Order[m]]
  <2>3. PICK j \in DOMAIN Order : j < m /\ Order[k] = Order[j]
    BY <2>2, NeedsAreBefore
  <2>. QED
    BY <2>3, OrderFacts
<1>2. CASE Order[n] \in Needs[Order[i]]
  BY <1>1, <1>2, OrderFacts
<1>3. CASE \E c \in Needs[Order[i]] : Order[n] \in Needs[c]
  <2>1. PICK c \in Needs[Order[i]] : Order[n] \in Needs[c]
    BY <1>3
  <2>2. PICK j \in DOMAIN Order : j < i /\ c = Order[j]
    BY <2>1, NeedsAreBefore
  <2>. QED
    BY <1>1, <2>1, <2>2, OrderFacts
<1>. QED
  BY <1>2, <1>3 DEF Inside

\* Outside its component a step leaves everything alone but what goes with a
\* bucket or an index.
Elsewhere(c) ==
  \A a \in Actions : a # c =>
    /\ a \in mapped' <=> a \in mapped
    /\ \/ target'[a] = target[a]
       \/ a \in Inside(c) /\ todo.clear /\ target'[a] \in Remains(a)

(* What remains of it is less, and no unit odd or alike that was not.       *)
LEMMA RemainsFacts ==
  ASSUME RestoreTypeOK, NEW b \in Actions, NEW r \in Remains(b)
  PROVE  /\ r \in Held
         /\ r.odd = target[b].odd /\ r.alike = target[b].alike
         /\ r.secrets = target[b].secrets /\ (r.foreign => target[b].foreign)
<1>1. target[b] \in Held
  BY DEF RestoreTypeOK
<1>2. PICK left \in [own : SUBSET target[b].own, foreign : {FALSE, target[b].foreign}] :
        r = [target[b] EXCEPT !.own = left.own, !.foreign = left.foreign]
  BY DEF Remains
<1>. QED
  BY <1>1, <1>2 DEF Held

LEMMA SweepFacts ==
  ASSUME RestoreTypeOK, next \in DOMAIN Order, NEW cleared \in SUBSET {current},
         Sweep(cleared)
  PROVE  /\ target' \in [Actions -> Held]
         /\ \A a \in Actions : a # current =>
              target'[a] = target[a] \/ (a \in Inside(current) /\ target'[a] \in Remains(a))
         /\ target'[current] = IF current \in cleared
                                 THEN [target[current] EXCEPT !.foreign = FALSE]
                                 ELSE target[current]
<1>1. target \in [Actions -> Held] /\ current \in Actions
  BY OrderFacts DEF RestoreTypeOK, current
<1>2. current \notin Inside(current) /\ Inside(current) \subseteq Actions
  BY InsideIsAfter, OrderFacts DEF current, Inside
<1>3. PICK rest : /\ \A b \in Inside(current) : rest[b] \in Remains(b)
                  /\ target' = [a \in Actions |->
                       IF a \in Inside(current) THEN rest[a]
                       ELSE IF a \in cleared THEN [target[a] EXCEPT !.foreign = FALSE]
                       ELSE target[a]]
  BY DEF Sweep
<1>4. \A b \in Actions : Remains(b) \subseteq Held
  BY RemainsFacts
<1>5. \A a \in Actions : [target[a] EXCEPT !.foreign = FALSE] \in Held
  BY <1>1 DEF Held
<1>6. target' \in [Actions -> Held]
  BY <1>1, <1>2, <1>3, <1>4, <1>5
<1>. QED
  BY <1>1, <1>2, <1>3, <1>6

(* An effect stays in the types, and within the current component and what  *)
(* is inside it.                                                            *)
LEMMA EffectFacts ==
  ASSUME RestoreTypeOK, next \in DOMAIN Order, Effect \/ EmptyOnly
  PROVE  /\ target' \in [Actions -> Held] /\ mapped' \subseteq Actions /\ todo' \in Effects
         /\ Elsewhere(current)
<1>1. /\ target \in [Actions -> Held] /\ mapped \subseteq Actions /\ todo \in Effects
      /\ current \in Actions
  BY OrderFacts DEF RestoreTypeOK, current
<1>2. Mixes \in BOOLEAN
  BY DEF Mixes
<1>3. CASE ClearForeign
  <2>1. todo.clear /\ mapped' = mapped /\ Sweep({current}) /\ todo' \in Effects
    BY <1>1, <1>3 DEF ClearForeign, Effects
  <2>. QED
    BY <1>1, <2>1, SweepFacts DEF Elsewhere
<1>9. CASE EmptyOnly
  <2>1. todo.clear /\ mapped' = mapped /\ todo' = todo /\ Sweep({})
    BY <1>9 DEF EmptyOnly
  <2>. QED
    BY <1>1, <2>1, SweepFacts DEF Elsewhere
<1>4. ASSUME NEW u \in Units, DropUnit(u) PROVE
         /\ target' \in [Actions -> Held] /\ mapped' = mapped /\ todo' \in Effects
         /\ \A a \in Actions : a # current => target'[a] = target[a]
  BY <1>1, <1>4 DEF DropUnit, Held, Effects
<1>5. ASSUME NEW u \in Units, PutUnit(u) PROVE
         /\ target' \in [Actions -> Held] /\ mapped' = mapped /\ todo' \in Effects
         /\ \A a \in Actions : a # current => target'[a] = target[a]
  BY <1>1, <1>5 DEF PutUnit, Held, Effects
<1>8. ASSUME NEW u \in Units, Deploy(u) PROVE
         /\ target' \in [Actions -> Held] /\ mapped' = mapped /\ todo' \in Effects
         /\ \A a \in Actions : a # current => target'[a] = target[a]
  BY <1>1, <1>8 DEF Deploy, Held, Effects
<1>6. CASE PutWhole
  BY <1>1, <1>2, <1>6 DEF PutWhole, Held, Effects, Elsewhere
<1>7. CASE WriteMap
  BY <1>1, <1>7 DEF WriteMap, Held, Effects, Elsewhere
<1>. QED
  BY <1>1, <1>3, <1>4, <1>5, <1>6, <1>7, <1>8, <1>9 DEF Effect, Elsewhere

(* What leaves everything outside one action and what is inside it alone    *)
(* leaves the actions before it exact.                                      *)
LEMMA PrefixStaysExact ==
  ASSUME RestoreTypeOK, run' = run, NEW n \in DOMAIN Order, Elsewhere(Order[n]),
         NEW i \in DOMAIN Order, i < n, Exact(Order[i])
  PROVE  Exact(Order[i])'
<1>1. \A j \in DOMAIN Order : j < n => (Holds(Order[j]) <=> Holds(Order[j])')
  <2>1. TAKE j \in DOMAIN Order
  <2>2. HAVE j < n
  <2>3. Order[j] \in Actions /\ Order[j] # Order[n] /\ Order[j] \notin Inside(Order[n])
    BY <2>2, OrderFacts, InsideIsAfter
  <2>4. target'[Order[j]] = target[Order[j]] /\ (Order[j] \in mapped' <=> Order[j] \in mapped)
    BY <2>3 DEF Elsewhere
  <2>. QED
    BY <2>4 DEF Holds, Seen, Kind
<1>2. \A d \in Needs[Order[i]] : \E j \in DOMAIN Order : j < n /\ d = Order[j]
  BY NeedsAreBefore, OrderFacts
<1>. QED
  BY <1>1, <1>2 DEF Exact, Kind

LEMMA RunInitInv == Init => RunInv
<1>. SUFFICES ASSUME Init PROVE RunInv
  OBVIOUS
<1>1. fresh \in BOOLEAN
  BY DEF Init
<1>2. RestoreTypeOK
  <2>1. /\ run \in Runs /\ target \in [Actions -> Held] /\ mapped = {}
        /\ ckpt = NoCheckpoint /\ next = 1 /\ pc = "down" /\ todo = Nothing
        /\ resumed = FALSE /\ outcome = "none" /\ faults = 0 /\ changes = 0
    BY DEF Init
  <2>2. MaxFaults \in Nat /\ MaxChanges \in Nat /\ Len(Order) \in Nat
    BY RunAssumption, OrderFacts DEF RunAssumption
  <2>3. Nothing \in Effects
    BY DEF Nothing, Effects
  <2>4. next \in 1..(Len(Order) + 1) /\ faults \in 0..MaxFaults /\ changes \in 0..MaxChanges
    BY <2>1, <2>2
  <2>5. ckpt \in [Actions -> ActionStatuses] \cup {NoCheckpoint} /\ mapped \subseteq Actions
    BY <2>1
  <2>. QED
    BY <1>1, <2>1, <2>3, <2>4, <2>5 DEF RestoreTypeOK
<1>3. TargetInv
  BY DEF Init, Plausible, TargetInv, TargetIsShaped, FreshIsVisible, Shaped, Empty, Seen,
         EdgeKinds
<1>. QED
  BY <1>2, <1>3 DEF Init, RunInv, CheckpointIsThere, PrefixIsExact, CurrentIsMarked,
                    CompleteIsExact, IntentKeepsPolicy, IntentSparesSecrets, Applying

Outcomes == {"none", "restored", "failed", "conflict", "crashed",
             "RESTORE_RESUME_PARITY_FAILED", "RESTORE_DEPENDENCY_UNSATISFIED",
             "RESTORE_CHECKPOINT_INVALID"}

Looking == UNCHANGED <<run, target, mapped, changes, fresh>> /\ faults' \in 0..MaxFaults

(* The current action is one of the plan's, and its entry can be written.   *)
LEMMA CurrentFacts ==
  ASSUME RunInv, pc # "down", next \in DOMAIN Order
  PROVE  /\ current \in Actions
         /\ \A s \in ActionStatuses : Record(current, s) =>
              /\ ckpt' \in [Actions -> ActionStatuses] /\ ckpt'[current] = s
              /\ \A a \in Actions : a # current => ckpt'[a] = ckpt[a]
<1>1. current \in Actions
  BY OrderFacts DEF current
<1>2. ckpt \in [Actions -> ActionStatuses]
  BY DEF RunInv, CheckpointIsThere
<1>. QED
  BY <1>1, <1>2 DEF Record

LEMMA LookingKeepsTarget == ASSUME TargetInv, Looking PROVE TargetInv'
BY DEF TargetInv, TargetIsShaped, FreshIsVisible, Shaped, Looking, Kind

LEMMA LookingKeepsExact == ASSUME Looking PROVE \A a : Exact(a)' <=> Exact(a)
BY DEF Looking, Exact, Holds, Seen, Kind

(* A process that ends leaves nothing to show but the types.                *)
LEMMA GoingDownKeepsInv ==
  ASSUME RunInv, Looking, NEW o \in Outcomes, Down(o),
         ckpt' = ckpt \/ ckpt' \in [Actions -> ActionStatuses]
  PROVE  RunInv'
<1>1. Nothing \in Effects
  BY DEF Nothing, Effects
<1>2. NoCheckpoint' = NoCheckpoint
  BY DEF NoCheckpoint
<1>3. RestoreTypeOK'
  BY <1>1, <1>2 DEF RunInv, RestoreTypeOK, Looking, Down, Outcomes
<1>. QED
  BY <1>3, LookingKeepsTarget DEF RunInv, Down, CheckpointIsThere, PrefixIsExact, CurrentIsMarked,
              CompleteIsExact, IntentKeepsPolicy, IntentSparesSecrets, Applying

(* Going on to the next action: the current one is exact and completed.     *)
LEMMA AdvancingKeepsInv ==
  ASSUME RunInv, Looking, pc # "down", next \in DOMAIN Order, Exact(current),
         next' = next + 1, pc' = "next", UNCHANGED <<todo, resumed, outcome>>,
         \/ ckpt' = ckpt /\ ckpt[current] = "completed"
         \/ Record(current, "completed")
  PROVE  RunInv'
<1>1. current \in Actions /\ ckpt \in [Actions -> ActionStatuses]
  BY CurrentFacts DEF RunInv, CheckpointIsThere
<1>2. /\ ckpt' \in [Actions -> ActionStatuses] /\ ckpt'[current] = "completed"
      /\ \A a \in Actions : a # current => ckpt'[a] = ckpt[a]
  BY <1>1, CurrentFacts DEF ActionStatuses
<1>3. RestoreTypeOK'
  <2>1. next + 1 \in 1..(Len(Order) + 1)
    BY OrderFacts
  <2>. QED
    BY <1>2, <2>1 DEF RunInv, RestoreTypeOK, Looking
<1>4. PrefixIsExact'
  <2>. SUFFICES ASSUME NEW i \in DOMAIN Order, i < next + 1
                PROVE  Exact(Order[i])' /\ ckpt'[Order[i]] = "completed"
    BY DEF PrefixIsExact
  <2>1. CASE i = next
    BY <2>1, <1>2, LookingKeepsExact DEF current
  <2>2. CASE i < next
    <3>1. Exact(Order[i]) /\ ckpt[Order[i]] = "completed"
      BY <2>2 DEF RunInv, PrefixIsExact
    <3>2. Order[i] \in Actions /\ Order[i] # current
      BY <2>2, OrderFacts DEF current
    <3>. QED
      BY <3>1, <3>2, <1>2, LookingKeepsExact
  <2>. QED
    BY <2>1, <2>2, OrderFacts
<1>. QED
  BY <1>2, <1>3, <1>4, LookingKeepsTarget
  DEF RunInv, CheckpointIsThere, CurrentIsMarked, CompleteIsExact, IntentKeepsPolicy,
      IntentSparesSecrets, Applying

(* Changing the stage within an action.                                     *)
LEMMA StagesKeepInv ==
  ASSUME RunInv, Looking, pc # "down", next \in DOMAIN Order,
         NEW stage \in Applying, Continue(stage), todo' \in Effects,
         \/ Record(current, "in_progress") /\ ckpt[current] # "completed"
         \/ UNCHANGED ckpt /\ pc \in Applying,
         stage = "complete" => Exact(current),
         stage = "mutate" => IntentKeepsPolicy' /\ IntentSparesSecrets'
  PROVE  RunInv'
<1>1. current \in Actions /\ ckpt \in [Actions -> ActionStatuses] /\ current' = current
  BY CurrentFacts DEF RunInv, CheckpointIsThere, current, Continue
<1>2. /\ ckpt' \in [Actions -> ActionStatuses] /\ ckpt'[current] = "in_progress"
      /\ \A a \in Actions : a # current => ckpt'[a] = ckpt[a]
  BY <1>1, CurrentFacts DEF ActionStatuses, RunInv, CurrentIsMarked
<1>3. RestoreTypeOK'
  BY <1>2 DEF RunInv, RestoreTypeOK, Looking, Continue, Applying
<1>4. PrefixIsExact'
  <2>. SUFFICES ASSUME NEW i \in DOMAIN Order, i < next
                PROVE  Exact(Order[i])' /\ ckpt'[Order[i]] = "completed"
    BY DEF PrefixIsExact, Continue
  <2>1. Exact(Order[i]) /\ ckpt[Order[i]] = "completed"
    BY DEF RunInv, PrefixIsExact
  <2>2. Order[i] \in Actions /\ Order[i] # current
    BY OrderFacts DEF current
  <2>. QED
    BY <2>1, <2>2, <1>2, LookingKeepsExact
<1>5. IntentKeepsPolicy' /\ IntentSparesSecrets'
  BY DEF IntentKeepsPolicy, IntentSparesSecrets, Continue
<1>. QED
  BY <1>1, <1>2, <1>3, <1>4, <1>5, LookingKeepsExact, LookingKeepsTarget
  DEF RunInv, CheckpointIsThere, CurrentIsMarked, CompleteIsExact, Applying, Continue

(* After a refusal the intent is not formed; otherwise it keeps the policy. *)
LEMMA WorkKeepsPolicy ==
  ASSUME RestoreTypeOK, TargetIsShaped, NEW a \in Actions, ~Conflict(a), Strict,
         Kind(a) \notin {"patch", "rootkey"}
  PROVE  /\ ~Work(a).clear
         /\ Work(a).drop = {}
         /\ Work(a).put \cap (target[a].odd \cup target[a].alike) = {}
         /\ Work(a).whole => /\ Kind(a) \in Transactional
                             /\ target[a].foreign => Kind(a) \in {"sql", "dedicated"}
<1>1. Kind(a) \in Kinds /\ target[a].own \subseteq Units /\ target[a].foreign \in BOOLEAN
  BY RunAssumption DEF RunAssumption, RestoreTypeOK, Kind, Held
<1>2. ~Exact(a) => ~(target[a].foreign /\ Kind(a) \in {"rows", "catalog", "items",
                                                     "config", "collection"} \cup EdgeKinds)
  BY DEF Conflict, RowsConflict, CatalogConflict, ItemsConflict, ConfigConflict,
         CollectionConflict, FunctionsConflict, SourcesConflict, Differs, EdgeKinds, Empty
<1>3. ~Exact(a) /\ Kind(a) = "collection" => target[a].own = {}
  BY DEF Conflict, CollectionConflict, Empty, Seen
<1>4. /\ Kind(a) # "catalog" => target[a].odd = {}
      /\ Kind(a) # "sources" => target[a].alike = {}
  BY DEF TargetIsShaped, Shaped, EdgeKinds, Conflict, FunctionsConflict, SourcesConflict, Differs
<1>5. Work(a).put \cap (target[a].odd \cup target[a].alike) = {}
  <2>1. CASE Kind(a) = "sources"
    BY <1>4, <2>1 DEF Work, Nothing, EdgeKinds, Transactional, Seen
  <2>2. CASE Kind(a) = "catalog"
    BY <2>2 DEF Work, Nothing, Whole, EdgeKinds, Transactional
  <2>3. CASE Kind(a) \notin {"sources", "catalog"}
    BY <1>4, <2>3
  <2>. QED
    BY <2>1, <2>2, <2>3
<1>. QED
  BY <1>1, <1>2, <1>3, <1>5 DEF Work, Nothing, Whole, Kinds, EdgeKinds, Transactional

(* The steps of a process that leave the target alone.                      *)
LEMMA LookingKeepsInv ==
  ASSUME RunInv,
         Reverify \/ Recover \/ Mark \/ Observe \/ ObserveFails \/ Clash \/ Verify
         \/ Complete \/ CompleteFails \/ RecordFailure \/ Finish \/ Crash
  PROVE  RunInv'
<1>1. Looking
  BY RunAssumption
  DEF Reverify, Recover, Mark, Observe, ObserveFails, Clash, Verify, Complete, CompleteFails,
      RecordFailure, Finish, Crash, Fault, fileVars, RunInv, RestoreTypeOK, RunAssumption, Looking
<1>2. todo \in Effects /\ (pc \in Applying => next \in DOMAIN Order)
  BY DEF RunInv, RestoreTypeOK, CurrentIsMarked
<1>3. CASE Reverify
  <2>1. CASE Exact(current)
    BY <1>1, <1>3, <2>1, AdvancingKeepsInv DEF Reverify, fileVars
  <2>2. CASE ~Exact(current)
    BY <1>1, <1>3, <2>2, GoingDownKeepsInv DEF Reverify, fileVars, Outcomes
  <2>. QED
    BY <2>1, <2>2
<1>4. CASE Recover
  BY <1>1, <1>4, AdvancingKeepsInv DEF Recover
<1>5. CASE Mark
  <2>1. CASE \A d \in Needs[current] : ckpt[d] = "completed"
    BY <1>1, <1>2, <1>5, <2>1, StagesKeepInv DEF Mark, Applying
  <2>2. CASE ~\A d \in Needs[current] : ckpt[d] = "completed"
    BY <1>1, <1>5, <2>2, GoingDownKeepsInv DEF Mark, Outcomes
  <2>. QED
    BY <2>1, <2>2
<1>6. CASE Observe
  <2>1. next \in DOMAIN Order /\ current \in Actions
    BY <1>2, <1>6, CurrentFacts DEF Observe, Applying
  <2>2. CASE Conflict(current)
    BY <1>1, <1>2, <1>6, <2>1, <2>2, StagesKeepInv DEF Observe, fileVars, Applying
  <2>3. CASE ~Conflict(current)
    <3>1. Work(current) \in Effects
      BY <2>1, WorkIsEffects DEF RunInv
    <3>2. Continue("mutate") /\ todo' = Work(current) /\ UNCHANGED <<run, target, ckpt>>
      BY <1>6, <2>3 DEF Observe, fileVars
    <3>3. current' = current /\ (Strict' <=> Strict) /\ Kind(current)' = Kind(current)
      BY <3>2 DEF current, Continue, Strict, Kind
    <3>4. IntentKeepsPolicy'
      BY <2>1, <2>3, <3>2, <3>3, WorkKeepsPolicy DEF IntentKeepsPolicy, RunInv, TargetInv
    <3>5. IntentSparesSecrets'
      BY <2>3, <3>2, <3>3 DEF IntentSparesSecrets, Conflict, RootKeyConflict, Work, Nothing
    <3>. QED
      BY <1>1, <1>6, <2>1, <3>1, <3>2, <3>4, <3>5, StagesKeepInv DEF Observe, Applying
  <2>. QED
    BY <2>2, <2>3
<1>7. CASE Clash \/ ObserveFails
  BY <1>1, <1>2, <1>7, StagesKeepInv DEF Clash, ObserveFails, fileVars, Applying
<1>8. CASE Verify
  BY <1>1, <1>2, <1>8, StagesKeepInv DEF Verify, fileVars, Applying
<1>9. CASE Complete
  <2>1. Exact(current) /\ next \in DOMAIN Order
    BY <1>2, <1>9 DEF Complete, RunInv, CompleteIsExact, Applying
  <2>. QED
    BY <1>1, <1>9, <2>1, AdvancingKeepsInv DEF Complete
<1>10. CASE CompleteFails \/ Finish \/ Crash
  BY <1>1, <1>10, GoingDownKeepsInv DEF CompleteFails, Finish, Crash, fileVars, Outcomes
<1>11. CASE RecordFailure
  <2>1. ckpt' \in [Actions -> ActionStatuses] /\ pc \in Outcomes
    BY <1>2, <1>11, CurrentFacts DEF RecordFailure, Applying, ActionStatuses, Outcomes
  <2>. QED
    BY <1>1, <1>11, <2>1, GoingDownKeepsInv DEF RecordFailure
<1>. QED
  BY <1>3, <1>4, <1>5, <1>6, <1>7, <1>8, <1>9, <1>10, <1>11

(* The steps that change the target work on the current action.             *)
LEMMA MutatingTouchesCurrent ==
  ASSUME RunInv, Mutate \/ MutateFails
  PROVE  /\ pc = "mutate" /\ next \in DOMAIN Order /\ current \in Actions
         /\ ckpt[current] = "in_progress"
         /\ target' \in [Actions -> Held] /\ mapped' \subseteq Actions /\ todo' \in Effects
         /\ Elsewhere(current)
<1>1. pc = "mutate" /\ next \in DOMAIN Order /\ ckpt[current] = "in_progress"
  BY DEF Mutate, MutateFails, RunInv, CurrentIsMarked, Applying
<1>2. current \in Actions
  BY <1>1, OrderFacts DEF current
<1>3. Effect \/ EmptyOnly \/ UNCHANGED <<target, mapped, todo>>
  BY DEF Mutate, MutateFails
<1>. QED
  BY <1>1, <1>2, <1>3, EffectFacts DEF RunInv, RestoreTypeOK, Elsewhere

(* No effect makes a unit odd or alike, or changes what the Vault holds.    *)
LEMMA EffectsShrink ==
  ASSUME RestoreTypeOK, next \in DOMAIN Order, Effect \/ EmptyOnly
  PROVE  /\ target'[current].odd \subseteq target[current].odd
         /\ target'[current].alike \subseteq target[current].alike
         /\ target'[current].secrets = target[current].secrets
<1>1. target \in [Actions -> Held] /\ current \in Actions
  BY OrderFacts DEF RestoreTypeOK, current
<1>2. CASE ClearForeign
  BY <1>1, <1>2, SweepFacts DEF ClearForeign, Held
<1>7. CASE EmptyOnly
  BY <1>1, <1>7, SweepFacts DEF EmptyOnly
<1>3. ASSUME NEW u \in Units, DropUnit(u) \/ PutUnit(u) PROVE
         /\ target'[current].odd = target[current].odd
         /\ target'[current].alike = target[current].alike
         /\ target'[current].secrets = target[current].secrets
  BY <1>1, <1>3 DEF DropUnit, PutUnit, Held
<1>4. ASSUME NEW u \in Units, Deploy(u) PROVE
         /\ target'[current].odd = target[current].odd \ {u}
         /\ target'[current].alike = target[current].alike \ {u}
         /\ target'[current].secrets = target[current].secrets
  BY <1>1, <1>4 DEF Deploy, Held
<1>5. CASE PutWhole
  BY <1>1, <1>5 DEF PutWhole, Held
<1>6. CASE WriteMap
  BY <1>6 DEF WriteMap
<1>. QED
  BY <1>2, <1>3, <1>4, <1>5, <1>6, <1>7 DEF Effect

LEMMA MutatingKeepsTarget ==
  ASSUME RunInv, Mutate \/ MutateFails PROVE TargetInv'
<1>1. /\ UNCHANGED <<run, fresh>> /\ (Effect \/ EmptyOnly \/ UNCHANGED target)
      /\ target \in [Actions -> Held]
  BY DEF Mutate, MutateFails, RunInv, RestoreTypeOK
<1>2. \A a \in Actions : /\ target'[a].odd \subseteq target[a].odd
                         /\ target'[a].alike \subseteq target[a].alike
                         /\ target'[a].secrets = target[a].secrets
  <2>1. TAKE a \in Actions
  <2>2. CASE a = current
    BY <1>1, <2>2, EffectsShrink, MutatingTouchesCurrent DEF RunInv
  <2>3. CASE a # current
    <3>1. target'[a] = target[a] \/ target'[a] \in Remains(a)
      BY <2>3, MutatingTouchesCurrent DEF Elsewhere
    <3>. QED
      BY <3>1, RemainsFacts DEF RunInv
  <2>. QED
    BY <2>2, <2>3
<1>. QED
  BY <1>1, <1>2 DEF RunInv, TargetInv, TargetIsShaped, FreshIsVisible, Shaped, Kind

LEMMA MutatingKeepsInv ==
  ASSUME RunInv, Mutate \/ MutateFails PROVE RunInv'
<1>1. /\ UNCHANGED <<run, ckpt, next, resumed, outcome, changes, fresh>>
      /\ faults' \in 0..MaxFaults
      /\ (pc' = "mutate" /\ Effect) \/ pc' = "failed"
  BY RunAssumption
  DEF Mutate, MutateFails, Continue, Fault, RunInv, RestoreTypeOK, RunAssumption
<1>2. RestoreTypeOK'
  BY <1>1, MutatingTouchesCurrent DEF RunInv, RestoreTypeOK, NoCheckpoint
<1>3. PrefixIsExact'
  <2>. SUFFICES ASSUME NEW i \in DOMAIN Order, i < next
                PROVE  Exact(Order[i])' /\ ckpt'[Order[i]] = "completed"
    BY <1>1 DEF PrefixIsExact
  <2>1. Exact(Order[i]) /\ ckpt[Order[i]] = "completed"
    BY MutatingTouchesCurrent DEF RunInv, PrefixIsExact
  <2>. QED
    BY <1>1, <2>1, MutatingTouchesCurrent, PrefixStaysExact DEF RunInv, current
<1>4. IntentKeepsPolicy'
  <2>. SUFFICES ASSUME pc' = "mutate", Effect, Strict,
                       Kind(current) \notin {"patch", "rootkey"}
                PROVE  /\ ~todo'.clear
                       /\ todo'.drop = {}
                       /\ todo'.put \cap (target'[current].odd \cup target'[current].alike) = {}
                       /\ todo'.whole =>
                            /\ Kind(current) \in Transactional
                            /\ target'[current].foreign => Kind(current) \in {"sql", "dedicated"}
    BY <1>1 DEF IntentKeepsPolicy, Strict, Kind, current
  <2>1. /\ ~todo.clear
        /\ todo.drop = {}
        /\ todo.put \cap (target[current].odd \cup target[current].alike) = {}
        /\ todo.whole => /\ Kind(current) \in Transactional
                         /\ target[current].foreign => Kind(current) \in {"sql", "dedicated"}
    BY MutatingTouchesCurrent DEF RunInv, IntentKeepsPolicy
  <2>2. todo \in Effects /\ target \in [Actions -> Held] /\ current \in Actions
    BY MutatingTouchesCurrent DEF RunInv, RestoreTypeOK
  <2>3. CASE \E u \in Units : PutUnit(u)
    BY <2>1, <2>2, <2>3 DEF PutUnit, Effects, Held
  <2>4. CASE PutWhole
    BY <2>1, <2>2, <2>4 DEF PutWhole, Effects
  <2>5. CASE WriteMap
    BY <2>1, <2>2, <2>5 DEF WriteMap, Effects
  <2>6. ~ClearForeign /\ ~\E u \in Units : DropUnit(u)
    BY <2>1 DEF ClearForeign, DropUnit
  <2>7. CASE \E u \in Units : Deploy(u)
    BY <2>1, <2>2, <2>7 DEF Deploy, Effects, Held
  <2>. QED
    BY <2>3, <2>4, <2>5, <2>6, <2>7 DEF Effect
<1>5. TargetInv'
  BY <1>1, MutatingKeepsTarget
<1>6. IntentSparesSecrets'
  <2>. SUFFICES ASSUME pc' = "mutate", Effect, Kind(current) = "rootkey"
                PROVE  ~target'[current].secrets
    BY <1>1 DEF IntentSparesSecrets, Kind, current
  <2>1. todo # Nothing /\ pc = "mutate"
    BY DEF Mutate, MutateFails
  <2>. QED
    BY <2>1, EffectsShrink, MutatingTouchesCurrent DEF RunInv, IntentSparesSecrets
<1>. QED
  BY <1>1, <1>2, <1>3, <1>4, <1>5, <1>6, MutatingTouchesCurrent
  DEF RunInv, CheckpointIsThere, CurrentIsMarked, CompleteIsExact, Applying, current

(* Starting, resuming and the changes of others happen between processes.   *)
LEMMA BetweenProcessesKeepsInv ==
  ASSUME RunInv, Begin \/ Resume \/ Change PROVE RunInv'
<1>1. CASE Begin \/ Resume
  <2>1. pc' = "next" /\ next' = 1 /\ outcome' = "none" /\ resumed' \in BOOLEAN
        /\ UNCHANGED <<run, target, mapped, todo, faults, changes, fresh>>
    BY <1>1 DEF Begin, Resume, fileVars
  <2>2. ckpt' \in [Actions -> ActionStatuses]
    BY <1>1 DEF Begin, Resume, fileVars, RunInv, RestoreTypeOK, ActionStatuses
  <2>4. RestoreTypeOK'
    BY <2>1, <2>2, OrderFacts DEF RunInv, RestoreTypeOK
  <2>3. PrefixIsExact'
    BY <2>1, OrderFacts DEF PrefixIsExact
  <2>5. TargetInv'
    BY <2>1 DEF RunInv, TargetInv, TargetIsShaped, FreshIsVisible, Shaped, Kind
  <2>. QED
    BY <2>1, <2>2, <2>3, <2>4, <2>5
    DEF RunInv, CheckpointIsThere, CurrentIsMarked, CompleteIsExact, IntentKeepsPolicy,
      IntentSparesSecrets, Applying
<1>2. CASE Change
  <2>1. target' \in [Actions -> Held] /\ changes' \in 0..MaxChanges /\ fresh' = FALSE
    BY <1>2, RunAssumption DEF Change, RunInv, RestoreTypeOK, RunAssumption
  <2>2. pc' = "down" /\ UNCHANGED <<run, mapped, ckpt, next, pc, todo, resumed, outcome, faults>>
    BY <1>2 DEF Change
  <2>3. NoCheckpoint' = NoCheckpoint
    BY DEF NoCheckpoint
  <2>4. RestoreTypeOK'
    BY <2>1, <2>2, <2>3 DEF RunInv, RestoreTypeOK
  <2>5. TargetInv'
    <3>1. PICK b \in Actions, t \in Held :
            Shaped(b, t) /\ target' = [target EXCEPT ![b] = t]
      BY <1>2 DEF Change, Plausible
    <3>2. \A a \in Actions : target'[a] = IF a = b THEN t ELSE target[a]
      BY <3>1 DEF RunInv, RestoreTypeOK
    <3>. QED
      BY <2>1, <2>2, <3>1, <3>2 DEF RunInv, TargetInv, TargetIsShaped, FreshIsVisible, Shaped, Kind
  <2>. QED
    BY <2>2, <2>4, <2>5 DEF RunInv, CheckpointIsThere, PrefixIsExact, CurrentIsMarked,
                      CompleteIsExact, IntentKeepsPolicy, IntentSparesSecrets, Applying
<1>. QED
  BY <1>1, <1>2

LEMMA RunNextKeepsInv == RunInv /\ [Next]_vars => RunInv'
<1>. SUFFICES ASSUME RunInv, [Next]_vars PROVE RunInv'
  OBVIOUS
<1>1. CASE UNCHANGED vars
  BY <1>1 DEF vars, RunInv, RestoreTypeOK, CheckpointIsThere, PrefixIsExact, CurrentIsMarked,
              CompleteIsExact, IntentKeepsPolicy, IntentSparesSecrets, Applying, Exact, Holds, Seen, Kind, Strict,
              current, NoCheckpoint, TargetInv, TargetIsShaped, FreshIsVisible, Shaped
<1>2. CASE Next
  BY <1>2, LookingKeepsInv, MutatingKeepsInv, BetweenProcessesKeepsInv DEF Next, Process
<1>. QED
  BY <1>1, <1>2

LEMMA RunInvariant == Spec => []RunInv
BY RunInitInv, RunNextKeepsInv, PTL DEF Spec

(* While a process runs, only Mutate and MutateFails change the target: the *)
(* component of the current action, or what is inside what it removes.      *)
LEMMA TouchedIsCurrent ==
  ASSUME RunInv, [Next]_vars, NEW a \in Actions, Touched(a)
  PROVE  /\ Mutate \/ MutateFails
         /\ a = current \/ (todo.clear /\ SweptAway(a) /\ target'[a] \in Remains(a))
<1>1. ~UNCHANGED target /\ pc # "down"
  BY DEF Touched
<1>2. Mutate \/ MutateFails
  BY <1>1
  DEF vars, fileVars, Next, Process, Begin, Resume, Reverify, Recover, Mark, Observe,
      ObserveFails, Clash, Verify, Complete, CompleteFails, RecordFailure, Finish, Crash, Change
<1>. QED
  BY <1>2, MutatingTouchesCurrent DEF Touched, Elsewhere, SweptAway

-----------------------------------------------------------------------------

(* The executor keeps checkpoint, target and process in their types, for    *)
(* any plan and any failures.                                               *)
THEOREM RestoreTypeCorrect == Spec => []RestoreTypeOK
BY RunInvariant, PTL DEF RunInv

(* Whatever failed, died or was changed by others on the way, a restore     *)
(* that ends "restored" has every planned component exactly as backed up.   *)
THEOREM RestoredMeansExact == Spec => RestoredIsExact
<1>1. RunInv /\ [Next]_vars =>
        [outcome # "restored" /\ outcome' = "restored" =>
           \A a \in Actions : /\ Exact(a)
                              /\ (fresh /\ Kind(a) # "check") => target[a].own = Units]_vars
  <2>. SUFFICES ASSUME RunInv, Next, outcome # "restored", outcome' = "restored",
                       NEW a \in Actions
                PROVE  /\ Exact(a)
                       /\ (fresh /\ Kind(a) # "check") => target[a].own = Units
    BY DEF vars
  <2>1. CASE Finish
    <3>1. next = Len(Order) + 1 /\ pc # "down"
      BY <2>1, OrderFacts DEF Finish, RunInv, RestoreTypeOK
    <3>2. \A i \in DOMAIN Order : Exact(Order[i])
      BY <3>1, OrderFacts DEF RunInv, PrefixIsExact
    <3>3. Exact(a)
      BY <3>2 DEF Actions
    <3>4. fresh => target[a].alike = {}
      BY DEF RunInv, TargetInv, FreshIsVisible
    <3>. QED
      BY <3>3, <3>4 DEF Exact, Holds, Seen
  <2>2. ~Finish => outcome' # "restored"
    BY DEF Next, Process, Begin, Resume, Reverify, Recover, Mark, Observe, ObserveFails, Mutate,
           MutateFails, Clash, Verify, Complete, CompleteFails, RecordFailure, Crash, Change,
           Down, Continue
  <2>. QED
    BY <2>1, <2>2
<1>. QED
  BY <1>1, RunInvariant, PTL DEF Spec, RestoredIsExact

(* No component is touched before its entry in the checkpoint file says so. *)
THEOREM EffectsJournaled == Spec => EffectsAreJournaled
<1>1. RunInv /\ [Next]_vars =>
        [\A a \in Actions : Touched(a) => ckpt[a] = "in_progress" \/ SweptAway(a)]_vars
  BY TouchedIsCurrent, MutatingTouchesCurrent
<1>. QED
  BY <1>1, RunInvariant, PTL DEF Spec, EffectsAreJournaled

(* Every effect rests on dependencies that are exact when it happens.       *)
THEOREM FoundationsExact == Spec => FoundationIsExact
<1>1. RunInv /\ [Next]_vars =>
        [\A a \in Actions :
           Touched(a) => SweptAway(a) \/ \A d \in Needs[a] : Exact(d)]_vars
  <2>. SUFFICES ASSUME RunInv, [Next]_vars, NEW a \in Actions, Touched(a), ~SweptAway(a),
                       NEW d \in Needs[a]
                PROVE  Exact(d)
    OBVIOUS
  <2>1. a = Order[next] /\ next \in DOMAIN Order /\ pc # "down"
    BY TouchedIsCurrent, MutatingTouchesCurrent DEF current
  <2>2. PICK j \in DOMAIN Order : j < next /\ d = Order[j]
    BY <2>1, NeedsAreBefore
  <2>. QED
    BY <2>1, <2>2 DEF RunInv, PrefixIsExact
<1>. QED
  BY <1>1, RunInvariant, PTL DEF Spec, FoundationIsExact

(* Under "fail" a restore takes nothing away, whatever it met before, but   *)
(* where handlers alter the Auth configuration, publications and Webhooks   *)
(* without asking; and it puts the root key only into a Vault that has no   *)
(* secrets.                                                                 *)
THEOREM FailPolicyKeeps == Spec => FailPolicyKeepsTarget
<1>1. RunInv /\ [Next]_vars =>
        [\A a \in Actions :
           (run.policy = "fail" /\ Kind(a) \notin {"patch", "rootkey"}) => Keeps(a)]_vars
  <2>. SUFFICES ASSUME RunInv, [Next]_vars, Strict, NEW a \in Actions,
                       Kind(a) \notin {"patch", "rootkey"}, Touched(a)
                PROVE  /\ target[a].own \subseteq target'[a].own
                       /\ target[a].alike \subseteq target'[a].alike
                       /\ Kind(a) # "catalog" => target[a].odd \subseteq target'[a].odd
                       /\ target[a].foreign => target'[a].foreign
    BY DEF Keeps, Strict
  <2>0. Mutate \/ MutateFails
    BY TouchedIsCurrent
  <2>10. pc = "mutate" /\ (Inside(current) # {} => Kind(current) = "items")
    BY <2>0, MutatingTouchesCurrent DEF Inside
  <2>11. ~(todo.clear /\ Inside(current) # {})
    BY <2>10 DEF RunInv, IntentKeepsPolicy
  <2>1. a = current
    BY <2>0, <2>11, MutatingTouchesCurrent DEF Touched, Elsewhere
  <2>12. ~todo.clear
    BY <2>1, <2>10 DEF RunInv, IntentKeepsPolicy
  <2>2. Effect
    BY <2>0, <2>12 DEF Mutate, MutateFails, EmptyOnly, Touched
  <2>3. /\ ~todo.clear
        /\ todo.drop = {}
        /\ todo.put \cap (target[a].odd \cup target[a].alike) = {}
        /\ todo.whole => /\ Kind(a) \in Transactional
                         /\ target[a].foreign => Kind(a) \in {"sql", "dedicated"}
    BY <2>1, <2>10 DEF RunInv, IntentKeepsPolicy
  <2>4. target \in [Actions -> Held]
    BY DEF RunInv, RestoreTypeOK
  <2>5. CASE \E u \in Units : PutUnit(u)
    BY <2>1, <2>4, <2>5 DEF PutUnit, Held
  <2>6. CASE PutWhole
    <3>1. Kind(a) \in Transactional
      BY <2>3, <2>6 DEF PutWhole
    <3>2. target[a].alike = {} /\ (Kind(a) # "catalog" => target[a].odd = {})
      BY <3>1 DEF RunInv, TargetInv, TargetIsShaped, Shaped, EdgeKinds, Transactional
    <3>. QED
      BY <2>1, <2>3, <2>4, <2>6, <3>2 DEF PutWhole, Held, Mixes, Empty
  <2>9. CASE \E u \in Units : Deploy(u)
    BY <2>1, <2>3, <2>4, <2>9 DEF Deploy, Held
  <2>7. ~ClearForeign /\ ~\E u \in Units : DropUnit(u)
    BY <2>3 DEF ClearForeign, DropUnit
  <2>8. ~WriteMap
    BY <2>1 DEF WriteMap, Touched
  <2>. QED
    BY <2>2, <2>5, <2>6, <2>7, <2>8, <2>9 DEF Effect
<1>2. RunInv /\ [Next]_vars =>
        [\A a \in Actions : (Kind(a) = "rootkey" /\ Touched(a)) => ~target[a].secrets]_vars
  <2>. SUFFICES ASSUME RunInv, [Next]_vars, NEW a \in Actions, Kind(a) = "rootkey", Touched(a)
                PROVE  ~target[a].secrets
    OBVIOUS
  <2>1. Mutate \/ MutateFails
    BY TouchedIsCurrent
  <2>2. a \notin Inside(current)
    BY DEF Inside
  <2>3. a = current /\ pc = "mutate" /\ todo # Nothing
    BY <2>1, <2>2, MutatingTouchesCurrent DEF Touched, Elsewhere, Mutate, MutateFails
  <2>. QED
    BY <2>3 DEF RunInv, IntentSparesSecrets
<1>3. RunInv /\ [Next]_vars =>
        [\A a \in Actions :
           /\ (run.policy = "fail" /\ Kind(a) \notin {"patch", "rootkey"}) => Keeps(a)
           /\ (Kind(a) = "rootkey" /\ Touched(a)) => ~target[a].secrets]_vars
  BY <1>1, <1>2
<1>. QED
  BY <1>3, RunInvariant, PTL DEF Spec, FailPolicyKeepsTarget

-----------------------------------------------------------------------------
(***************************************************************************)
(* Why a process ends.  The checkpoint is as strong as the plan is long:    *)
(* completed entries are those of a prefix (CompletedIsPrefix), what they   *)
(* say holds as long as nobody else has changed the target                  *)
(* (CompletedIsExact), and the first process finds nothing that was started *)
(* (RestIsPending).  Where nothing stands in the way, no handler leaves     *)
(* anything behind that it would refuse itself (TargetIsTolerable), and     *)
(* what it sets out to do is enough (IntentIsEnough).                       *)
(***************************************************************************)

CompletedIsPrefix ==
  \A i, j \in DOMAIN Order :
    (i < j /\ ckpt[Order[j]] = "completed") => ckpt[Order[i]] = "completed"

CompletedIsExact ==
  changes = 0 => \A a \in Actions : ckpt[a] = "completed" => Exact(a)

RestIsPending ==
  (pc # "down" /\ ~resumed) =>
    \A i \in DOMAIN Order :
      (i > next \/ (i = next /\ pc = "next")) => ckpt[Order[i]] = "pending"

FreshIsUnchanged == fresh => changes = 0

EndedForAReason ==
  /\ outcome # "RESTORE_DEPENDENCY_UNSATISFIED"
  /\ outcome = "RESTORE_RESUME_PARITY_FAILED" => changes > 0

ProgressInv ==
  /\ CompletedIsPrefix /\ CompletedIsExact /\ RestIsPending /\ FreshIsUnchanged
  /\ EndedForAReason

Welcome == fresh /\ \A a \in Actions : ~OneShot(a)

\* What the handler of the action does not refuse when it comes (back).
Tolerable(a) ==
  /\ Kind(a) \in {"sql", "dedicated", "rows"} => Empty(a) \/ Exact(a)
  /\ (Kind(a) = "sql" /\ ckpt[a] \in {"none", "pending"}) => Empty(a)
  /\ Kind(a) \in {"history", "extensions"} => ~target[a].foreign
  /\ (Strict /\ Kind(a) \in {"catalog", "items"} \cup EdgeKinds) => ~Differs(a)
  /\ (Strict /\ Kind(a) = "config") => Exact(a)
  /\ Kind(a) = "rootkey" => Exact(a) \/ ~target[a].secrets

TargetIsTolerable == Welcome => \A a \in Actions : Tolerable(a)

\* With its intent carried out the current component is exact.
Enough(a) ==
  /\ Kind(a) = "check" => todo = Nothing
  /\ Kind(a) \in Transactional => (~todo.clear /\ todo.drop = {} /\ todo.put = {})
  /\ (todo.whole /\ Kind(a) \in {"sql", "dedicated"}) => Empty(a)
  /\ \/ todo.whole \/ Kind(a) = "check"
     \/ Units \ todo.put \subseteq Seen(a) /\ (target[a].foreign => todo.clear)
  /\ todo.drop # {} => (todo.put = Units /\ Kind(a) = "collection")
  /\ ~todo.map

IntentIsEnough ==
  Welcome =>
    /\ pc # "conflict"
    /\ (pc = "observe" /\ Kind(current) = "sql") => Empty(current)
    /\ pc = "mutate" => Enough(current)

WelcomeInv == TargetIsTolerable /\ IntentIsEnough

(* The file is left alone, written for the first time, or one entry of it   *)
(* changes: to in_progress or failed, which no completed entry ever does    *)
(* and no entry while an earlier one is not completed, or to completed.     *)
LEMMA CheckpointSteps ==
  ASSUME RunInv, [Next]_vars
  PROVE  \/ UNCHANGED ckpt
         \/ Begin /\ ckpt' = [a \in Actions |-> "pending"]
         \/ /\ pc # "down" /\ next \in DOMAIN Order /\ ckpt[current] # "completed"
            /\ \E s \in {"in_progress", "failed", "completed"} :
                 /\ Record(current, s)
                 /\ s = "completed" => Looking /\ Exact(current)
<1>1. CASE Begin
  BY <1>1 DEF Begin
<1>2. CASE Recover
  BY <1>2 DEF Recover, Looking, Interrupted, RunInv, RestoreTypeOK
<1>3. CASE Mark
  BY <1>3 DEF Mark
<1>4. CASE Complete
  BY <1>4 DEF Complete, Looking, RunInv, RestoreTypeOK, CompleteIsExact, CurrentIsMarked, Applying
<1>5. CASE RecordFailure
  BY <1>5 DEF RecordFailure, RunInv, CurrentIsMarked, Applying
<1>6. CASE UNCHANGED vars
  BY <1>6 DEF vars
<1>. QED
  BY <1>1, <1>2, <1>3, <1>4, <1>5, <1>6
  DEF Next, Process, Resume, Reverify, Observe, ObserveFails, Mutate, MutateFails, Clash,
      Verify, CompleteFails, Finish, Crash, Change, fileVars

LEMMA PrefixStep ==
  ASSUME RunInv, CompletedIsPrefix, [Next]_vars PROVE CompletedIsPrefix'
<1>. SUFFICES ASSUME NEW i \in DOMAIN Order, NEW j \in DOMAIN Order, i < j,
                     ckpt'[Order[j]] = "completed"
              PROVE  ckpt'[Order[i]] = "completed"
  BY DEF CompletedIsPrefix
<1>1. CASE UNCHANGED ckpt
  BY <1>1 DEF CompletedIsPrefix
<1>2. CASE ckpt' = [a \in Actions |-> "pending"]
  BY <1>2, OrderFacts
<1>3. ASSUME pc # "down", next \in DOMAIN Order, ckpt[current] # "completed",
             NEW s \in {"in_progress", "failed", "completed"}, Record(current, s)
      PROVE  ckpt'[Order[i]] = "completed"
  <2>1. /\ ckpt'[current] = s
        /\ \A a \in Actions : a # current => ckpt'[a] = ckpt[a]
    BY <1>3, CurrentFacts DEF ActionStatuses
  <2>2. CASE j = next
    <3>1. Order[i] # current /\ ckpt[Order[i]] = "completed"
      BY <1>3, <2>2, OrderFacts DEF current, RunInv, PrefixIsExact
    <3>. QED
      BY <2>1, <3>1, OrderFacts
  <2>3. CASE j # next
    <3>1. Order[j] # current
      BY <1>3, <2>3, OrderFacts DEF current
    <3>2. ckpt[Order[j]] = "completed"
      BY <2>1, <3>1, OrderFacts
    <3>3. ckpt[Order[i]] = "completed"
      BY <3>2 DEF CompletedIsPrefix
    <3>4. Order[i] # current
      BY <1>3, <3>3
    <3>. QED
      BY <2>1, <3>3, <3>4, OrderFacts
  <2>. QED
    BY <2>2, <2>3
<1>. QED
  BY <1>1, <1>2, <1>3, CheckpointSteps

(* The action a process works on is not completed, and none after it is.    *)
LEMMA CompletedIsBefore ==
  ASSUME RunInv, CompletedIsPrefix, pc \in Applying,
         NEW i \in DOMAIN Order, ckpt[Order[i]] = "completed"
  PROVE  next \in DOMAIN Order /\ i < next
<1>1. next \in DOMAIN Order /\ ckpt[Order[next]] = "in_progress"
  BY DEF RunInv, CurrentIsMarked, current
<1>2. ~(next < i) /\ i # next
  BY <1>1 DEF CompletedIsPrefix
<1>. QED
  BY <1>1, <1>2, OrderFacts

LEMMA ExactStep ==
  ASSUME RunInv, CompletedIsPrefix, CompletedIsExact, [Next]_vars
  PROVE  CompletedIsExact'
<1>. SUFFICES ASSUME changes' = 0, NEW a \in Actions, ckpt'[a] = "completed"
              PROVE  Exact(a)'
  BY DEF CompletedIsExact
<1>1. CASE Mutate \/ MutateFails
  <2>1. PICK i \in DOMAIN Order : a = Order[i]
    BY DEF Actions
  <2>2. ckpt[a] = "completed" /\ changes = 0 /\ run' = run /\ pc \in Applying
    BY <1>1 DEF Mutate, MutateFails, Applying
  <2>3. Exact(Order[i]) /\ next \in DOMAIN Order /\ i < next
    BY <2>1, <2>2, CompletedIsBefore DEF CompletedIsExact
  <2>. QED
    BY <1>1, <2>1, <2>2, <2>3, MutatingTouchesCurrent, PrefixStaysExact DEF RunInv, current
<1>2. CASE Change
  BY <1>2 DEF Change, RunInv, RestoreTypeOK
<1>3. CASE ~Change /\ ~Mutate /\ ~MutateFails
  <2>1. UNCHANGED <<run, target, mapped, changes>>
    BY <1>3
    DEF vars, fileVars, Next, Process, Begin, Resume, Reverify, Recover, Mark, Observe,
        ObserveFails, Clash, Verify, Complete, CompleteFails, RecordFailure, Finish, Crash
  <2>2. Exact(a)' <=> Exact(a)
    BY <2>1 DEF Exact, Holds, Seen, Kind
  <2>3. ckpt[a] = "completed" => Exact(a)
    BY <2>1 DEF CompletedIsExact
  <2>4. ckpt' # [b \in Actions |-> "pending"]
    OBVIOUS
  <2>5. ASSUME pc # "down", next \in DOMAIN Order,
               NEW s \in {"in_progress", "failed", "completed"}, Record(current, s),
               s = "completed" => Exact(current)
        PROVE  ckpt[a] = "completed" \/ Exact(a)
    BY <2>5, CurrentFacts DEF ActionStatuses
  <2>. QED
    BY <2>2, <2>3, <2>4, <2>5, CheckpointSteps
<1>. QED
  BY <1>1, <1>2, <1>3

LEMMA PendingStep ==
  ASSUME RunInv, RestIsPending, [Next]_vars PROVE RestIsPending'
<1>. SUFFICES ASSUME pc' # "down", ~resumed', NEW i \in DOMAIN Order,
                     i > next' \/ (i = next' /\ pc' = "next")
              PROVE  ckpt'[Order[i]] = "pending"
  BY DEF RestIsPending
<1>1. CASE Begin
  BY <1>1, OrderFacts DEF Begin
<1>2. CASE Resume \/ Change \/ CompleteFails \/ RecordFailure \/ Finish \/ Crash
  BY <1>2 DEF Resume, Change, CompleteFails, RecordFailure, Finish, Crash, Down,
              RunInv, RestoreTypeOK
<1>4. CASE UNCHANGED vars
  BY <1>4 DEF vars, RestIsPending
<1>3. CASE /\ ~Begin /\ ~UNCHANGED vars
           /\ ~(Resume \/ Change \/ CompleteFails \/ RecordFailure \/ Finish \/ Crash)
  <2>1. /\ pc # "down" /\ resumed' = resumed
        /\ \/ next' = next /\ (pc' = "next" => pc = "next")
           \/ next' = next + 1 /\ next \in DOMAIN Order
    BY <1>3
    DEF Next, Process, Reverify, Recover, Mark, Observe, ObserveFails, Mutate,
        MutateFails, Clash, Verify, Complete, Down, Continue, RunInv, CurrentIsMarked, Applying
  <2>2. next \in Nat /\ i \in Nat
    BY OrderFacts DEF RunInv, RestoreTypeOK
  <2>3. i > next \/ (i = next /\ pc = "next" /\ pc' = "next")
    BY <2>1, <2>2
  <2>4. ckpt[Order[i]] = "pending"
    BY <2>1, <2>3 DEF RestIsPending
  <2>5. ASSUME next \in DOMAIN Order, NEW s, Record(current, s)
        PROVE  Order[i] # current
    <3>1. CASE i > next
      BY <2>5, <3>1, <2>2, OrderFacts DEF current
    <3>2. CASE i = next /\ pc = "next" /\ pc' = "next"
      <4>1. ~Mark /\ ~Complete /\ ~RecordFailure
        BY <3>2 DEF Mark, Complete, RecordFailure, Continue, Down
      <4>2. next' = next
        BY <2>1, <2>2, <3>2
      <4>3. ~Recover /\ ~Reverify
        BY <2>2, <4>2, <3>2 DEF Recover, Reverify, Down
      <4>. QED
        BY <1>3, <2>1, <3>2, <4>1, <4>3
        DEF Next, Process, Observe, ObserveFails, Mutate, MutateFails, Clash, Verify,
            Continue
    <3>. QED
      BY <2>3, <3>1, <3>2
  <2>6. Order[i] \in Actions
    BY OrderFacts
  <2>. QED
    BY <1>3, <2>1, <2>4, <2>5, <2>6, CheckpointSteps, CurrentFacts DEF ActionStatuses
<1>. QED
  BY <1>1, <1>2, <1>3, <1>4

LEMMA FreshStep == ASSUME FreshIsUnchanged, [Next]_vars PROVE FreshIsUnchanged'
BY DEF FreshIsUnchanged, vars, fileVars, Next, Process, Begin, Resume, Reverify, Recover, Mark,
       Observe, ObserveFails, Mutate, MutateFails, Clash, Verify, Complete, CompleteFails,
       RecordFailure, Finish, Crash, Change

LEMMA ProgressInitInv == Init => ProgressInv
BY OrderFacts DEF Init, ProgressInv, CompletedIsPrefix, CompletedIsExact, RestIsPending,
                  FreshIsUnchanged, EndedForAReason, NoCheckpoint

LEMMA EndStep == ASSUME RunInv, ProgressInv, [Next]_vars PROVE EndedForAReason'
<1>. EndedForAReason /\ changes \in Nat
  BY RunAssumption DEF ProgressInv, RunInv, RestoreTypeOK, RunAssumption
<1>1. CASE Mark
  <2>1. next \in DOMAIN Order /\ pc = "next" /\ UNCHANGED changes
    BY <1>1 DEF Mark
  <2>2. \A d \in Needs[current] : ckpt[d] = "completed"
    BY <2>1, NeedsAreBefore DEF current, RunInv, PrefixIsExact
  <2>. QED
    BY <1>1, <2>1, <2>2 DEF Mark, Continue, EndedForAReason
<1>2. CASE Reverify
  <2>1. next \in DOMAIN Order /\ ckpt[current] = "completed" /\ UNCHANGED changes
    BY <1>2 DEF Reverify
  <2>2. changes = 0 => Exact(current)
    BY <2>1, OrderFacts DEF ProgressInv, CompletedIsExact, current
  <2>. QED
    BY <1>2, <2>1, <2>2 DEF Reverify, Down, EndedForAReason
<1>3. CASE Change
  BY <1>3 DEF Change, EndedForAReason
<1>4. CASE RecordFailure
  BY <1>4 DEF RecordFailure, Down, EndedForAReason
<1>. QED
  BY <1>1, <1>2, <1>3, <1>4
  DEF vars, Next, Process, Begin, Resume, Recover, Observe, ObserveFails, Mutate,
      MutateFails, Clash, Verify, Complete, CompleteFails, Finish, Crash, Continue, Down,
      EndedForAReason

LEMMA ProgressNextKeepsInv == RunInv /\ ProgressInv /\ [Next]_vars => ProgressInv'
BY PrefixStep, ExactStep, PendingStep, FreshStep, EndStep DEF ProgressInv

(* Nothing is in the way: nobody changes the target, nor the plan.          *)
LEMMA WelcomeStays ==
  ASSUME [Next]_vars, Welcome'
  PROVE  Welcome /\ ~Change /\ run' = run
<1>1. run' = run /\ (fresh' => fresh /\ ~Change)
  BY DEF vars, fileVars, Next, Process, Begin, Resume, Reverify, Recover, Mark,
         Observe, ObserveFails, Mutate, MutateFails, Clash, Verify, Complete, CompleteFails,
         RecordFailure, Finish, Crash, Change
<1>. QED
  BY <1>1 DEF Welcome, OneShot, Kind

LEMMA WelcomeInitInv == Init => WelcomeInv
<1>. SUFFICES ASSUME Init, fresh, NEW a \in Actions PROVE Tolerable(a)
  BY DEF WelcomeInv, TargetIsTolerable, IntentIsEnough, Welcome, Init
<1>1. \/ Empty(a)
      \/ Kind(a) \in Replaceable /\ ~Strict
      \/ Kind(a) \in {"config", "patch", "rootkey"} /\ Exact(a)
      \/ Kind(a) = "rootkey" /\ ~target[a].secrets
  BY DEF Init, Strict
<1>2. Kind(a) \in {"config", "rootkey"} => ~Empty(a)
  BY RunAssumption DEF Init, Plausible, Empty, Seen, RunAssumption
<1>. QED
  BY <1>1, <1>2 DEF Tolerable, Replaceable, EdgeKinds, Empty, Differs

(* Where nothing is in the way, nothing is refused.                         *)
LEMMA TolerableIsNoConflict ==
  ASSUME Welcome, NEW a \in Actions, Tolerable(a) PROVE ~Conflict(a)
BY DEF Welcome, OneShot, Tolerable, Conflict, RowsConflict, RootKeyConflict,
       HistoryConflict, ExtensionsConflict, CatalogConflict, ItemsConflict, ConfigConflict, FunctionsConflict,
       SourcesConflict, CollectionConflict, KeysConflict, EdgeKinds, Differs, Strict

(* What apply sets out to do is enough.                                     *)
LEMMA WorkIsEnough ==
  ASSUME RestoreTypeOK, Welcome, NEW a \in Actions, Tolerable(a),
         Kind(a) = "sql" => Empty(a), todo' = Work(a), UNCHANGED <<run, target>>
  PROVE  Enough(a)'
<1>1. Kind(a) \in Kinds /\ Kind(a) # "keys" /\ Kind(a)' = Kind(a)
  BY RunAssumption DEF RunAssumption, RestoreTypeOK, Kind, Welcome, OneShot
<1>2. Seen(a)' = Seen(a) /\ (Empty(a)' <=> Empty(a)) /\ target'[a].foreign = target[a].foreign
  BY DEF Seen, Empty
<1>3. target[a].own \subseteq Units /\ target[a].alike \subseteq Units /\ target[a].foreign \in BOOLEAN
  BY DEF RestoreTypeOK, Held
<1>4. Exact(a) /\ Kind(a) # "check" => Seen(a) = Units /\ ~target[a].foreign
  BY <1>1 DEF Exact, Holds
<1>5. CASE Kind(a) = "check" \/ (Exact(a) /\ Kind(a) # "sql")
  BY <1>1, <1>2, <1>4, <1>5 DEF Work, Enough, Nothing
<1>6. CASE Kind(a) \in Transactional /\ ~(Exact(a) /\ Kind(a) # "sql")
  <2>2. ~(Kind(a) = "check" \/ (Exact(a) /\ Kind(a) # "sql"))
    BY <1>6 DEF Transactional
  <2>1. todo' = Whole /\ (Kind(a) \in {"sql", "dedicated"} => Empty(a))
    BY <1>6, <2>2 DEF Work, Tolerable, Transactional, EdgeKinds
  <2>. QED
    BY <1>1, <1>2, <1>6, <2>1 DEF Enough, Nothing, Whole, Transactional
<1>7. CASE Kind(a) \in {"history", "extensions"} /\ ~Exact(a)
  BY <1>1, <1>2, <1>3, <1>7 DEF Work, Enough, Nothing, Tolerable, Transactional, Seen
<1>8. CASE Kind(a) \in {"items"} \cup EdgeKinds /\ ~Exact(a)
  BY <1>1, <1>2, <1>3, <1>8 DEF Work, Enough, Nothing, EdgeKinds, Transactional, Seen
<1>9. CASE Kind(a) = "collection" /\ ~Exact(a)
  BY <1>1, <1>2, <1>3, <1>9 DEF Work, Enough, Nothing, EdgeKinds, Transactional, Seen
<1>. QED
  <2>1. \/ Kind(a) = "check" \/ Kind(a) \in Transactional
        \/ Kind(a) \in {"history", "extensions"}
        \/ Kind(a) \in {"items"} \cup EdgeKinds \/ Kind(a) = "collection"
    BY <1>1 DEF Kinds
  <2>2. Kind(a) # "sql" \/ Kind(a) \in Transactional
    BY DEF Transactional
  <2>. QED
    BY <1>5, <1>6, <1>7, <1>8, <1>9, <2>1, <2>2, Zenon

(* Every effect leaves enough to do, and no more than can be done.          *)
LEMMA EffectKeepsEnough ==
  ASSUME RunInv, Welcome, pc = "mutate", current \in Actions, Enough(current), Effect,
         UNCHANGED <<run, next>>
  PROVE  Enough(current)'
<1>. DEFINE a == current
<1>1. target \in [Actions -> Held] /\ todo \in Effects /\ current' = current
      /\ Kind(a)' = Kind(a) /\ a \in Actions
  BY DEF RunInv, RestoreTypeOK, current, Kind
<1>2. CASE ClearForeign
  <2>1. next \in DOMAIN Order /\ RestoreTypeOK
    BY DEF RunInv, CurrentIsMarked, Applying
  <2>2. todo.clear /\ todo' = [todo EXCEPT !.clear = FALSE]
        /\ target'[a] = [target[a] EXCEPT !.foreign = FALSE]
    BY <1>2, <2>1, SweepFacts DEF ClearForeign
  <2>. QED
    BY <1>1, <2>2 DEF Enough, Effects, Held, Seen, Empty, Nothing, Whole
<1>3. ASSUME NEW u \in Units, DropUnit(u) PROVE Enough(a)'
  BY <1>1, <1>3 DEF DropUnit, Enough, Effects, Held, Seen, Empty, Nothing, Whole, Transactional
<1>4. ASSUME NEW u \in Units, PutUnit(u) PROVE Enough(a)'
  BY <1>1, <1>4 DEF PutUnit, Enough, Effects, Held, Seen, Empty, Nothing, Whole, Transactional
<1>5. ASSUME NEW u \in Units, Deploy(u) PROVE Enough(a)'
  BY <1>1, <1>5 DEF Deploy, Enough, Effects, Held, Seen, Empty, Nothing, Whole, EdgeKinds
<1>6. CASE PutWhole
  <2>1. Mixes = FALSE
    BY <1>6 DEF PutWhole, Enough, Mixes
  <2>5. Kind(a) # "check" /\ ~todo.map
    BY <1>6 DEF PutWhole, Enough, Nothing
  <2>3. ~todo'.whole /\ todo'.map = todo.map /\ todo'.drop = todo.drop
        /\ todo'.put = todo.put /\ todo'.clear = todo.clear
    BY <1>1, <1>6 DEF PutWhole, Effects
  <2>4. Seen(a)' = Units /\ ~target'[a].foreign
    BY <1>1, <1>6, <2>1 DEF PutWhole, Seen, Held
  <2>. QED
    BY <1>1, <2>3, <2>4, <2>5, <1>6 DEF Enough
<1>7. CASE WriteMap
  BY <1>7 DEF WriteMap, Enough
<1>. QED
  BY <1>2, <1>3, <1>4, <1>5, <1>6, <1>7 DEF Effect

(* No effect leaves anything the handler would refuse.                      *)
LEMMA EffectKeepsTolerable ==
  ASSUME RunInv, Welcome, pc = "mutate", current \in Actions, Enough(current),
         Tolerable(current), ckpt[current] = "in_progress", Effect \/ EmptyOnly,
         UNCHANGED <<run, next, ckpt>>
  PROVE  Tolerable(current)'
<1>. DEFINE a == current
<1>1. target \in [Actions -> Held] /\ todo \in Effects /\ current' = current
      /\ Kind(a)' = Kind(a) /\ a \in Actions /\ (Strict' <=> Strict)
      /\ ckpt'[a] = "in_progress"
  BY DEF RunInv, RestoreTypeOK, current, Kind, Strict
<1>4. Kind(a) # "keys"
  BY DEF Welcome, OneShot
<1>5. todo # Nothing
  BY DEF Effect, EmptyOnly, ClearForeign, DropUnit, PutUnit, Deploy, PutWhole, WriteMap, Nothing
<1>6. Kind(a) # "check"
  BY <1>5 DEF Enough
<1>2. CASE PutWhole
  <2>1. Mixes = FALSE
    BY <1>2 DEF PutWhole, Enough, Mixes
  <2>2. target'[a] = [own |-> Units, alike |-> {}, odd |-> {}, foreign |-> FALSE,
                      secrets |-> target[a].secrets]
    BY <1>1, <1>2, <2>1 DEF PutWhole
  <2>3. Exact(a)'
    BY <1>1, <1>4, <1>6, <2>2 DEF Exact, Holds, Seen
  <2>. QED
    BY <1>1, <2>2, <2>3 DEF Tolerable, Differs, EdgeKinds
<1>3. CASE ~PutWhole
  <2>1. Kind(a) \notin Transactional
    BY <1>3 DEF Effect, EmptyOnly, Enough, ClearForeign, DropUnit, PutUnit, Deploy, WriteMap
  <2>4. next \in DOMAIN Order /\ RestoreTypeOK
    BY DEF RunInv, CurrentIsMarked, Applying
  <2>2. target'[a].foreign => target[a].foreign
    <3>1. CASE ClearForeign \/ EmptyOnly
      BY <1>1, <2>4, <3>1, SweepFacts DEF ClearForeign, EmptyOnly, Held
    <3>2. CASE ~ClearForeign /\ ~EmptyOnly
      BY <1>1, <1>3, <3>2 DEF Effect, DropUnit, PutUnit, Deploy, WriteMap, Held
    <3>. QED
      BY <3>1, <3>2
  <2>3. target'[a].odd \subseteq target[a].odd
    BY <1>1, <2>4, EffectsShrink
  <2>. QED
    BY <1>1, <2>1, <2>2, <2>3 DEF Tolerable, Transactional, Differs
<1>. QED
  BY <1>2, <1>3

(* A component that is not touched, or whose entry only goes on, stays.     *)
LEMMA TolerableStays ==
  ASSUME NEW a \in Actions, Tolerable(a), run' = run, target'[a] = target[a],
         Kind(a) \in {"dedicated", "rows", "rootkey", "config", "sql"} =>
           (Exact(a) => Exact(a)'),
         ckpt'[a] \in {"none", "pending"} => ckpt[a] \in {"none", "pending"}
  PROVE  Tolerable(a)'
BY DEF Tolerable, Strict, Kind, Empty, Seen, Differs

LEMMA TolerableStep ==
  ASSUME RunInv, WelcomeInv, [Next]_vars PROVE TargetIsTolerable'
<1>. SUFFICES ASSUME Welcome', NEW a \in Actions PROVE Tolerable(a)'
  BY DEF TargetIsTolerable
<1>1. Welcome /\ ~Change /\ run' = run
  BY WelcomeStays
<1>2. Tolerable(a)
  BY <1>1 DEF WelcomeInv, TargetIsTolerable
<1>3. CASE Mutate \/ MutateFails
  <2>1. /\ pc = "mutate" /\ UNCHANGED <<run, next, ckpt>> /\ Enough(current)
        /\ Effect \/ EmptyOnly \/ UNCHANGED <<target, mapped>>
    BY <1>1, <1>3 DEF Mutate, MutateFails, Continue, WelcomeInv, IntentIsEnough
  <2>2. current' = current /\ current \in Actions /\ ckpt[current] = "in_progress"
    BY <1>3, <2>1, MutatingTouchesCurrent DEF current
  <2>3. CASE a = current /\ (Effect \/ EmptyOnly)
    BY <1>1, <1>2, <2>1, <2>2, <2>3, EffectKeepsTolerable
  <2>5. CASE a # current /\ target'[a] # target[a]
    <3>1. Kind(a) = "items" /\ target'[a] \in Remains(a)
      BY <1>3, <2>5, MutatingTouchesCurrent DEF Elsewhere, Inside
    <3>2. target'[a].odd = target[a].odd /\ (target'[a].foreign => target[a].foreign)
      BY <3>1, RemainsFacts DEF RunInv
    <3>. QED
      BY <1>1, <1>2, <3>1, <3>2 DEF Tolerable, Kind, Strict, Differs
  <2>4. CASE (a # current /\ target'[a] = target[a]) \/ UNCHANGED <<target, mapped>>
    <3>1. target'[a] = target[a] /\ (a \in mapped' <=> a \in mapped)
      BY <1>3, <2>4, MutatingTouchesCurrent DEF Elsewhere
    <3>2. Kind(a) # "check" => (Exact(a) => Exact(a)')
      BY <1>1, <3>1 DEF Exact, Holds, Seen, Kind
    <3>. QED
      BY <1>1, <1>2, <2>1, <3>1, <3>2, TolerableStays
  <2>. QED
    BY <2>1, <2>3, <2>4, <2>5
<1>4. CASE ~Mutate /\ ~MutateFails
  <2>1. UNCHANGED <<target, mapped>>
    BY <1>1, <1>4
    DEF vars, fileVars, Next, Process, Begin, Resume, Reverify, Recover, Mark, Observe,
        ObserveFails, Clash, Verify, Complete, CompleteFails, RecordFailure, Finish, Crash
  <2>2. ckpt'[a] \in {"none", "pending"} => ckpt[a] \in {"none", "pending"}
    <3>1. CASE Begin
      BY <3>1 DEF Begin, NoCheckpoint
    <3>2. ASSUME pc # "down", next \in DOMAIN Order,
                 NEW s \in {"in_progress", "failed", "completed"}, Record(current, s)
          PROVE  ckpt'[a] \in {"none", "pending"} => ckpt[a] \in {"none", "pending"}
      BY <3>2, CurrentFacts DEF ActionStatuses
    <3>. QED
      BY <3>1, <3>2, CheckpointSteps
  <2>3. Exact(a) => Exact(a)'
    BY <1>1, <2>1 DEF Exact, Holds, Seen, Kind
  <2>. QED
    BY <1>1, <1>2, <2>1, <2>2, <2>3, TolerableStays
<1>. QED
  BY <1>3, <1>4

LEMMA IntentStep ==
  ASSUME RunInv, ProgressInv, WelcomeInv, [Next]_vars PROVE IntentIsEnough'
<1>. SUFFICES ASSUME Welcome', pc' \in {"observe", "mutate", "conflict"}
              PROVE  /\ pc' # "conflict"
                     /\ (pc' = "observe" /\ Kind(current)' = "sql") => Empty(current)'
                     /\ pc' = "mutate" => Enough(current)'
  BY DEF IntentIsEnough
<1>1. Welcome /\ ~Change /\ run' = run
  BY WelcomeStays
<1>2. \A a \in Actions : Tolerable(a)
  BY <1>1 DEF WelcomeInv, TargetIsTolerable
<1>3. CASE Mark
  <2>1. /\ pc = "next" /\ next \in DOMAIN Order /\ UNCHANGED <<run, target, next>>
        /\ pc' = "observe" /\ ckpt[current] # "completed"
        /\ ~(Interrupted /\ Exact(current))
    BY <1>3 DEF Mark, Continue, Down
  <2>2. current \in Actions /\ current' = current /\ ckpt[current] \in ActionStatuses
    BY <2>1, CurrentFacts DEF current, RunInv, CheckpointIsThere
  <2>3. resumed \/ ckpt[current] = "pending"
    BY <2>1 DEF ProgressInv, RestIsPending, current
  <2>4. Kind(current) = "sql" => Empty(current)
    BY <1>2, <2>1, <2>2, <2>3 DEF Tolerable, Interrupted, ActionStatuses
  <2>. QED
    BY <2>1, <2>2, <2>4 DEF Empty, Seen, Kind
<1>4. CASE Observe
  <2>1. /\ pc = "observe" /\ UNCHANGED <<run, target, next>>
        /\ next \in DOMAIN Order /\ current \in Actions /\ current' = current
    BY <1>4, CurrentFacts DEF Observe, Continue, fileVars, RunInv, CurrentIsMarked, Applying,
                              current
  <2>2. pc' = "mutate" /\ todo' = Work(current)
    BY <1>2, <1>1, <2>1, <1>4, TolerableIsNoConflict DEF Observe, Continue
  <2>3. Kind(current) = "sql" => Empty(current)
    BY <1>1, <2>1 DEF WelcomeInv, IntentIsEnough
  <2>4. Enough(current)'
    <3>. DEFINE a == Order[next]
    <3>1. Enough(a)'
      BY <1>1, <1>2, <2>1, <2>2, <2>3, WorkIsEnough DEF RunInv, current
    <3>. QED
      BY <2>1, <3>1 DEF current
  <2>. QED
    BY <2>2, <2>4
<1>5. CASE Mutate
  <2>1. /\ pc = "mutate" /\ Effect /\ pc' = pc /\ UNCHANGED <<run, next>>
        /\ Enough(current)
    BY <1>1, <1>5 DEF Mutate, WelcomeInv, IntentIsEnough
  <2>. QED
    BY <1>1, <1>5, <2>1, EffectKeepsEnough, MutatingTouchesCurrent
<1>6. CASE UNCHANGED vars
  BY <1>1, <1>6 DEF vars, WelcomeInv, IntentIsEnough, Enough, Empty, Seen, Kind, current
<1>. QED
  BY <1>1, <1>3, <1>4, <1>5, <1>6
  DEF Next, Process, Begin, Resume, Reverify, Recover, ObserveFails, MutateFails, Clash,
      Verify, Complete, CompleteFails, RecordFailure, Finish, Crash, Continue, Down

StopInv == RunInv /\ ProgressInv /\ WelcomeInv

LEMMA StopInvariant == Spec => []StopInv
<1>1. Init => StopInv
  BY RunInitInv, ProgressInitInv, WelcomeInitInv DEF StopInv
<1>2. StopInv /\ [Next]_vars => StopInv'
  BY RunNextKeepsInv, ProgressNextKeepsInv, TolerableStep, IntentStep DEF StopInv, WelcomeInv
<1>. QED
  BY <1>1, <1>2, PTL DEF Spec

(* Once everything is put, verify finds the component exact.                *)
LEMMA NothingLeftIsExact ==
  ASSUME StopInv, Welcome, pc = "mutate", todo = Nothing PROVE Exact(current)
<1>1. next \in DOMAIN Order /\ current \in Actions
  BY CurrentFacts DEF StopInv, RunInv, CurrentIsMarked, Applying
<1>2. Enough(current) /\ Kind(current) # "keys"
  BY <1>1 DEF StopInv, WelcomeInv, IntentIsEnough, Welcome, OneShot
<1>3. CASE Kind(current) = "check"
  <2>. SUFFICES ASSUME NEW d \in Needs[current] PROVE Holds(d)
    BY <1>3 DEF Exact
  <2>1. PICK j \in DOMAIN Order : j < next /\ d = Order[j]
    BY <1>1, NeedsAreBefore DEF current
  <2>2. Exact(d)
    BY <2>1 DEF StopInv, RunInv, PrefixIsExact
  <2>3. Kind(d) # "check"
    BY <1>1, <1>3, CheckAssumption DEF CheckAssumption, Kind, StopInv, RunInv, RestoreTypeOK
  <2>. QED
    BY <2>2, <2>3 DEF Exact
<1>4. CASE Kind(current) # "check"
  <2>1. target[current].own \subseteq Units /\ target[current].alike \subseteq Units
    BY <1>1 DEF StopInv, RunInv, RestoreTypeOK, Held
  <2>2. Units \subseteq Seen(current) /\ ~target[current].foreign
    BY <1>2, <1>4 DEF Enough, Nothing
  <2>. QED
    BY <1>2, <1>4, <2>1, <2>2 DEF Exact, Holds, Seen
<1>. QED
  BY <1>3, <1>4

(* A process ends for a reason: its dependencies are always completed, what *)
(* the checkpoint calls completed is exact unless somebody changed the      *)
(* target, and where nothing is in the way only a failing call fails.       *)
THEOREM StopsForAReason == Spec => RestoreStopsForAReason
<1>1. StopInv /\ [Next]_vars =>
        [/\ outcome' # "RESTORE_DEPENDENCY_UNSATISFIED"
         /\ outcome' = "RESTORE_RESUME_PARITY_FAILED" => changes > 0
         /\ (fresh /\ \A a \in Actions : ~OneShot(a)) =>
              /\ pc' # "conflict"
              /\ (pc # "failed" /\ pc' = "failed") => faults' > faults]_vars
  <2>. SUFFICES ASSUME StopInv, [Next]_vars
                PROVE  /\ outcome' # "RESTORE_DEPENDENCY_UNSATISFIED"
                       /\ outcome' = "RESTORE_RESUME_PARITY_FAILED" => changes > 0
                       /\ Welcome => /\ pc' # "conflict"
                                     /\ (pc # "failed" /\ pc' = "failed") => faults' > faults
    BY DEF Welcome
  <2>1. outcome' # "RESTORE_DEPENDENCY_UNSATISFIED"
    BY EndStep DEF StopInv, EndedForAReason
  <2>2. outcome' = "RESTORE_RESUME_PARITY_FAILED" => changes > 0
    <3>1. Change => outcome' = outcome
      BY DEF Change
    <3>2. ~Change => changes' = changes
      BY DEF vars, Next, Process, Begin, Resume, Reverify, Recover, Mark, Observe,
             ObserveFails, Mutate, MutateFails, Clash, Verify, Complete, CompleteFails,
             RecordFailure, Finish, Crash, fileVars
    <3>. QED
      BY <3>1, <3>2, EndStep DEF StopInv, ProgressInv, EndedForAReason
  <2>3. ASSUME Welcome, pc # "failed", pc' = "failed" PROVE faults' > faults
    <3>1. ~Verify
      BY <2>3, NothingLeftIsExact DEF Verify, Continue
    <3>2. ~Clash
      BY <2>3 DEF Clash, StopInv, WelcomeInv, IntentIsEnough, Enough, Mixes
    <3>3. ObserveFails \/ MutateFails => faults' > faults
      BY RunAssumption DEF ObserveFails, MutateFails, Fault, StopInv, RunInv, RestoreTypeOK,
                           RunAssumption
    <3>. QED
      BY <2>3, <3>1, <3>2, <3>3
      DEF vars, Next, Process, Begin, Resume, Reverify, Recover, Mark, Observe, Mutate,
          Complete, CompleteFails, RecordFailure, Finish, Crash, Change, Continue, Down
  <2>4. ASSUME Welcome, pc' = "conflict" PROVE FALSE
    <3>1. CASE Observe
      <4>1. current \in Actions
        BY <3>1, CurrentFacts DEF Observe, StopInv, RunInv, CurrentIsMarked, Applying
      <4>2. ~Conflict(current)
        BY <2>4, <4>1, TolerableIsNoConflict DEF StopInv, WelcomeInv, TargetIsTolerable
      <4>. QED
        BY <2>4, <3>1, <4>2 DEF Observe, Continue
    <3>2. CASE pc = "conflict"
      BY <2>4, <3>2 DEF StopInv, WelcomeInv, IntentIsEnough
    <3>. QED
      BY <2>4, <3>1, <3>2
      DEF vars, Next, Process, Begin, Resume, Reverify, Recover, Mark, ObserveFails, Mutate,
          MutateFails, Clash, Verify, Complete, CompleteFails, RecordFailure, Finish, Crash,
          Change, Continue, Down
  <2>. QED
    BY <2>1, <2>2, <2>3, <2>4
<1>. QED
  BY <1>1, StopInvariant, PTL DEF Spec, RestoreStopsForAReason

(* The steps a process can still take: of the action it works on, and of    *)
(* the positions after it, each marked, observed, carried out unit by unit, *)
(* verified and recorded.                                                   *)
Times(b) == IF b THEN 1 ELSE 0
EffectsLeft ==
  Times(todo.clear) + Cardinality(todo.drop) + Cardinality(todo.put)
    + Times(todo.whole) + Times(todo.map)
ActionSteps == 2 * Cardinality(Units) + 7
LeftOfAction ==
  CASE pc = "observe" -> ActionSteps - 1
    [] pc = "mutate" -> EffectsLeft + 2
    [] pc \in {"complete", "failed", "conflict"} -> 1
    [] pc \in {"down", "next"} -> 0
PositionsLeft == IF pc = "next" THEN Len(Order) + 1 - next ELSE Len(Order) - next
StepsLeft == IF pc = "down" THEN 0 ELSE PositionsLeft * ActionSteps + LeftOfAction + 1

RestoreStepsAreCounted ==
  [][/\ StepsLeft' \in 0..(Len(Order) * ActionSteps + 1)
     /\ pc # "down" => StepsLeft' < StepsLeft]_vars

LEMMA ProductsGrow ==
  ASSUME NEW n \in Nat, NEW m \in Nat, NEW w \in Nat, n <= m
  PROVE  n * w \in Nat /\ m * w \in Nat /\ n * w <= m * w
<1>1. m - n \in Nat /\ (m - n) * w \in Nat /\ m * w = n * w + (m - n) * w
  OBVIOUS
<1>2. n * w \in Nat
  OBVIOUS
<1>. QED
  BY <1>1, <1>2

LEMMA ProductsShrink ==
  ASSUME NEW n \in Nat, NEW w \in Nat, n > 0
  PROVE  (n - 1) * w \in Nat /\ n * w \in Nat /\ (n - 1) * w = n * w - w
OBVIOUS

LEMMA EffectsAreCounted ==
  ASSUME RestoreTypeOK
  PROVE  /\ Cardinality(Units) \in Nat
         /\ IsFiniteSet(todo.drop) /\ IsFiniteSet(todo.put)
         /\ Cardinality(todo.drop) \in Nat /\ Cardinality(todo.put) \in Nat
         /\ EffectsLeft \in 0..(2 * Cardinality(Units) + 3)
<1>1. todo.drop \in SUBSET Units /\ todo.put \in SUBSET Units
  BY DEF RestoreTypeOK, Effects
<1>2. /\ IsFiniteSet(todo.drop) /\ Cardinality(todo.drop) <= Cardinality(Units)
      /\ IsFiniteSet(todo.put) /\ Cardinality(todo.put) <= Cardinality(Units)
  BY <1>1, UnitsAssumption, FS_Subset DEF UnitsAssumption
<1>3. /\ Cardinality(Units) \in Nat
      /\ Cardinality(todo.drop) \in Nat /\ Cardinality(todo.put) \in Nat
  BY <1>2, UnitsAssumption, FS_CardinalityType DEF UnitsAssumption
<1>4. \A b : Times(b) \in 0..1
  BY DEF Times
<1>. QED
  BY <1>2, <1>3, <1>4 DEF EffectsLeft

(* An effect that is made is one fewer to make.                             *)
LEMMA EffectIsCounted ==
  ASSUME RestoreTypeOK, Effect
  PROVE  EffectsLeft' = EffectsLeft - 1
<1>1. /\ IsFiniteSet(todo.drop) /\ IsFiniteSet(todo.put)
      /\ Cardinality(todo.drop) \in Nat /\ Cardinality(todo.put) \in Nat
  BY EffectsAreCounted
<1>2. todo \in Effects
  BY DEF RestoreTypeOK
<1>3. \A b : Times(b) \in 0..1
  BY DEF Times
<1>4. CASE ClearForeign
  <2>1. todo.clear /\ todo' = [todo EXCEPT !.clear = FALSE]
    BY <1>4 DEF ClearForeign
  <2>2. Times(todo.clear) = 1 /\ Times(todo'.clear) = 0
    BY <1>2, <2>1 DEF Times, Effects
  <2>3. /\ todo'.drop = todo.drop /\ todo'.put = todo.put
        /\ todo'.whole = todo.whole /\ todo'.map = todo.map
    BY <1>2, <2>1 DEF Effects
  <2>. QED
    BY <1>1, <1>3, <2>2, <2>3 DEF EffectsLeft
<1>5. ASSUME NEW u \in Units, DropUnit(u) PROVE EffectsLeft' = EffectsLeft - 1
  <2>1. u \in todo.drop /\ todo' = [todo EXCEPT !.drop = @ \ {u}]
    BY <1>5 DEF DropUnit
  <2>2. Cardinality(todo.drop \ {u}) = Cardinality(todo.drop) - 1
    BY <1>1, <2>1, FS_RemoveElement
  <2>3. /\ todo'.clear = todo.clear /\ todo'.drop = todo.drop \ {u}
        /\ todo'.put = todo.put /\ todo'.whole = todo.whole /\ todo'.map = todo.map
    BY <1>2, <2>1 DEF Effects
  <2>. QED
    BY <1>1, <1>3, <2>2, <2>3 DEF EffectsLeft
<1>6. ASSUME NEW u \in Units, PutUnit(u) \/ Deploy(u) PROVE EffectsLeft' = EffectsLeft - 1
  <2>1. u \in todo.put /\ todo' = [todo EXCEPT !.put = @ \ {u}]
    BY <1>6 DEF PutUnit, Deploy
  <2>2. Cardinality(todo.put \ {u}) = Cardinality(todo.put) - 1
    BY <1>1, <2>1, FS_RemoveElement
  <2>3. /\ todo'.clear = todo.clear /\ todo'.put = todo.put \ {u}
        /\ todo'.drop = todo.drop /\ todo'.whole = todo.whole /\ todo'.map = todo.map
    BY <1>2, <2>1 DEF Effects
  <2>. QED
    BY <1>1, <1>3, <2>2, <2>3 DEF EffectsLeft
<1>7. CASE PutWhole
  <2>1. todo.whole /\ todo' = [todo EXCEPT !.whole = FALSE]
    BY <1>7 DEF PutWhole
  <2>2. Times(todo.whole) = 1 /\ Times(todo'.whole) = 0
    BY <1>2, <2>1 DEF Times, Effects
  <2>3. /\ todo'.drop = todo.drop /\ todo'.put = todo.put
        /\ todo'.clear = todo.clear /\ todo'.map = todo.map
    BY <1>2, <2>1 DEF Effects
  <2>. QED
    BY <1>1, <1>3, <2>2, <2>3 DEF EffectsLeft
<1>8. CASE WriteMap
  <2>1. todo.map /\ todo' = [todo EXCEPT !.map = FALSE]
    BY <1>8 DEF WriteMap
  <2>2. Times(todo.map) = 1 /\ Times(todo'.map) = 0
    BY <1>2, <2>1 DEF Times, Effects
  <2>3. /\ todo'.drop = todo.drop /\ todo'.put = todo.put
        /\ todo'.clear = todo.clear /\ todo'.whole = todo.whole
    BY <1>2, <2>1 DEF Effects
  <2>. QED
    BY <1>1, <1>3, <2>2, <2>3 DEF EffectsLeft
<1>. QED
  BY <1>4, <1>5, <1>6, <1>7, <1>8 DEF Effect

StepsAreTyped ==
  /\ ActionSteps \in Nat \ {0} /\ Len(Order) \in Nat
  /\ LeftOfAction \in 0..(ActionSteps - 1)
  /\ pc # "down" => PositionsLeft \in 0..Len(Order)
  /\ pc \in Applying => PositionsLeft < Len(Order)
  /\ StepsLeft \in 0..(Len(Order) * ActionSteps + 1)

LEMMA RestoreStepsTyped == RunInv => StepsAreTyped
<1>. SUFFICES ASSUME RunInv PROVE StepsAreTyped
  OBVIOUS
<1>1. RestoreTypeOK /\ next \in 1..(Len(Order) + 1) /\ Len(Order) \in Nat
  BY OrderFacts DEF RunInv, RestoreTypeOK
<1>2. pc \in Applying => next \in 1..Len(Order)
  BY OrderFacts DEF RunInv, CurrentIsMarked
<1>3. pc \in Applying \cup {"down", "next"}
  BY <1>1 DEF RestoreTypeOK, Applying
<1>4. Cardinality(Units) \in Nat /\ EffectsLeft \in 0..(2 * Cardinality(Units) + 3)
  BY <1>1, EffectsAreCounted
<1>5. ActionSteps \in Nat \ {0}
  BY <1>4 DEF ActionSteps
<1>6. LeftOfAction \in 0..(ActionSteps - 1) /\ (pc \notin Applying => LeftOfAction = 0)
  BY <1>3, <1>4 DEF LeftOfAction, ActionSteps, Applying
<1>7. /\ pc # "down" => PositionsLeft \in 0..Len(Order)
      /\ pc \in Applying => PositionsLeft < Len(Order)
  BY <1>1, <1>2, <1>3 DEF PositionsLeft, Applying
<1>8. StepsLeft \in 0..(Len(Order) * ActionSteps + 1)
  <2>1. Len(Order) * ActionSteps \in Nat
    BY <1>1, <1>5
  <2>2. CASE pc = "down"
    BY <2>1, <2>2 DEF StepsLeft
  <2>3. CASE pc = "next"
    <3>1. PositionsLeft * ActionSteps \in Nat
          /\ PositionsLeft * ActionSteps <= Len(Order) * ActionSteps
      BY <1>1, <1>5, <1>7, <2>3, ProductsGrow
    <3>2. StepsLeft = PositionsLeft * ActionSteps + 1
      BY <1>6, <2>3, <3>1 DEF StepsLeft, Applying
    <3>. QED
      BY <2>1, <3>1, <3>2
  <2>4. CASE pc \in Applying
    <3>1. PositionsLeft + 1 \in Nat /\ PositionsLeft + 1 <= Len(Order) /\ PositionsLeft + 1 > 0
      BY <1>1, <1>7, <2>4 DEF Applying
    <3>2. (PositionsLeft + 1) * ActionSteps <= Len(Order) * ActionSteps
      BY <1>1, <1>5, <3>1, ProductsGrow
    <3>3. /\ PositionsLeft * ActionSteps \in Nat
          /\ (PositionsLeft + 1) * ActionSteps = PositionsLeft * ActionSteps + ActionSteps
      BY <1>5, <1>7, <2>4 DEF Applying
    <3>4. StepsLeft = PositionsLeft * ActionSteps + LeftOfAction + 1
      BY <2>4 DEF StepsLeft, Applying
    <3>. QED
      BY <1>5, <1>6, <2>1, <3>2, <3>3, <3>4
  <2>. QED
    BY <1>3, <2>2, <2>3, <2>4
<1>. QED
  BY <1>1, <1>5, <1>6, <1>7, <1>8 DEF StepsAreTyped

(* What leads on within an action leaves less of it; what leads to another  *)
(* one is paid for by its position.                                         *)
LEMMA ActionGoesOn ==
  ASSUME StepsAreTyped, StepsAreTyped', pc # "down", pc' # "down",
         \/ PositionsLeft' = PositionsLeft /\ LeftOfAction' < LeftOfAction
         \/ PositionsLeft' = PositionsLeft - 1 /\ LeftOfAction' < ActionSteps + LeftOfAction
  PROVE  StepsLeft' < StepsLeft
<1>1. /\ ActionSteps \in Nat /\ PositionsLeft \in Nat /\ PositionsLeft' \in Nat
      /\ LeftOfAction \in Nat /\ LeftOfAction' \in Nat
  BY DEF StepsAreTyped
<1>2. /\ StepsLeft = PositionsLeft * ActionSteps + LeftOfAction + 1
      /\ StepsLeft' = PositionsLeft' * ActionSteps + LeftOfAction' + 1
  BY DEF StepsLeft, ActionSteps
<1>3. CASE PositionsLeft' = PositionsLeft /\ LeftOfAction' < LeftOfAction
  <2>1. PositionsLeft * ActionSteps \in Nat
    BY <1>1
  <2>2. PositionsLeft' * ActionSteps = PositionsLeft * ActionSteps
    BY <1>3
  <2>3. \A n, k, l \in Nat : k < l => n + k + 1 < n + l + 1
    OBVIOUS
  <2>4. StepsLeft' = PositionsLeft * ActionSteps + LeftOfAction' + 1
    BY <1>2, <2>2
  <2>. QED
    BY <1>1, <1>2, <1>3, <2>1, <2>3, <2>4
<1>4. CASE PositionsLeft' = PositionsLeft - 1 /\ LeftOfAction' < ActionSteps + LeftOfAction
  <2>1. PositionsLeft > 0
    BY <1>1, <1>4
  <2>2. /\ (PositionsLeft - 1) * ActionSteps = PositionsLeft * ActionSteps - ActionSteps
        /\ PositionsLeft * ActionSteps \in Nat
    BY <1>1, <2>1, ProductsShrink
  <2>3. \A n, k, l, w \in Nat : k < w + l => n - w + k + 1 < n + l + 1
    OBVIOUS
  <2>4. StepsLeft' = PositionsLeft * ActionSteps - ActionSteps + LeftOfAction' + 1
    BY <1>2, <1>4, <2>2
  <2>. QED
    BY <1>1, <1>2, <1>4, <2>2, <2>3, <2>4
<1>. QED
  BY <1>3, <1>4

LEMMA RestoreStepIsCounted ==
  ASSUME RunInv, StepsAreTyped, StepsAreTyped', Next, pc # "down"
  PROVE  StepsLeft' < StepsLeft
<1>1. RestoreTypeOK /\ next \in 1..(Len(Order) + 1) /\ DOMAIN Order = 1..Len(Order)
      /\ Len(Order) \in Nat
  BY OrderFacts DEF RunInv, RestoreTypeOK
<1>2. ASSUME pc' = "down" PROVE StepsLeft' < StepsLeft
  <2>1. PositionsLeft * ActionSteps \in Nat /\ LeftOfAction \in Nat
    BY DEF StepsAreTyped
  <2>. QED
    BY <1>2, <2>1 DEF StepsLeft
<1>3. CASE Reverify \/ Recover
  <2>1. \/ pc' = "down"
        \/ pc = "next" /\ pc' = "next" /\ next' = next + 1
    BY <1>3 DEF Reverify, Recover, Down
  <2>2. ASSUME pc = "next", pc' = "next", next' = next + 1 PROVE StepsLeft' < StepsLeft
    <3>1. /\ PositionsLeft = Len(Order) + 1 - next
          /\ PositionsLeft' = Len(Order) + 1 - (next + 1)
      BY <2>2 DEF PositionsLeft
    <3>2. LeftOfAction = 0 /\ LeftOfAction' = 0
      BY <2>2 DEF LeftOfAction
    <3>3. PositionsLeft' = PositionsLeft - 1
      BY <1>1, <3>1
    <3>4. LeftOfAction' < ActionSteps + LeftOfAction
      BY <3>2 DEF StepsAreTyped
    <3>. QED
      BY <2>2, <3>3, <3>4, ActionGoesOn
  <2>. QED
    BY <1>2, <2>1, <2>2
<1>4. CASE Mark
  <2>1. \/ pc' = "down"
        \/ pc = "next" /\ pc' = "observe" /\ next' = next
    BY <1>4 DEF Mark, Down, Continue
  <2>2. ASSUME pc = "next", pc' = "observe", next' = next PROVE StepsLeft' < StepsLeft
    <3>1. /\ PositionsLeft = Len(Order) + 1 - next
          /\ PositionsLeft' = Len(Order) - next
      BY <2>2 DEF PositionsLeft
    <3>2. LeftOfAction = 0 /\ LeftOfAction' = ActionSteps - 1
      BY <2>2 DEF LeftOfAction, ActionSteps
    <3>3. PositionsLeft' = PositionsLeft - 1
      BY <1>1, <3>1
    <3>4. LeftOfAction' < ActionSteps + LeftOfAction
      BY <3>2 DEF StepsAreTyped
    <3>. QED
      BY <2>2, <3>3, <3>4, ActionGoesOn
  <2>. QED
    BY <1>2, <2>1, <2>2
<1>5. CASE Complete
  <2>1. pc = "complete" /\ pc' = "next" /\ next' = next + 1
    BY <1>5 DEF Complete
  <2>2. PositionsLeft = Len(Order) - next /\ PositionsLeft' = Len(Order) + 1 - (next + 1)
    BY <2>1 DEF PositionsLeft
  <2>3. LeftOfAction = 1 /\ LeftOfAction' = 0
    BY <2>1 DEF LeftOfAction
  <2>4. Len(Order) + 1 - (next + 1) = Len(Order) - next
    <3>1. \A n, k \in Nat : n + 1 - (k + 1) = n - k
      OBVIOUS
    <3>2. next \in Nat
      BY <1>1
    <3>. QED
      BY <1>1, <3>1, <3>2, Zenon
  <2>5. PositionsLeft' = PositionsLeft
    BY <2>2, <2>4
  <2>. QED
    BY <2>1, <2>3, <2>5, ActionGoesOn
<1>6. CASE Observe \/ ObserveFails \/ Mutate \/ MutateFails \/ Clash \/ Verify
  <2>1. pc \in {"observe", "mutate"} /\ pc' \in Applying /\ next' = next
    BY <1>6 DEF Observe, ObserveFails, Mutate, MutateFails, Clash, Verify, Continue, Applying
  <2>2. PositionsLeft' = PositionsLeft
    BY <2>1 DEF PositionsLeft, Applying
  <2>3. /\ EffectsLeft \in 0..(2 * Cardinality(Units) + 3) /\ Cardinality(Units) \in Nat
        /\ LeftOfAction \in Nat /\ LeftOfAction' \in Nat
    BY <1>1, EffectsAreCounted DEF StepsAreTyped
  <2>4. CASE pc' \in {"complete", "failed", "conflict"}
    <3>1. LeftOfAction' = 1
      BY <2>4 DEF LeftOfAction
    <3>2. LeftOfAction > 1
      BY <2>1, <2>3 DEF LeftOfAction, ActionSteps
    <3>. QED
      BY <2>1, <2>2, <3>1, <3>2, ActionGoesOn DEF Applying
  <2>5. CASE Mutate
    <3>1. EffectsLeft' = EffectsLeft - 1 /\ pc = "mutate" /\ pc' = "mutate"
      BY <1>1, <2>5, EffectIsCounted DEF Mutate
    <3>2. LeftOfAction = EffectsLeft + 2 /\ LeftOfAction' = EffectsLeft' + 2
      BY <3>1 DEF LeftOfAction
    <3>. QED
      BY <2>2, <2>3, <3>1, <3>2, ActionGoesOn
  <2>6. CASE Observe /\ pc' = "mutate"
    <3>1. pc = "observe" /\ LeftOfAction = ActionSteps - 1
      BY <2>6 DEF Observe, LeftOfAction
    <3>2. EffectsLeft' \in 0..(2 * Cardinality(Units) + 3)
      <4>1. current \in Actions
        BY <3>1, OrderFacts DEF RunInv, CurrentIsMarked, Applying, current
      <4>2. todo' \in Effects
        BY <1>1, <2>6, <4>1, WorkIsEffects DEF Observe, Continue
      <4>3. todo'.drop \in SUBSET Units /\ todo'.put \in SUBSET Units
        BY <4>2 DEF Effects
      <4>4. /\ Cardinality(todo'.drop) \in Nat /\ Cardinality(todo'.drop) <= Cardinality(Units)
            /\ Cardinality(todo'.put) \in Nat /\ Cardinality(todo'.put) <= Cardinality(Units)
        BY <4>3, UnitsAssumption, FS_Subset, FS_CardinalityType DEF UnitsAssumption
      <4>5. \A b : Times(b) \in 0..1
        BY DEF Times
      <4>. QED
        BY <2>3, <4>4, <4>5 DEF EffectsLeft
    <3>3. LeftOfAction' = EffectsLeft' + 2
      BY <2>6 DEF LeftOfAction
    <3>. QED
      BY <2>1, <2>2, <2>3, <2>6, <3>1, <3>2, <3>3, ActionGoesOn DEF ActionSteps
  <2>. QED
    BY <1>6, <2>4, <2>5, <2>6
    DEF Observe, ObserveFails, MutateFails, Clash, Verify, Continue
<1>7. CASE CompleteFails \/ RecordFailure \/ Finish \/ Crash
  BY <1>2, <1>7 DEF CompleteFails, RecordFailure, Finish, Crash, Down
<1>. QED
  BY <1>3, <1>4, <1>5, <1>6, <1>7 DEF Next, Process, Begin, Resume, Change

(* One process takes no more than Len(Order) * (2 * |Units| + 7) + 1 steps  *)
(* of its own, whatever it finds on the target, whatever it resumes and     *)
(* wherever it fails: no action is gone back to and no effect is made       *)
(* twice.  FreshRestoreSucceeds only asks in addition that awaited calls    *)
(* are answered and that the operator resumes (executeRestore, the          *)
(* handlers' apply).                                                        *)
THEOREM RestoreStepsAreBounded == Spec => RestoreStepsAreCounted
<1>1. RunInv /\ RunInv' /\ [Next]_vars =>
        [/\ StepsLeft' \in 0..(Len(Order) * ActionSteps + 1)
         /\ pc # "down" => StepsLeft' < StepsLeft]_vars
  <2>. SUFFICES ASSUME RunInv, RunInv', Next
                PROVE  /\ StepsLeft' \in 0..(Len(Order) * ActionSteps + 1)
                       /\ pc # "down" => StepsLeft' < StepsLeft
    OBVIOUS
  <2>1. StepsAreTyped /\ (StepsAreTyped)'
    BY RestoreStepsTyped, PTL
  <2>. QED
    BY <2>1, RestoreStepIsCounted DEF StepsAreTyped, ActionSteps
<1>. QED
  BY <1>1, RunInvariant, PTL DEF Spec, RestoreStepsAreCounted

=============================================================================

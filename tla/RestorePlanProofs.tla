------------------------- MODULE RestorePlanProofs --------------------------
(***************************************************************************)
(* RestorePlan for any registry, dependencies without a cycle and inputs.   *)
(*                                                                         *)
(* PlanInv carries what the loops have established so far: behind `at`, in  *)
(* a sweep that has changed nothing, no planned action has a limited        *)
(* dependency (SweptIsClosed), so the sweep that ends the loop leaves none  *)
(* at all (PropagatedIsClosed); and the rounds of the ordering respect the  *)
(* dependencies (RoundsFollow).                                             *)
(*                                                                         *)
(* PlanStepsAreBounded: sweeps and batches end, as every sweep but the last*)
(* limits another action and every batch places one.                       *)
(***************************************************************************)
EXTENDS RestorePlan, FiniteSetTheorems, WellFoundedInduction, TLAPS

\* Every status is the first one, or was lowered for a limited dependency.
StatusFromSource ==
  stage # "assign" =>
    \A c \in Components :
      \/ status[c] = FirstStatus(c)
      \/ /\ FirstStatus(c) = "planned" /\ status[c] = "blocked_platform_limit"
         /\ \E d \in Deps[c] : status[d] = "blocked_platform_limit"

SweptIsClosed ==
  (stage = "propagate" /\ ~changed) =>
    \A i \in Indices : i < at => ~Limited(Registry[i])

PropagatedIsClosed ==
  stage \in {"order", "built", "cycle"} => \A c \in Components : ~Limited(c)

RoundsFollow ==
  /\ stage \in {"assign", "propagate"} => \A c \in Components : round[c] = 0
  /\ stage = "order" => \A c \in Components : round[c] < at
  /\ \A c \in Components : Placed(c) =>
       \A d \in Deps[c] : Placed(d) /\ round[d] < round[c]

NoCycle ==
  /\ stage # "cycle"
  /\ stage = "built" => \A c \in Components : Placed(c)

PlanInv ==
  /\ PlanTypeOK /\ StatusFromSource /\ SweptIsClosed /\ PropagatedIsClosed
  /\ RoundsFollow /\ NoCycle

LEMMA RegistryFacts ==
  /\ Len(Registry) \in Nat /\ Indices = 1..Len(Registry)
  /\ \A i \in Indices : Registry[i] \in Components
  /\ \A c \in Components : \E i \in Indices : c = Registry[i]
  /\ \A c \in Components : Deps[c] \subseteq Components
<1>1. Registry \in Seq(Components) /\ Deps \in [Components -> SUBSET Components]
  BY PlanAssumption DEF PlanAssumption
<1>2. Len(Registry) \in Nat /\ Indices = 1..Len(Registry)
  BY <1>1 DEF Indices
<1>. QED
  BY <1>1, <1>2 DEF Components

LEMMA FirstStatusType ==
  ASSUME NEW c \in Components
  PROVE  FirstStatus(c) \in Statuses /\ (FirstStatus(c) = "planned" => c \in Automatic)
BY DEF FirstStatus, Statuses

(* A set of natural numbers has a least one: the initial segments up to its *)
(* members, below one of them, are subsets of a finite set.                 *)
LEMMA LeastNatural ==
  ASSUME NEW S \in SUBSET Nat, S # {}
  PROVE  \E n \in S : \A m \in S : n <= m
<1>. PICK top \in S : TRUE
  OBVIOUS
<1>. DEFINE R == StrictSubsetOrdering(0 .. top)
            T == {0 .. m : m \in {k \in S : k <= top}}
<1>1. IsWellFoundedOn(R, SUBSET (0 .. top))
  <2>1. IsFiniteSet(0 .. top)
    BY FS_Interval
  <2>2. FiniteSubsetsOf(0 .. top) = SUBSET (0 .. top)
    BY <2>1, FS_FiniteSubsetsOfFinite
  <2>3. IsWellFoundedOn(StrictSubsetOrdering(0 .. top), FiniteSubsetsOf(0 .. top))
    BY FS_StrictSubsetOrderingWellFounded
  <2>. QED
    BY <2>2, <2>3
<1>2. T \in SUBSET SUBSET (0 .. top) /\ T # {}
  OBVIOUS
<1>3. PICK x \in T : \A y \in T : ~ (<<y, x>> \in R)
  <2>. HIDE DEF R, T
  <2>. QED
    BY <1>1, <1>2, WFMin
<1>4. PICK n \in S : n <= top /\ x = 0 .. n
  BY <1>3
<1>5. ASSUME NEW m \in S, m < n PROVE FALSE
  <2>1. 0 .. m \in T /\ m \in Nat /\ n \in Nat /\ top \in Nat
    BY <1>4, <1>5
  <2>2. 0 .. m \subseteq 0 .. n /\ 0 .. m # 0 .. n
    <3>1. n \in 0 .. n /\ n \notin 0 .. m
      BY <1>5, <2>1
    <3>. QED
      BY <1>5, <2>1, <3>1
  <2>3. 0 .. m \in SUBSET (0 .. top) /\ 0 .. n \in SUBSET (0 .. top)
    BY <1>2, <1>3, <1>4, <2>1
  <2>4. <<0 .. m, 0 .. n>> \in R
    BY <2>2, <2>3 DEF StrictSubsetOrdering
  <2>. QED
    BY <1>3, <1>4, <2>1, <2>4
<1>. QED
  BY <1>4, <1>5

(* Among unplaced actions one has the least depth: it is ready.             *)
LEMMA SomeActionIsReady ==
  ASSUME NEW c \in Components, ~Placed(c) PROVE Ready # {}
<1>. DEFINE Depths == {Depth[d] : d \in {e \in Components : ~Placed(e)}}
<1>1. Depths \subseteq Nat /\ Depths # {}
  BY AcyclicAssumption DEF AcyclicAssumption
<1>2. PICK n \in Depths : \A m \in Depths : n <= m
  BY <1>1, LeastNatural
<1>3. PICK d \in Components : ~Placed(d) /\ Depth[d] = n
  BY <1>2
<1>4. ASSUME NEW e \in Deps[d] PROVE Placed(e)
  <2>1. e \in Components /\ Depth[e] < Depth[d] /\ Depth[e] \in Nat /\ n \in Nat
    BY <1>1, <1>2, <1>3, RegistryFacts, AcyclicAssumption DEF AcyclicAssumption
  <2>2. ~Placed(e) => Depth[e] \in Depths
    BY <2>1
  <2>. QED
    BY <1>2, <1>3, <2>1, <2>2
<1>. QED
  BY <1>3, <1>4 DEF Ready

LEMMA PlanInitInv == Init => PlanInv
<1>. SUFFICES ASSUME Init PROVE PlanInv
  OBVIOUS
<1>1. PlanTypeOK
  <2>1. input.source \in [Components -> SourceStatuses] /\ input.allowBillable \in BOOLEAN
    BY PlanAssumption DEF Init, PlanAssumption
  <2>2. status \in [Components -> Statuses] /\ round \in [Components -> Nat]
    BY DEF Init, Statuses
  <2>3. changed \in BOOLEAN
    BY DEF Init
  <2>4. at \in Nat \ {0} /\ stage \in {"assign", "propagate", "order", "built", "cycle"}
    BY DEF Init
  <2>. QED
    BY <2>1, <2>2, <2>3, <2>4 DEF PlanTypeOK
<1>. QED
  BY <1>1 DEF Init, PlanInv, StatusFromSource, SweptIsClosed, PropagatedIsClosed,
              RoundsFollow, NoCycle, Placed

(* Assignment and propagation.                                              *)
LEMMA PropagationKeepsInv ==
  ASSUME PlanInv, Assign \/ Visit \/ SweepAgain \/ SweepDone PROVE PlanInv'
<1> USE DEF PlanInv
<1>0. UNCHANGED <<input, round>> /\ stage \in {"assign", "propagate"}
  BY DEF Assign, Visit, SweepAgain, SweepDone
<1>1. \A c : FirstStatus(c)' = FirstStatus(c)
  BY <1>0 DEF FirstStatus
<1>2. RoundsFollow'
  BY <1>0 DEF RoundsFollow, Placed, Assign, Visit, SweepAgain, SweepDone, PlanTypeOK
<1>3. NoCycle'
  BY DEF NoCycle, Assign, Visit, SweepAgain, SweepDone
<1>4. CASE Assign
  <2>1. PlanTypeOK'
    <3>1. status' \in [Components -> Statuses]
      BY <1>4, FirstStatusType DEF Assign
    <3>2. (changed \in BOOLEAN)'
      BY <1>4 DEF Assign
    <3>3. (at \in Nat \ {0})' /\ stage' = "propagate"
      BY <1>4 DEF Assign
    <3>. QED
      BY <1>0, <3>1, <3>2, <3>3 DEF PlanTypeOK
  <2>2. StatusFromSource'
    BY <1>1, <1>4 DEF Assign, StatusFromSource
  <2>. QED
    BY <1>2, <1>3, <1>4, <2>1, <2>2, RegistryFacts DEF Assign, SweptIsClosed, PropagatedIsClosed
<1>5. CASE Visit
  <2>. DEFINE c == Registry[at]
  <2>1. at \in Indices /\ c \in Components
    BY <1>5, RegistryFacts DEF Visit
  <2>2. CASE Limited(c)
    <3>1. status' = [status EXCEPT ![c] = "blocked_platform_limit"] /\ changed' = TRUE
      BY <1>5, <2>2 DEF Visit
    <3>2. PlanTypeOK'
      BY <1>0, <1>5, <2>1, <3>1, RegistryFacts DEF Visit, PlanTypeOK, Statuses
    <3>3. StatusFromSource'
      BY <1>1, <1>5, <2>1, <2>2, <3>1, RegistryFacts
      DEF Visit, StatusFromSource, PlanTypeOK, Limited
    <3>. QED
      BY <1>2, <1>3, <1>5, <3>1, <3>2, <3>3 DEF Visit, SweptIsClosed, PropagatedIsClosed
  <2>3. CASE ~Limited(c)
    <3>1. UNCHANGED <<status, changed, stage>> /\ at' = at + 1
      BY <1>5, <2>3 DEF Visit
    <3>2. PlanTypeOK' /\ StatusFromSource'
      BY <1>0, <1>1, <3>1 DEF PlanTypeOK, StatusFromSource
    <3>3. SweptIsClosed'
      <4>. SUFFICES ASSUME stage = "propagate", ~changed, NEW i \in Indices, i < at + 1
                    PROVE  ~Limited(Registry[i])
        BY <3>1 DEF SweptIsClosed, Limited
      <4>. QED
        BY <2>1, <2>3, RegistryFacts DEF SweptIsClosed
    <3>. QED
      BY <1>2, <1>3, <1>5, <3>2, <3>3 DEF Visit, PropagatedIsClosed
  <2>. QED
    BY <2>2, <2>3
<1>6. CASE SweepAgain
  <2>1. (changed \in BOOLEAN)' /\ UNCHANGED <<status, stage>> /\ at' = 1
    BY <1>6 DEF SweepAgain
  <2>2. PlanTypeOK'
    BY <1>0, <2>1 DEF PlanTypeOK
  <2>3. StatusFromSource'
    BY <1>0, <1>1, <2>1 DEF StatusFromSource
  <2>. QED
    BY <1>2, <1>3, <1>6, <2>1, <2>2, <2>3, RegistryFacts DEF SweepAgain, SweptIsClosed, PropagatedIsClosed
<1>7. CASE SweepDone
  <2>1. PlanTypeOK' /\ StatusFromSource'
    BY <1>0, <1>1, <1>7 DEF SweepDone, PlanTypeOK, StatusFromSource
  <2>2. \A i \in Indices : ~Limited(Registry[i])
    BY <1>7, RegistryFacts DEF SweepDone, SweptIsClosed, PlanTypeOK
  <2>3. PropagatedIsClosed'
    BY <1>7, <2>2, RegistryFacts DEF SweepDone, PropagatedIsClosed, Limited
  <2>. QED
    BY <1>2, <1>3, <1>7, <2>1, <2>3 DEF SweepDone, SweptIsClosed
<1>. QED
  BY <1>4, <1>5, <1>6, <1>7

(* Ordering: every batch comes in a later round than its dependencies, and  *)
(* there is a batch as long as an action is left.                           *)
LEMMA OrderingKeepsInv ==
  ASSUME PlanInv, PlaceBatch \/ Built PROVE PlanInv'
<1> USE DEF PlanInv
<1>0. UNCHANGED <<input, status, changed>> /\ stage = "order"
  BY DEF PlaceBatch, Built
<1>1. StatusFromSource'
  <2>1. \A c : FirstStatus(c)' = FirstStatus(c)
    BY <1>0 DEF FirstStatus
  <2>. QED
    BY <1>0, <2>1 DEF StatusFromSource
<1>2. PropagatedIsClosed' /\ SweptIsClosed'
  BY <1>0 DEF PropagatedIsClosed, SweptIsClosed, Limited, PlaceBatch, Built
<1>3. CASE PlaceBatch
  <2>1. /\ stage' = "order" /\ at' = at + 1 /\ at \in Nat \ {0}
        /\ round' = [c \in Components |-> IF c \in Ready THEN at ELSE round[c]]
    BY <1>0, <1>3 DEF PlaceBatch, PlanTypeOK
  <2>2. PlanTypeOK'
    BY <1>0, <2>1 DEF PlanTypeOK
  <2>3. \A c \in Components : round[c] \in Nat /\ round[c] < at
    BY <1>0 DEF PlanTypeOK, RoundsFollow
  <2>4. ASSUME NEW c \in Components, Placed(c)', NEW d \in Deps[c]
        PROVE  Placed(d)' /\ round'[d] < round'[c]
    <3>1. d \in Components
      BY RegistryFacts
    <3>2. CASE c \in Ready
      <4>1. Placed(d) /\ d \notin Ready
        BY <3>2 DEF Ready
      <4>. QED
        BY <2>1, <2>3, <3>1, <3>2, <4>1 DEF Placed
    <3>3. CASE c \notin Ready
      <4>1. Placed(c)
        BY <2>1, <2>4, <3>3 DEF Placed
      <4>2. Placed(d) /\ round[d] < round[c] /\ d \notin Ready
        BY <4>1 DEF RoundsFollow, Ready
      <4>. QED
        BY <2>1, <3>1, <3>3, <4>2 DEF Placed
    <3>. QED
      BY <3>2, <3>3
  <2>5. \A c \in Components : round'[c] < at'
    BY <2>1, <2>3
  <2>6. RoundsFollow'
    BY <2>1, <2>4, <2>5 DEF RoundsFollow
  <2>. QED
    BY <1>1, <1>2, <2>1, <2>2, <2>6 DEF NoCycle
<1>4. CASE Built
  <2>1. UNCHANGED <<at, round>> /\ \A c \in Components : Placed(c)
    BY <1>4, SomeActionIsReady DEF Built
  <2>2. stage' = "built"
    BY <1>4, <2>1 DEF Built
  <2>3. PlanTypeOK' /\ RoundsFollow' /\ NoCycle'
    BY <1>0, <2>1, <2>2 DEF PlanTypeOK, RoundsFollow, NoCycle, Placed
  <2>. QED
    BY <1>1, <1>2, <2>3
<1>. QED
  BY <1>3, <1>4

LEMMA PlanKeepsInv == PlanInv /\ [Next]_vars => PlanInv'
<1>. SUFFICES ASSUME PlanInv, [Next]_vars PROVE PlanInv'
  OBVIOUS
<1>1. CASE Next
  BY <1>1, PropagationKeepsInv, OrderingKeepsInv DEF Next
<1>2. CASE UNCHANGED vars
  BY <1>2 DEF vars, PlanInv, PlanTypeOK, StatusFromSource, SweptIsClosed,
              PropagatedIsClosed, RoundsFollow, NoCycle, FirstStatus, Limited, Placed
<1>. QED
  BY <1>1, <1>2

LEMMA PlanInvariant == Spec => []PlanInv
BY PlanInitInv, PlanKeepsInv, PTL DEF Spec

-----------------------------------------------------------------------------

(* The planner's state has its type (buildRestorePlan).                     *)
THEOREM PlanTypeCorrect == Spec => []PlanTypeOK
<1>1. PlanInv => PlanTypeOK
  BY DEF PlanInv
<1>. QED
  BY <1>1, PlanInvariant, PTL

(* The order of a built plan respects the dependencies                      *)
(* (orderActionsByDependencies).                                            *)
THEOREM DependenciesFirst == Spec => []DependenciesComeFirst
<1>1. PlanInv => DependenciesComeFirst
  BY DEF PlanInv, RoundsFollow, NoCycle, DependenciesComeFirst
<1>. QED
  BY <1>1, PlanInvariant, PTL

(* Platform limits end up exactly on the planned actions that depend on a   *)
(* limited one (propagatePlatformLimits).                                   *)
THEOREM LimitsReach == Spec => []LimitsReachTheirDependents
<1>1. PlanInv => LimitsReachTheirDependents
  <2>. SUFFICES ASSUME PlanInv, stage = "built", NEW c \in Components
                PROVE  status[c] =
                         IF /\ FirstStatus(c) = "planned"
                            /\ \E d \in Deps[c] : status[d] = "blocked_platform_limit"
                           THEN "blocked_platform_limit" ELSE FirstStatus(c)
    BY DEF LimitsReachTheirDependents
  <2>1. \/ status[c] = FirstStatus(c)
        \/ /\ FirstStatus(c) = "planned" /\ status[c] = "blocked_platform_limit"
           /\ \E d \in Deps[c] : status[d] = "blocked_platform_limit"
    BY DEF PlanInv, StatusFromSource
  <2>2. ~ (status[c] = "planned" /\ \E d \in Deps[c] : status[d] = "blocked_platform_limit")
    BY DEF PlanInv, PropagatedIsClosed, Limited
  <2>. QED
    BY <2>1, <2>2
<1>. QED
  BY <1>1, PlanInvariant, PTL

(* A plan that nothing blocks is one the executor accepts: every planned    *)
(* action has a handler, and what it depends on is planned or skipped       *)
(* (validatePlanForExecution against what main.ts assembles).               *)
THEOREM ReadyAccepted == Spec => []ReadyPlanIsAccepted
<1>1. PlanInv => ReadyPlanIsAccepted
  <2>. SUFFICES ASSUME PlanInv PROVE ReadyPlanIsAccepted
    OBVIOUS
  <2>1. stage # "cycle"
    BY DEF PlanInv, NoCycle
  <2>2. ASSUME stage = "built", ~Blocked PROVE Accepted
    <3>1. ASSUME NEW c \in Planned PROVE c \in Handlers
      <4>1. c \in Components /\ status[c] = "planned"
        BY DEF Planned
      <4>2. FirstStatus(c) = "planned"
        BY <2>2, <4>1 DEF PlanInv, StatusFromSource
      <4>3. c \in Automatic
        BY <4>1, <4>2, FirstStatusType
      <4>. QED
        BY <4>3 DEF Handlers
    <3>2. ASSUME NEW c \in Planned, NEW d \in Deps[c]
          PROVE  status[d] \in {"planned", "skipped"}
      <4>1. c \in Components /\ d \in Components /\ ~Limited(c) /\ status[c] = "planned"
        BY <2>2, RegistryFacts DEF PlanInv, PropagatedIsClosed, Planned
      <4>2. status[d] # "blocked_platform_limit" /\ status[d] \in Statuses
        BY <4>1 DEF PlanInv, PlanTypeOK, Limited
      <4>. QED
        BY <2>2, <4>1, <4>2 DEF Blocked, Statuses
    <3>. QED
      BY <2>2, <3>1, <3>2 DEF Accepted, Blocked
  <2>. QED
    BY <2>1, <2>2 DEF ReadyPlanIsAccepted
<1>. QED
  BY <1>1, PlanInvariant, PTL

-----------------------------------------------------------------------------
\* The loops end.

(* What is left to do: a sweep for every action that may still be limited,  *)
(* one more if this one has changed an action, the rest of this one, a      *)
(* batch for every action that is not in order yet, and the steps between.  *)
Unplaced == {c \in Components : ~Placed(c)}
SweepSteps == Len(Registry) + 1
SweepsLeft == Cardinality(Planned) * SweepSteps + (IF changed THEN SweepSteps ELSE 0)
StepsLeft ==
  CASE stage = "assign" ->
         Cardinality(Components) * SweepSteps + SweepSteps + Cardinality(Components) + 3
    [] stage = "propagate" -> SweepsLeft + (SweepSteps - at) + Cardinality(Unplaced) + 2
    [] stage = "order" -> Cardinality(Unplaced) + 1
    [] stage \in {"built", "cycle"} -> 0

PlanStepsAreCounted == [][StepsLeft' \in Nat /\ StepsLeft' < StepsLeft]_vars

AtInRange == stage = "propagate" => at <= SweepSteps

LEMMA ActionsAreCounted ==
  /\ IsFiniteSet(Components) /\ Cardinality(Components) \in Nat /\ SweepSteps \in Nat
  /\ \A S \in SUBSET Components :
       IsFiniteSet(S) /\ Cardinality(S) \in Nat /\ Cardinality(S) <= Cardinality(Components)
<1>1. IsFiniteSet(Indices)
  BY RegistryFacts, FS_Interval
<1>2. IsFiniteSet(Components)
  <2>1. Registry \in [Indices -> Components]
    BY PlanAssumption, RegistryFacts DEF PlanAssumption
  <2>2. Registry \in Surjection(Indices, Components)
    BY <2>1, RegistryFacts DEF Surjection
  <2>. QED
    BY <1>1, <2>2, FS_Surjection
<1>. QED
  BY <1>2, RegistryFacts, FS_Subset, FS_CardinalityType DEF SweepSteps

LEMMA SweepsPaid ==
  ASSUME NEW n \in Nat, NEW m \in Nat, NEW w \in Nat
  PROVE  /\ n * w \in Nat
         /\ n <= m => n * w <= m * w
         /\ n + 1 = m => n * w + w = m * w
<1>1. n * w \in Nat
  OBVIOUS
<1>2. ASSUME n <= m PROVE n * w <= m * w
  <2>1. m - n \in Nat /\ (m - n) * w \in Nat
    BY <1>2
  <2>2. (m - n) * w = m * w - n * w
    OBVIOUS
  <2>. QED
    BY <1>1, <2>1, <2>2
<1>3. ASSUME n + 1 = m PROVE n * w + w = m * w
  BY <1>3
<1>. QED
  BY <1>1, <1>2, <1>3

(* No step of the planner but brings it nearer to its end: the sweeps over  *)
(* the registry and the batches of the ordering are bounded for every       *)
(* registry (propagatePlatformLimits, orderActionsByDependencies).          *)
THEOREM PlanStepsAreBounded == Spec => PlanStepsAreCounted
<1>1. Init => AtInRange
  BY DEF Init, AtInRange
<1>2. PlanTypeOK /\ AtInRange /\ [Next]_vars => AtInRange'
  BY RegistryFacts DEF PlanTypeOK, AtInRange, SweepSteps, Next, vars, Assign, Visit, SweepAgain,
     SweepDone, PlaceBatch, Built
<1>3. ASSUME PlanTypeOK, PlanTypeOK', AtInRange, AtInRange', RoundsFollow, Next
      PROVE  StepsLeft' \in Nat /\ StepsLeft' < StepsLeft
  <2> DEFINE w == SweepSteps
             all == Cardinality(Components)
             p == Cardinality(Planned)
             u == Cardinality(Unplaced)
  <2>1. /\ w \in Nat /\ all \in Nat /\ p \in Nat /\ u \in Nat /\ p <= all /\ u <= all
        /\ IsFiniteSet(Planned) /\ IsFiniteSet(Unplaced)
    BY ActionsAreCounted DEF Planned, Unplaced
  <2>2. p' \in Nat /\ u' \in Nat /\ p' <= all /\ u' <= all
    <3>1. Planned' \in SUBSET Components /\ Unplaced' \in SUBSET Components
      BY DEF Planned, Unplaced
    <3>. QED
      BY <3>1, ActionsAreCounted
  <2>3. /\ p * w \in Nat /\ p' * w \in Nat /\ all * w \in Nat
        /\ p' <= all => p' * w <= all * w
        /\ p' + 1 = p => p' * w + w = p * w
    BY <2>1, <2>2, SweepsPaid
  <2>4. at \in Nat \ {0} /\ at' \in Nat \ {0} /\ changed \in BOOLEAN /\ changed' \in BOOLEAN
    BY <1>3 DEF PlanTypeOK
  <2>5. SweepsLeft = p * w + (IF changed THEN w ELSE 0)
        /\ SweepsLeft' = p' * w + (IF changed' THEN w ELSE 0)
    BY DEF SweepsLeft, SweepSteps
  <2>6. UNCHANGED status => p' = p
    BY DEF Planned
  <2>7. UNCHANGED round => u' = u
    BY DEF Unplaced, Placed
  <2>8. stage = "propagate" => StepsLeft = SweepsLeft + (w - at) + u + 2
    BY DEF StepsLeft
  <2>9. stage' = "propagate" => StepsLeft' = SweepsLeft' + (w - at') + u' + 2
    BY DEF StepsLeft, SweepSteps
  <2>10. CASE Assign
    <3>1. StepsLeft = all * w + w + all + 3
      BY <2>10 DEF Assign, StepsLeft
    <3>2. stage' = "propagate" /\ at' = 1 /\ ~changed'
      BY <2>10 DEF Assign
    <3> HIDE DEF w, all, p, u
    <3>3. at' <= w
      BY <1>3, <3>2 DEF AtInRange, SweepSteps, w
    <3>4. SweepsLeft' = p' * w
      BY <2>3, <2>5, <3>2
    <3>5. p' * w <= all * w
      BY <2>2, <2>3
    <3>6. StepsLeft' = p' * w + (w - 1) + u' + 2
      BY <2>9, <3>2, <3>4
    <3>7. ASSUME NEW i \in Nat, NEW j \in Nat, NEW k \in Nat, NEW l \in Nat, NEW m \in Nat,
                 i <= j, k <= l, 1 <= m
          PROVE  i + (m - 1) + k + 2 \in Nat /\ i + (m - 1) + k + 2 < j + m + l + 3
      BY <3>7
    <3>. QED
      BY <2>1, <2>2, <2>3, <3>1, <3>2, <3>3, <3>5, <3>6, <3>7, Zenon
  <2>11. CASE Visit
    <3>1. /\ stage = "propagate" /\ stage' = "propagate" /\ at' = at + 1 /\ u' = u
          /\ at \in 1..Len(Registry)
      BY <2>7, <2>11, RegistryFacts DEF Visit
    <3>2. at' <= w
      BY <1>3, <3>1 DEF AtInRange, SweepSteps
    <3>3. CASE UNCHANGED <<status, changed>>
      <4> HIDE DEF w, all, p, u
      <4>. QED
        BY <2>1, <2>2, <2>3, <2>4, <2>5, <2>6, <2>8, <2>9, <3>1, <3>2, <3>3
    <3>4. CASE ~UNCHANGED <<status, changed>>
      <4> DEFINE c == Registry[at]
      <4>1. /\ c \in Components /\ status[c] = "planned" /\ changed'
            /\ status' = [status EXCEPT ![c] = "blocked_platform_limit"]
        BY <2>11, <3>1, <3>4, RegistryFacts DEF Visit, Limited
      <4>2. c \in Planned /\ Planned' = Planned \ {c}
        BY <1>3, <4>1 DEF Planned, PlanTypeOK
      <4>3. Cardinality(Planned \ {c}) = p - 1
        BY <2>1, <4>2, FS_RemoveElement
      <4>4. p' + 1 = p
        BY <2>1, <4>2, <4>3
      <4> HIDE DEF w, all, p, u
      <4>5. SweepsLeft' = p * w /\ SweepsLeft \in {p * w, p * w + w}
        BY <2>3, <2>5, <4>1, <4>4
      <4>6. StepsLeft' = p * w + (w - at') + u + 2
        BY <2>9, <3>1, <4>5
      <4>. QED
        BY <2>1, <2>3, <2>4, <2>8, <3>1, <3>2, <4>5, <4>6
    <3>. QED
      BY <3>3, <3>4
  <2>12. CASE SweepAgain
    <3>1. /\ stage = "propagate" /\ stage' = "propagate" /\ at' = 1 /\ changed /\ ~changed'
          /\ at <= w /\ at' <= w /\ p' = p /\ u' = u
      BY <1>3, <2>6, <2>7, <2>12 DEF SweepAgain, AtInRange
    <3> HIDE DEF w, all, p, u
    <3>. QED
      BY <2>1, <2>3, <2>4, <2>5, <2>8, <2>9, <3>1
  <2>13. CASE SweepDone
    <3>1. stage = "propagate" /\ stage' = "order" /\ at <= w /\ u' = u
      BY <1>3, <2>7, <2>13 DEF SweepDone, AtInRange
    <3>2. StepsLeft' = u' + 1
      BY <3>1 DEF StepsLeft
    <3> HIDE DEF w, all, p, u
    <3>. QED
      BY <2>1, <2>3, <2>4, <2>5, <2>8, <3>1, <3>2
  <2>14. CASE PlaceBatch
    <3>1. stage = "order" /\ stage' = "order"
      BY <2>14 DEF PlaceBatch
    <3>2. StepsLeft = u + 1 /\ StepsLeft' = u' + 1
      BY <3>1 DEF StepsLeft
    <3>3. Unplaced' = Unplaced \ Ready /\ Ready \in SUBSET Unplaced /\ Ready # {}
      BY <1>3, <2>14 DEF PlaceBatch, Unplaced, Ready, Placed, PlanTypeOK
    <3>4. Unplaced' \in SUBSET Unplaced /\ Unplaced' # Unplaced
      BY <3>3
    <3>5. u' <= u /\ u' # u
      BY <2>1, <3>4, FS_Subset
    <3>. QED
      BY <2>1, <2>2, <3>2, <3>5
  <2>15. CASE Built
    <3>1. stage = "order" /\ stage' \in {"built", "cycle"}
      BY <2>15 DEF Built
    <3>. QED
      BY <2>1, <3>1 DEF StepsLeft
  <2>. QED
    BY <1>3, <2>10, <2>11, <2>12, <2>13, <2>14, <2>15 DEF Next
<1>4. PlanInv => PlanTypeOK /\ RoundsFollow
  BY DEF PlanInv
<1>. QED
  BY <1>1, <1>2, <1>3, <1>4, PlanInvariant, PTL DEF Spec, PlanStepsAreCounted

=============================================================================

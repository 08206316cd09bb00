-------------------------- MODULE CaptureLoopProofs ---------------------------
(***************************************************************************)
(* mapBounded keeps its promises for every number of runners, list of items *)
(* and worker: theorems of MapSpec, proved from the invariant MapInv.  Then *)
(* lemmas on the loop around a capture that uses it: what its clean-ups      *)
(* preserve, and which of its turns are steps of CapturePromise.            *)
(*                                                                         *)
(* MapStepsAreBounded: a call of mapBounded has only so many steps.        *)
(***************************************************************************)
EXTENDS CaptureLoop, FiniteSetTheorems, TLAPS

\* Nobody works who has left, and a runner only leaves for one of two reasons.
LeftForAReason ==
  /\ \A r \in gone : work[r] = 0
  /\ mapped = "running" /\ gone # {} => stopped \/ cursor > Len(items)

\* The shared signal is aborted by an error or by the caller, and stays so.
StoppedByCause == stopped => firstError # "none" \/ cancelled

\* Without an error every index given out is delivered or being worked on.
NoIndexIsLost ==
  firstError = "none" =>
    \A i \in 1..(cursor - 1) : i \in results \/ \E r \in Runners : work[r] = i

MapInv ==
  /\ MapTypeOK
  /\ \A r \in Runners : work[r] < cursor
  /\ LeftForAReason /\ StoppedByCause /\ NoIndexIsLost
  /\ SettledIsQuiet /\ ReturnedIsComplete

-----------------------------------------------------------------------------

LEMMA ListsHaveLengths ==
  ASSUME NEW list \in ItemLists \cup {<<>>}
  PROVE  Len(list) \in Nat /\ DOMAIN list = 1..Len(list)
<1>1. CASE list = <<>>
  BY <1>1
<1>2. CASE list \in ItemLists
  <2>1. list \in Seq({list[i] : i \in DOMAIN list})
    BY <1>2, MapAssumption
  <2>2. PICK elements : list \in Seq(elements)
    BY <2>1
  <2> QED BY <2>2
<1> QED BY <1>1, <1>2

LEMMA MapStarts == MapInit => MapInv
<1> SUFFICES ASSUME MapInit
             PROVE  MapInv
  OBVIOUS
<1>1. Len(items) = 0
  BY DEF MapInit
<1>2. MapTypeOK
  <2>1. cursor \in 1..(Len(items) + 1) /\ items \in ItemLists \cup {<<>>}
    BY <1>1 DEF MapInit
  <2>2. work \in [Runners -> 0..Len(items)]
    BY <1>1 DEF MapInit
  <2> QED BY <2>1, <2>2 DEF MapInit, MapTypeOK
<1> QED
  BY <1>2 DEF MapInit, MapInv, LeftForAReason, StoppedByCause, NoIndexIsLost,
              SettledIsQuiet, ReturnedIsComplete

LEMMA StartKeeps ==
  ASSUME MapInv, mapped # "running", NEW list \in ItemLists, StartMap(list),
         UNCHANGED cancelled
  PROVE  MapInv'
<1>1. Len(list) \in Nat /\ DOMAIN list = 1..Len(list)
  BY ListsHaveLengths
<1>2. /\ items' = list /\ cursor' = 1 /\ gone' = {} /\ results' = {}
      /\ work' = [r \in Runners |-> 0] /\ firstError' = "none" /\ stopped' = FALSE
      /\ mapped' \in {"running", "rejected"}
  BY DEF StartMap
<1>3. MapTypeOK'
  <2>1. cursor' \in 1..(Len(items') + 1) /\ items' \in ItemLists \cup {<<>>}
    BY <1>1, <1>2
  <2>2. work' \in [Runners -> 0..Len(items')]
    BY <1>1, <1>2
  <2> QED BY <1>2, <2>1, <2>2 DEF MapInv, MapTypeOK
<1> QED
  BY <1>2, <1>3 DEF MapInv, LeftForAReason, StoppedByCause, NoIndexIsLost,
                    SettledIsQuiet, ReturnedIsComplete

LEMMA TakeKeeps ==
  ASSUME MapInv, NEW r \in Runners, Take(r), UNCHANGED cancelled
  PROVE  MapInv'
<1> USE DEF MapInv, MapTypeOK
<1>1. Len(items) \in Nat /\ DOMAIN items = 1..Len(items)
  BY ListsHaveLengths
<1>2. /\ cursor \in 1..Len(items) /\ cursor' = cursor + 1
      /\ work' = [work EXCEPT ![r] = cursor] /\ work[r] = 0 /\ r \notin gone
      /\ mapped = "running" /\ ~stopped
  BY <1>1 DEF Take, Free
<1>3. MapTypeOK' /\ \A s \in Runners : work'[s] < cursor'
  BY <1>1, <1>2 DEF Take
<1>4. LeftForAReason' /\ StoppedByCause'
  BY <1>1, <1>2 DEF Take, LeftForAReason, StoppedByCause
<1>5. NoIndexIsLost'
  <2> SUFFICES ASSUME firstError = "none", NEW i \in 1..(cursor' - 1)
               PROVE  i \in results \/ \E s \in Runners : work'[s] = i
    BY DEF Take, NoIndexIsLost
  <2>1. CASE i = cursor
    BY <2>1, <1>2
  <2>2. CASE i # cursor
    <3>1. i \in 1..(cursor - 1)
      BY <2>2, <1>2
    <3>2. i \in results \/ \E s \in Runners : work[s] = i
      BY <3>1 DEF NoIndexIsLost
    <3> QED BY <3>1, <3>2, <1>2
  <2> QED BY <2>1, <2>2
<1>6. SettledIsQuiet' /\ ReturnedIsComplete'
  BY <1>2 DEF Take, SettledIsQuiet, ReturnedIsComplete
<1> QED BY <1>3, <1>4, <1>5, <1>6

LEMMA LeaveKeeps ==
  ASSUME MapInv, NEW r \in Runners, Leave(r), UNCHANGED cancelled
  PROVE  MapInv'
BY DEF MapInv, MapTypeOK, LeftForAReason, StoppedByCause, NoIndexIsLost,
       SettledIsQuiet, ReturnedIsComplete, Leave, Free

LEMMA DeliverKeeps ==
  ASSUME MapInv, NEW r \in Runners, Deliver(r), UNCHANGED cancelled
  PROVE  MapInv'
<1> USE DEF MapInv, MapTypeOK
<1>1. Len(items) \in Nat /\ DOMAIN items = 1..Len(items)
  BY ListsHaveLengths
<1>2. mapped = "running" /\ work[r] \in DOMAIN items /\ r \notin gone
  BY <1>1 DEF Deliver, SettledIsQuiet, LeftForAReason
<1>3. MapTypeOK' /\ \A s \in Runners : work'[s] < cursor'
  BY <1>1, <1>2 DEF Deliver
<1>4. LeftForAReason' /\ StoppedByCause' /\ SettledIsQuiet' /\ ReturnedIsComplete'
  BY <1>2 DEF Deliver, LeftForAReason, StoppedByCause, SettledIsQuiet, ReturnedIsComplete
<1>5. NoIndexIsLost'
  BY <1>2 DEF Deliver, NoIndexIsLost
<1> QED BY <1>3, <1>4, <1>5

LEMMA FailKeeps ==
  ASSUME MapInv, NEW r \in Runners, NEW e \in MapErrors, Fail(r, e), UNCHANGED cancelled
  PROVE  MapInv'
<1> USE DEF MapInv, MapTypeOK
<1>1. Len(items) \in Nat
  BY ListsHaveLengths
<1>2. /\ mapped = "running" /\ r \notin gone
      /\ firstError' \in MapErrors /\ firstError' # "none"
  BY MapAssumption DEF Fail, SettledIsQuiet, LeftForAReason
<1>3. MapTypeOK' /\ \A s \in Runners : work'[s] < cursor'
  BY <1>1, <1>2 DEF Fail
<1> QED
  BY <1>2, <1>3 DEF Fail, LeftForAReason, StoppedByCause, NoIndexIsLost, SettledIsQuiet,
                    ReturnedIsComplete

LEMMA SettleKeeps ==
  ASSUME MapInv, Settle, UNCHANGED cancelled
  PROVE  MapInv'
<1> USE DEF MapInv, MapTypeOK
<1>1. Len(items) \in Nat /\ DOMAIN items = 1..Len(items)
  BY ListsHaveLengths
<1>2. \A r \in Runners : work[r] = 0
  BY DEF Settle, LeftForAReason
<1>3. ReturnedIsComplete'
  <2> SUFFICES ASSUME mapped' = "returned"
               PROVE  results = DOMAIN items
    BY DEF Settle, ReturnedIsComplete
  <2>1. firstError = "none" /\ ~cancelled
    BY DEF Settle
  <2>2. cursor > Len(items)
    BY <2>1, MapAssumption DEF Settle, LeftForAReason, StoppedByCause
  <2>3. \A i \in 1..Len(items) : i \in results
    BY <1>1, <1>2, <2>1, <2>2 DEF NoIndexIsLost
  <2> QED BY <1>1, <2>3
<1>4. MapTypeOK' /\ SettledIsQuiet'
  BY <1>1, <1>2 DEF Settle, SettledIsQuiet
<1> QED
  BY <1>3, <1>4 DEF Settle, LeftForAReason, StoppedByCause, NoIndexIsLost

LEMMA CancelKeeps ==
  ASSUME MapInv, Cancel
  PROVE  MapInv'
BY DEF MapInv, MapTypeOK, LeftForAReason, StoppedByCause, NoIndexIsLost,
       SettledIsQuiet, ReturnedIsComplete, Cancel

LEMMA MapStepKeeps == MapInv /\ [MapNext]_<<mapVars, cancelled>> => MapInv'
<1> SUFFICES ASSUME MapInv, [MapNext]_<<mapVars, cancelled>>
             PROVE  MapInv'
  OBVIOUS
<1>1. CASE UNCHANGED <<mapVars, cancelled>>
  BY <1>1 DEF mapVars, MapInv, MapTypeOK, LeftForAReason, StoppedByCause, NoIndexIsLost,
              SettledIsQuiet, ReturnedIsComplete
<1>2. CASE mapped # "running" /\ (\E list \in ItemLists : StartMap(list))
           /\ UNCHANGED cancelled
  BY <1>2, StartKeeps
<1>3. ASSUME NEW r \in Runners, UNCHANGED cancelled,
             Take(r) \/ Leave(r) \/ Deliver(r) \/ \E e \in MapErrors : Fail(r, e)
      PROVE  MapInv'
  BY <1>3, TakeKeeps, LeaveKeeps, DeliverKeeps, FailKeeps
<1>4. CASE Settle /\ UNCHANGED cancelled
  BY <1>4, SettleKeeps
<1>5. CASE Cancel
  BY <1>5, CancelKeeps
<1> QED BY <1>1, <1>2, <1>3, <1>4, <1>5 DEF MapNext

\* The invariant holds of mapBounded (utils/bounded-concurrency.ts) on its own.
THEOREM MapInvariant == MapSpec => []MapInv
BY MapStarts, MapStepKeeps, PTL DEF MapSpec

\* Two runners never work on the same item, and nobody on one that is delivered.
Apart ==
  /\ \A r, q \in Runners : r # q /\ work[r] # 0 => work[r] # work[q]
  /\ \A i \in results : i < cursor /\ \A r \in Runners : work[r] # i

LEMMA ApartKeeps == MapInv /\ Apart /\ [MapNext]_<<mapVars, cancelled>> => Apart'
<1> SUFFICES ASSUME MapInv, Apart, [MapNext]_<<mapVars, cancelled>>
             PROVE  Apart'
  OBVIOUS
<1>1. /\ cursor \in Nat \ {0} /\ work \in [Runners -> Nat] /\ results \subseteq Nat \ {0}
      /\ \A r \in Runners : work[r] < cursor
  <2>1. Len(items) \in Nat /\ DOMAIN items = 1..Len(items)
    BY ListsHaveLengths DEF MapInv, MapTypeOK
  <2>. QED
    BY <2>1 DEF MapInv, MapTypeOK
<1>2. CASE UNCHANGED <<work, results, cursor>>
  BY <1>2 DEF Apart
<1>3. ASSUME NEW list \in ItemLists, StartMap(list) PROVE Apart'
  BY <1>3 DEF StartMap, Apart
<1>4. ASSUME NEW r \in Runners, Take(r) PROVE Apart'
  BY <1>1, <1>4 DEF Take, Free, Apart
<1>5. ASSUME NEW r \in Runners, Deliver(r) PROVE Apart'
  BY <1>1, <1>5 DEF Deliver, Apart
<1>6. ASSUME NEW r \in Runners, NEW e, Fail(r, e) PROVE Apart'
  BY <1>1, <1>6 DEF Fail, Apart
<1>7. CASE UNCHANGED <<mapVars, cancelled>> \/ Settle \/ Cancel \/ \E r \in Runners : Leave(r)
  BY <1>2, <1>7 DEF mapVars, Settle, Cancel, Leave
<1> QED BY <1>3, <1>4, <1>5, <1>6, <1>7 DEF MapNext

\* No item is worked on twice at a time, or again once its result is there
\* (mapBounded).
THEOREM NoItemTwice == MapSpec => []Apart
<1>1. MapInit => Apart
  BY DEF MapInit, Apart
<1> QED BY <1>1, ApartKeeps, MapInvariant, PTL DEF MapSpec

(* The steps a call still takes: two for an item that is not given out, one *)
(* for one that is, one for a runner to leave, and the last.                *)
Busy == {r \in Runners : work[r] # 0}
MapStepsLeft ==
  IF mapped = "running"
    THEN 2 * (Len(items) + 1 - cursor) + Cardinality(Busy) + Cardinality(Runners \ gone) + 1
    ELSE 0

MapStepsAreCounted ==
  [][/\ (mapped = "running" /\ UNCHANGED cancelled) =>
          MapStepsLeft' \in Nat /\ MapStepsLeft' < MapStepsLeft
     /\ (mapped # "running" /\ mapped' = "running") =>
          MapStepsLeft' = 2 * Len(items') + Cardinality(Runners) + 1]_<<mapVars, cancelled>>

LEMMA RunnersAreCounted ==
  ASSUME NEW some \in SUBSET Runners
  PROVE  IsFiniteSet(some) /\ Cardinality(some) \in Nat
BY MapAssumption, FS_Subset, FS_CardinalityType

LEMMA MapStepsTyped == MapInv => MapStepsLeft \in Nat
<1>. SUFFICES ASSUME MapInv PROVE MapStepsLeft \in Nat
  OBVIOUS
<1>1. Len(items) \in Nat /\ cursor \in 1..(Len(items) + 1)
  BY ListsHaveLengths DEF MapInv, MapTypeOK
<1>2. Cardinality(Busy) \in Nat /\ Cardinality(Runners \ gone) \in Nat
  BY RunnersAreCounted DEF Busy
<1>. QED
  BY <1>1, <1>2 DEF MapStepsLeft

LEMMA TakeIsCounted ==
  ASSUME MapInv, NEW r \in Runners, Take(r)
  PROVE  MapStepsLeft' \in Nat /\ MapStepsLeft' < MapStepsLeft
<1>1. Len(items) \in Nat /\ cursor \in Nat /\ cursor <= Len(items)
  BY ListsHaveLengths DEF MapInv, MapTypeOK, Take
<1>2. /\ mapped = "running" /\ mapped' = "running" /\ items' = items /\ gone' = gone
      /\ cursor' = cursor + 1
  BY DEF Take, Free
<1>3. Busy' = Busy \cup {r} /\ r \notin Busy
  BY <1>1 DEF Take, Free, Busy, MapInv, MapTypeOK
<1>4. /\ Cardinality(Busy) \in Nat /\ Cardinality(Busy') = Cardinality(Busy) + 1
      /\ Cardinality(Runners \ gone) \in Nat
  BY <1>3, RunnersAreCounted, FS_AddElement DEF Busy
<1>. QED
  BY <1>1, <1>2, <1>4 DEF MapStepsLeft

LEMMA EndOfItemIsCounted ==
  ASSUME MapInv, NEW r \in Runners, NEW e, Deliver(r) \/ Fail(r, e)
  PROVE  MapStepsLeft' \in Nat /\ MapStepsLeft' < MapStepsLeft
<1>1. Len(items) \in Nat /\ cursor \in Nat /\ cursor <= Len(items) + 1
  BY ListsHaveLengths DEF MapInv, MapTypeOK
<1>2. /\ mapped = "running" /\ mapped' = "running" /\ items' = items /\ gone' = gone
      /\ cursor' = cursor
  BY DEF Deliver, Fail, MapInv, SettledIsQuiet
<1>3. Busy' = Busy \ {r} /\ r \in Busy
  BY DEF Deliver, Fail, Busy, MapInv, MapTypeOK
<1>4. /\ Cardinality(Busy) \in Nat /\ Cardinality(Busy') = Cardinality(Busy) - 1
      /\ Cardinality(Busy') \in Nat /\ Cardinality(Runners \ gone) \in Nat
  BY <1>3, RunnersAreCounted, FS_RemoveElement DEF Busy
<1>. QED
  BY <1>1, <1>2, <1>4 DEF MapStepsLeft

LEMMA LeaveIsCounted ==
  ASSUME MapInv, NEW r \in Runners, Leave(r)
  PROVE  MapStepsLeft' \in Nat /\ MapStepsLeft' < MapStepsLeft
<1>1. Len(items) \in Nat /\ cursor \in Nat /\ cursor <= Len(items) + 1
  BY ListsHaveLengths DEF MapInv, MapTypeOK
<1>2. /\ mapped = "running" /\ mapped' = "running" /\ items' = items /\ cursor' = cursor
      /\ Busy' = Busy /\ r \notin gone /\ gone' = gone \cup {r}
  BY DEF Leave, Free, Busy
<1>3. Runners \ gone' = (Runners \ gone) \ {r} /\ r \in Runners \ gone
  BY <1>2
<1>4. /\ Cardinality(Runners \ gone) \in Nat /\ Cardinality(Busy) \in Nat
      /\ Cardinality(Runners \ gone') = Cardinality(Runners \ gone) - 1
      /\ Cardinality(Runners \ gone') \in Nat
  BY <1>3, RunnersAreCounted, FS_RemoveElement DEF Busy
<1>. QED
  BY <1>1, <1>2, <1>4 DEF MapStepsLeft

LEMMA SettleIsCounted ==
  ASSUME MapInv, Settle
  PROVE  MapStepsLeft' \in Nat /\ MapStepsLeft' < MapStepsLeft
<1>1. Len(items) \in Nat /\ cursor \in Nat /\ cursor <= Len(items) + 1
  BY ListsHaveLengths DEF MapInv, MapTypeOK
<1>2. Cardinality(Busy) \in Nat /\ Cardinality(Runners \ gone) \in Nat
  BY RunnersAreCounted DEF Busy
<1>3. mapped = "running" /\ mapped' # "running"
  BY DEF Settle
<1>. QED
  BY <1>1, <1>2, <1>3 DEF MapStepsLeft

LEMMA StartIsCounted ==
  ASSUME NEW list \in ItemLists, StartMap(list), mapped' = "running"
  PROVE  MapStepsLeft' = 2 * Len(items') + Cardinality(Runners) + 1
<1>1. Len(list) \in Nat /\ items' = list /\ cursor' = 1 /\ gone' = {}
  BY ListsHaveLengths DEF StartMap
<1>2. Busy' = {} /\ Runners \ gone' = Runners
  BY DEF StartMap, Busy
<1>3. Cardinality(Busy') = 0 /\ Cardinality(Runners) \in Nat
  BY <1>2, FS_EmptySet, RunnersAreCounted
<1>. QED
  BY <1>1, <1>2, <1>3 DEF MapStepsLeft

\* A call takes exactly bounded many steps, two for an item, one for a runner and
\* the last, however the workers end and whatever is aborted: it is never waited
\* for longer than for the workers (mapBounded).
THEOREM MapStepsAreBounded == MapSpec => MapStepsAreCounted
<1>1. MapInv /\ [MapNext]_<<mapVars, cancelled>> =>
        [/\ (mapped = "running" /\ UNCHANGED cancelled) =>
              MapStepsLeft' \in Nat /\ MapStepsLeft' < MapStepsLeft
         /\ (mapped # "running" /\ mapped' = "running") =>
              MapStepsLeft' = 2 * Len(items') + Cardinality(Runners) + 1]_<<mapVars, cancelled>>
  <2>. SUFFICES ASSUME MapInv, MapNext
                PROVE  /\ (mapped = "running" /\ UNCHANGED cancelled) =>
                            MapStepsLeft' \in Nat /\ MapStepsLeft' < MapStepsLeft
                       /\ (mapped # "running" /\ mapped' = "running") =>
                            MapStepsLeft' = 2 * Len(items') + Cardinality(Runners) + 1
    OBVIOUS
  <2>1. CASE mapped # "running" /\ \E list \in ItemLists : StartMap(list)
    BY <2>1, StartIsCounted
  <2>2. ASSUME NEW r \in Runners,
               Take(r) \/ Leave(r) \/ Deliver(r) \/ \E e \in MapErrors : Fail(r, e)
        PROVE  MapStepsLeft' \in Nat /\ MapStepsLeft' < MapStepsLeft /\ mapped' = mapped
    <3>1. mapped' = mapped
      BY <2>2 DEF Take, Leave, Deliver, Fail
    <3>. QED
      BY <2>2, <3>1, TakeIsCounted, LeaveIsCounted, EndOfItemIsCounted
  <2>3. CASE Settle
    BY <2>3, SettleIsCounted DEF Settle
  <2>4. CASE Cancel
    BY <2>4 DEF Cancel
  <2>. QED
    BY <2>1, <2>2, <2>3, <2>4 DEF MapNext
<1>. QED
  BY <1>1, MapInvariant, PTL DEF MapSpec, MapStepsAreCounted

\* The same of any step of a capture that does not abort the call.
LEMMA MapGoesOn ==
  ASSUME MapInv, [MapNext]_<<mapVars, cancelled>>, mapped = "running", UNCHANGED cancelled
  PROVE  \/ UNCHANGED mapVars
         \/ MapStepsLeft' \in Nat /\ MapStepsLeft' < MapStepsLeft
<1>1. ASSUME NEW r \in Runners,
             Take(r) \/ Leave(r) \/ Deliver(r) \/ \E e \in MapErrors : Fail(r, e)
      PROVE  MapStepsLeft' \in Nat /\ MapStepsLeft' < MapStepsLeft
  BY <1>1, TakeIsCounted, LeaveIsCounted, EndOfItemIsCounted
<1>2. CASE Settle
  BY <1>2, SettleIsCounted
<1>3. ~Cancel
  BY DEF Cancel, MapInv, MapTypeOK
<1>. QED
  BY <1>1, <1>2, <1>3 DEF MapNext

-----------------------------------------------------------------------------
\* The loop.

\* However the loop goes on, it does not go on inside the map.
LEMMA LoopGoesOn ==
  ASSUME NEW e, NEW equal,
         \/ End("threw", e) \/ Caught(e) \/ Taken \/ Compared(equal)
         \/ AfterCleanup \/ CleanupThrows
  PROVE  pc' # "map"
BY DEF End, StartCapture, DriftAction, Rethrow, Caught, Taken, Compared, AfterCleanup,
       CleanupThrows

Exceptions == {"none", "drift", "differs", "error", "aborted", "changed",
               "unsettled", "cleanup_failed"}
LoopTypes ==
  /\ mode \in Modes /\ faults \in 0..MaxFaults
  /\ phase \in {"before", "copy", "after"}
  /\ pc \in {"list", "map", "partial", "completed", "stable", "unstable", "threw"}
  /\ attempt \in 1..(MaxRetries + 1) /\ drift \in BOOLEAN
  /\ exc \in Exceptions

(* Whatever way the loop goes, it keeps its types.                          *)
LEMMA LoopKeepsTypes ==
  ASSUME LoopTypes, NEW e \in {"drift", "error", "aborted"}, NEW equal,
         faults' \in 0..MaxFaults, mode' = mode,
         \/ End("threw", e) /\ UNCHANGED drift
         \/ Caught(e) \/ Taken \/ Compared(equal)
         \/ AfterCleanup \/ CleanupThrows
  PROVE  LoopTypes'
<1> USE LoopAssumption DEF LoopTypes, Exceptions
<1>1. ASSUME DriftAction PROVE LoopTypes'
  BY <1>1 DEF DriftAction, End, StartCapture
<1>2. ASSUME NEW x \in Exceptions, Rethrow(x) PROVE LoopTypes'
  <2>1. CASE DriftAction
    BY <1>1, <2>1
  <2>2. CASE End("threw", x) /\ UNCHANGED drift
    BY <2>2 DEF End
  <2>. QED
    BY <1>2, <2>1, <2>2 DEF Rethrow
<1>3. CASE End("threw", e) /\ UNCHANGED drift
  BY <1>3 DEF End
<1>4. CASE Caught(e)
  BY <1>2, <1>4 DEF Caught, End
<1>5. CASE Taken
  BY <1>5 DEF Taken, End, StartCapture
<1>6. CASE Compared(equal)
  BY <1>6 DEF Compared, End
<1>7. CASE AfterCleanup
  BY <1>2, <1>7 DEF AfterCleanup, End
<1>8. CASE CleanupThrows
  BY <1>8 DEF CleanupThrows, End
<1>. QED
  BY <1>3, <1>4, <1>5, <1>6, <1>7, <1>8

LEMMA FaultKeepsTypes == LoopTypes /\ Fault => faults' \in 0..MaxFaults
BY LoopAssumption DEF LoopTypes, Fault

LEMMA ThrownTypes == MapInv => Thrown \in {"drift", "error", "aborted"}
BY LoopAssumption DEF MapInv, MapTypeOK, Thrown

LEMMA CaughtGoesOn ==
  ASSUME LoopTypes, NEW e \in {"drift", "error", "aborted"}, Caught(e)
  PROVE  /\ phase' = phase
         /\ phase = "before" => pc' \in {"threw", "list"}
         /\ phase = "copy" => pc' = "partial"
         /\ phase = "after" => pc' \in {"unstable", "completed"}
BY DEF LoopTypes, Caught, Rethrow, DriftAction, End, StartCapture

LEMMA TakenGoesOn ==
  ASSUME Taken
  PROVE  \/ phase = "before" /\ phase' = "before" /\ pc' = "threw"
         \/ phase = "before" /\ phase' = "copy" /\ pc' = "list"
         \/ phase = "copy" /\ phase' = "copy" /\ pc' = "completed"
         \/ phase = "copy" /\ phase' = "after" /\ pc' = "list"
BY DEF Taken, End, StartCapture

LEMMA CleanedGoesOn ==
  ASSUME AfterCleanup
  PROVE  pc' = "threw" \/ (pc' = "list" /\ phase' = "before")
BY DEF AfterCleanup, Rethrow, DriftAction, End, StartCapture

\* How far the loop is from its end, within an attempt.
PlaceLeft ==
  CASE pc = "list" -> (CASE phase = "before" -> 7 [] phase = "copy" -> 5 [] phase = "after" -> 3)
    [] pc = "map" -> (CASE phase = "before" -> 6 [] phase = "copy" -> 4 [] phase = "after" -> 2)
    [] pc \in {"partial", "completed"} -> 1
    [] pc \in {"stable", "unstable", "threw"} -> 0

\* The loop comes nearer to its end, or takes one of the attempts it has left.
MovesOn == attempt' = attempt + 1 \/ (attempt' = attempt /\ PlaceLeft' < PlaceLeft)

LEMMA PlacesAreCounted == LoopTypes => PlaceLeft \in 0..7
BY DEF LoopTypes, PlaceLeft

LEMMA RethrowMovesOn ==
  ASSUME PlaceLeft \in 1..7, NEW e, Rethrow(e)
  PROVE  MovesOn
<1>0. ASSUME pc' = "threw", attempt' = attempt PROVE MovesOn
  <2>1. PlaceLeft' = 0
    BY <1>0 DEF PlaceLeft
  <2>. QED
    BY <1>0, <2>1 DEF MovesOn
<1>1. CASE DriftAction
  BY <1>0, <1>1 DEF DriftAction, End, MovesOn
<1>2. CASE End("threw", e)
  BY <1>0, <1>2 DEF End
<1>. QED
  BY <1>1, <1>2 DEF Rethrow

LEMMA CaptureMovesOn ==
  ASSUME LoopTypes, pc \in {"list", "map"}, NEW e, NEW equal,
         Caught(e) \/ Taken \/ Compared(equal)
  PROVE  MovesOn
<1>1. PlaceLeft \in 1..7
  BY DEF LoopTypes, PlaceLeft
<1>2. CASE \E x : Rethrow(x)
  BY <1>1, <1>2, RethrowMovesOn
<1>3. CASE \E how, x : how \in {"partial", "completed", "stable", "unstable", "threw"} /\ End(how, x)
  <2>1. attempt' = attempt /\ PlaceLeft' \in {0, 1}
    BY <1>3 DEF End, PlaceLeft
  <2>2. PlaceLeft \in 2..7
    BY DEF LoopTypes, PlaceLeft
  <2>. QED
    BY <2>1, <2>2 DEF MovesOn
<1>4. CASE \/ phase = "before" /\ StartCapture("copy") /\ attempt' = attempt
           \/ phase = "copy" /\ StartCapture("after") /\ attempt' = attempt
  BY <1>4 DEF StartCapture, MovesOn, PlaceLeft
<1>5. CASE Caught(e)
  BY <1>2, <1>3, <1>5 DEF Caught
<1>6. CASE Taken
  BY <1>3, <1>4, <1>6 DEF Taken
<1>7. CASE Compared(equal)
  BY <1>3, <1>7 DEF Compared
<1>. QED
  BY <1>5, <1>6, <1>7

LEMMA CleanupMovesOn ==
  ASSUME pc \in {"partial", "completed"},
         \/ AfterCleanup \/ CleanupThrows
         \/ End("threw", "cleanup_failed")
  PROVE  MovesOn
<1>1. PlaceLeft = 1
  BY DEF PlaceLeft
<1>2. CASE \E x : End("threw", x)
  BY <1>1, <1>2 DEF End, MovesOn, PlaceLeft
<1>3. CASE Rethrow(exc)
  BY <1>1, <1>3, RethrowMovesOn
<1>. QED
  BY <1>2, <1>3 DEF AfterCleanup, CleanupThrows

-----------------------------------------------------------------------------
\* What the caller sees of the loop.

\* An error with cleanups before it is none of those that the loop ends with.
ErrorOnItsWay == ~Ended => exc \in {"none", "drift", "differs", "error", "aborted"}

Retried ==
  /\ mode = "verified" /\ attempt <= MaxRetries /\ attempt' = attempt + 1
  /\ drift' /\ phase' = "before" /\ pc' = "list"

GaveUp ==
  /\ pc' = "threw"
  /\ exc' \in {"changed", "unsettled"} =>
       drift' /\ (mode = "quiesced" \/ (mode = "verified" /\ attempt = MaxRetries + 1))

\* Every step of the loop is one of these.
Turn ==
  /\ mode' = mode /\ (drift => drift') /\ ErrorOnItsWay'
  /\ \/ Retried
     \/ attempt' = attempt /\ ~Ended'
     \/ attempt' = attempt /\ pc' = "unstable" /\ mode = "best-effort" /\ drift'
     \/ attempt' = attempt /\ (pc' = "stable" \/ GaveUp)

LEMMA RethrowTurns ==
  ASSUME LoopTypes, ErrorOnItsWay, mode' = mode,
         NEW x \in {"none", "drift", "differs", "error", "aborted"}, Rethrow(x)
  PROVE  Turn
<1> USE DEF LoopTypes, Turn, ErrorOnItsWay, Ended, GaveUp
<1>1. CASE DriftAction
  <2>1. CASE mode = "verified" /\ attempt > MaxRetries
    <3>1. attempt = MaxRetries + 1 /\ ~(attempt <= MaxRetries)
      BY <2>1, LoopAssumption
    <3>2. drift' /\ End("threw", "unsettled")
      BY <1>1, <2>1, <3>1 DEF DriftAction
    <3>. QED
      BY <2>1, <3>1, <3>2 DEF End
  <2>2. CASE mode = "quiesced"
    BY <1>1, <2>2 DEF DriftAction, End
  <2>3. CASE mode = "verified" /\ attempt <= MaxRetries
    <3>1. ~(attempt > MaxRetries) /\ drift'
      BY <1>1, <2>3, LoopAssumption DEF DriftAction
    <3>2. CASE End("threw", "aborted")
      BY <3>1, <3>2 DEF End
    <3>3. CASE attempt' = attempt + 1 /\ exc' = "none" /\ StartCapture("before")
      BY <2>3, <3>1, <3>3 DEF StartCapture, Retried
    <3>. QED
      BY <1>1, <2>3, <3>1, <3>2, <3>3 DEF DriftAction
  <2>. QED
    BY <1>1, <2>1, <2>2, <2>3 DEF DriftAction
<1>2. CASE End("threw", x) /\ UNCHANGED drift
  BY <1>2 DEF End
<1>. QED
  BY <1>1, <1>2 DEF Rethrow

LEMMA LoopTurns ==
  ASSUME LoopTypes, ErrorOnItsWay, ~Ended, mode' = mode,
         NEW e \in {"drift", "error", "aborted"}, NEW equal,
         \/ End("threw", "cleanup_failed") /\ UNCHANGED drift
         \/ Caught(e) \/ Taken \/ Compared(equal)
         \/ AfterCleanup \/ CleanupThrows
  PROVE  Turn
<1> USE DEF LoopTypes, Turn, ErrorOnItsWay, Ended, GaveUp
<1>1. CASE End("threw", "cleanup_failed") /\ UNCHANGED drift
  BY <1>1 DEF End
<1>2. CASE Caught(e)
  BY <1>2, RethrowTurns DEF Caught, End
<1>3. CASE Taken
  BY <1>3 DEF Taken, End, StartCapture
<1>4. CASE Compared(equal)
  BY <1>4 DEF Compared, End
<1>5. CASE AfterCleanup
  BY <1>5, RethrowTurns DEF AfterCleanup, End
<1>6. CASE CleanupThrows
  BY <1>6 DEF CleanupThrows, End
<1>. QED
  BY <1>1, <1>2, <1>3, <1>4, <1>5, <1>6

\* The caller sees an end, of one kind, exactly when there is one.
EndsAreSeen ==
  /\ Ending = "working" <=> ~Ended
  /\ Ending = "returned" <=> pc \in {"stable", "unstable"}
  /\ Ending = "spoiled" <=> pc = "threw" /\ exc = "cleanup_failed"
  /\ Ending = "drifted" <=> pc = "threw" /\ exc \in {"changed", "unsettled"}
  /\ Ending \in {"working", "returned", "spoiled", "drifted", "failed"}

LEMMA EndingsAreSeen == LoopTypes => EndsAreSeen
BY DEF LoopTypes, EndsAreSeen, Ending, Ended

=============================================================================

------------------------------ MODULE BoundedMap ------------------------------
(***************************************************************************)
(* mapBounded (utils/bounded-concurrency.ts): a few runners work through a  *)
(* list of items.  The first error aborts the signal the workers share; the *)
(* call settles when every runner has left its loop.  What a worker does    *)
(* with an item is up to the modules that extend this one.                  *)
(***************************************************************************)
EXTENDS Naturals, Sequences, FiniteSets

CONSTANTS
  Runners,    \* as many as may run at once
  ItemLists,  \* the lists of items a call may be given
  MapErrors   \* what a worker may throw

ASSUME MapAssumption ==
  /\ Runners # {} /\ IsFiniteSet(Runners)
  /\ \A list \in ItemLists : list \in Seq({list[i] : i \in DOMAIN list})
  /\ "none" \notin MapErrors /\ "aborted" \notin MapErrors

VARIABLES
  items,       \* the list of this call
  cursor,      \* nextIndex, counted from 1
  work,        \* the index a runner works on, 0 when it is between two
  gone,        \* the runners that have left their loop
  results,     \* the indices whose result is there
  firstError,  \* what the call will throw, or "none"
  stopped,     \* controller.signal.aborted
  cancelled,   \* externalSignal.aborted
  mapped       \* how the call stands

mapVars == <<items, cursor, work, gone, results, firstError, stopped, mapped>>

-----------------------------------------------------------------------------

\* The call; it throws at once under an aborted signal.
StartMap(list) ==
  /\ items' = list /\ cursor' = 1
  /\ work' = [r \in Runners |-> 0] /\ gone' = {} /\ results' = {}
  /\ firstError' = "none" /\ stopped' = FALSE
  /\ mapped' = IF cancelled THEN "rejected" ELSE "running"

\* A runner is between two items.
Free(r) == mapped = "running" /\ r \notin gone /\ work[r] = 0

Take(r) ==
  /\ Free(r) /\ ~stopped /\ cursor <= Len(items)
  /\ work' = [work EXCEPT ![r] = cursor]
  /\ cursor' = cursor + 1
  /\ UNCHANGED <<items, gone, results, firstError, stopped, mapped>>

Leave(r) ==
  /\ Free(r) /\ (stopped \/ cursor > Len(items))
  /\ gone' = gone \cup {r}
  /\ UNCHANGED <<items, cursor, work, results, firstError, stopped, mapped>>

\* The worker of r returns its result, or throws e.
Deliver(r) ==
  /\ work[r] # 0
  /\ results' = results \cup {work[r]}
  /\ work' = [work EXCEPT ![r] = 0]
  /\ UNCHANGED <<items, cursor, gone, firstError, stopped, mapped>>

Fail(r, e) ==
  /\ work[r] # 0
  /\ work' = [work EXCEPT ![r] = 0]
  /\ firstError' = IF firstError = "none" THEN e ELSE firstError
  /\ stopped' = TRUE
  /\ UNCHANGED <<items, cursor, gone, results, mapped>>

\* Mutant: the call settles with the first error, like Promise.all of the workers.
SettleOnError ==
  /\ mapped = "running" /\ (gone = Runners \/ firstError # "none")
  /\ mapped' = IF firstError # "none" \/ cancelled THEN "rejected" ELSE "returned"
  /\ UNCHANGED <<items, cursor, work, gone, results, firstError, stopped>>

\* Mutant: an abort from outside is not looked for after the runners have left.
SettleUnlessError ==
  /\ mapped = "running" /\ gone = Runners
  /\ mapped' = IF firstError # "none" THEN "rejected" ELSE "returned"
  /\ UNCHANGED <<items, cursor, work, gone, results, firstError, stopped>>

Settle ==
  /\ mapped = "running" /\ gone = Runners
  /\ mapped' = IF firstError # "none" \/ cancelled THEN "rejected" ELSE "returned"
  /\ UNCHANGED <<items, cursor, work, gone, results, firstError, stopped>>

\* The caller's signal is aborted.
Cancel ==
  /\ ~cancelled
  /\ cancelled' = TRUE
  /\ stopped' = (stopped \/ mapped = "running")
  /\ UNCHANGED <<items, cursor, work, gone, results, firstError, mapped>>

Thrown == IF firstError # "none" THEN firstError ELSE "aborted"

\* The call on its own, with workers that take any time and end either way.
MapInit ==
  /\ items = <<>> /\ cursor = 1
  /\ work = [r \in Runners |-> 0] /\ gone = {} /\ results = {}
  /\ firstError = "none" /\ stopped = FALSE /\ cancelled = FALSE
  /\ mapped = "idle"

MapNext ==
  \/ /\ mapped # "running" /\ \E list \in ItemLists : StartMap(list)
     /\ UNCHANGED cancelled
  \/ /\ \/ \E r \in Runners :
             Take(r) \/ Leave(r) \/ Deliver(r) \/ \E e \in MapErrors : Fail(r, e)
        \/ Settle
     /\ UNCHANGED cancelled
  \/ Cancel

MapSpec == MapInit /\ [][MapNext]_<<mapVars, cancelled>>

-----------------------------------------------------------------------------

MapTypeOK ==
  /\ items \in ItemLists \cup {<<>>}
  /\ cursor \in 1..(Len(items) + 1)
  /\ work \in [Runners -> 0..Len(items)]
  /\ gone \subseteq Runners
  /\ results \subseteq DOMAIN items
  /\ firstError \in MapErrors \cup {"none"}
  /\ stopped \in BOOLEAN /\ cancelled \in BOOLEAN
  /\ mapped \in {"idle", "running", "returned", "rejected"}

(* When the call has settled no worker runs on: what the caller does next,  *)
(* removing the files of a failed copy above all, cannot meet a late write  *)
(* (mapBounded).                                                            *)
SettledIsQuiet == mapped # "running" => \A r \in Runners : work[r] = 0

(* A call that returns has the result of every item, whenever it was        *)
(* cancelled (mapBounded).                                                  *)
ReturnedIsComplete == mapped = "returned" => results = DOMAIN items

=============================================================================

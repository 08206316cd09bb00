---------------------------- MODULE ManagementClient ----------------------------
(***************************************************************************)
(* ManagementClient (supabase/management/client.ts): the one client of a    *)
(* run, called by many captures and handlers at once.  A request is sent    *)
(* up to MaxAttempts times; an answer that says the quota of its scope is   *)
(* used up holds back every later attempt in that scope (notBefore).        *)
(*                                                                          *)
(* Time is what is left of every delay; Tick lets a unit of it pass.  A     *)
(* timer may fire late, and an answer may be long on its way.               *)
(***************************************************************************)
EXTENDS Integers

CONSTANTS
  Requests,      \* the requests of a run; several are under way at a time
  Scopes,        \* projects, organizations, and the rest
  Scope,         \* the scope of every request
  MaxAttempts,
  MaxRetryDelay, \* caps the delay before a retry
  MaxWindow      \* the longest time until a quota is renewed

ASSUME ClientAssumption ==
  /\ Scope \in [Requests -> Scopes]
  /\ MaxAttempts \in Nat \ {0}
  /\ MaxRetryDelay \in Nat /\ MaxWindow \in Nat

VARIABLES
  pc,         \* where every request stands
  attempt,
  timer,      \* what is left of its delay
  notBefore,  \* per scope, what is left of the announced limit
  wire,       \* the request, or the answer to it, on its way
  result,     \* how it ended
  aborted,    \* the signal all requests share
  window,     \* per scope, the time until the platform renews the quota
  applied,    \* how often the platform carried the request out
  open,       \* how many attempts left it open whether they had an effect
  word,       \* per scope, what the client was told of the present limit
  basis,      \* per request, the word when it began to wait
  guided      \* requests told their own delay, within the cap

clientVars == <<pc, attempt, timer, notBefore, result>>
platformVars == <<window, applied, open>>
told == <<word, basis, guided>>
vars == <<clientVars, wire, aborted, platformVars, told>>

Stages == {"idle", "top", "wait", "fetch", "retry", "done"}
Results == {"none", "ok", "contract", "aborted", "refused", "limited", "error", "lost"}

\* ok; ok with a body that is no longer in the contract; 4xx but 429; 429;
\* 5xx; no response at all.
Statuses == {"ok", "garbled", "refused", "limited", "error", "lost"}

\* left: the quota is used up and renewed after this time; after: Retry-After.
\* Zero where the header is missing.  stale: the quota was renewed since.
Answers == [status : Statuses, left : 0..MaxWindow, after : 0..MaxWindow, stale : BOOLEAN]

\* Of the present limit of a scope the client has heard nothing in the quota
\* headers; or this limit; or, after that, late, an earlier one.
Words == {"none", "true", "late"}

NoAnswer == [status |-> "none"]
Sent == [status |-> "sent"]

Answer(s, left, after) == [status |-> s, left |-> left, after |-> after, stale |-> FALSE]

-----------------------------------------------------------------------------

Done(r, how) ==
  /\ pc' = [pc EXCEPT ![r] = "done"]
  /\ result' = [result EXCEPT ![r] = how]

Move(r, stage) == pc' = [pc EXCEPT ![r] = stage] /\ UNCHANGED result

\* get, getRaw, putEmpty and delete; put, post and patch validate their body first.
Begin(r) ==
  /\ pc[r] = "idle"
  /\ Move(r, "top") \/ Done(r, "contract")
  /\ UNCHANGED <<attempt, timer, notBefore, wire, aborted, platformVars, told>>

\* fetch.
Dispatch(r) ==
  /\ Move(r, "fetch")
  /\ wire' = [wire EXCEPT ![r] = Sent]
  /\ basis' = [basis EXCEPT ![r] = "none"]

Hold(r) ==
  /\ Move(r, "wait") /\ UNCHANGED wire
  /\ basis' = [basis EXCEPT ![r] = word[Scope[r]]]

\* throwIfAborted, and one look at the limit of the scope: it is not looked at
\* again after the delay, and without a delay nothing comes between.
StartAttempt(r) ==
  /\ pc[r] = "top"
  /\ IF aborted
       THEN Done(r, "aborted") /\ UNCHANGED <<timer, wire, basis>>
       ELSE /\ IF notBefore[Scope[r]] > 0 THEN Hold(r) ELSE Dispatch(r)
            /\ timer' = [timer EXCEPT ![r] = notBefore[Scope[r]]]
  /\ UNCHANGED <<attempt, notBefore, aborted, platformVars, word, guided>>

Send(r) ==
  /\ pc[r] = "wait" /\ timer[r] = 0 /\ ~aborted
  /\ Dispatch(r)
  /\ UNCHANGED <<attempt, timer, notBefore, aborted, platformVars, word, guided>>

\* Mutant: only a success is looked at for its limits.
AnnouncedBySuccess(r) == wire[r].left > 0 /\ wire[r].status = "ok"

\* remaining = 0 and a reset: the last answer to arrive overwrites the others.
Announced(r) == wire[r].left > 0

NoteLimit(r) ==
  IF Announced(r)
    THEN notBefore' = [notBefore EXCEPT ![Scope[r]] = wire[r].left]
    ELSE UNCHANGED notBefore

\* The record of the above, whatever the client does with the answer.
NoteWord(r) ==
  LET said == IF ~wire[r].stale THEN "true"
              ELSE IF word[Scope[r]] = "none" THEN "none" ELSE "late" IN
  word' = IF wire[r].left = 0 THEN word ELSE [word EXCEPT ![Scope[r]] = said]

\* Retry-After counts, or the quota header; zero is no header.
Header(r) == IF wire[r].after > 0 THEN wire[r].after ELSE wire[r].left

\* The header counts up to the cap; without one any part of the exponential.
RetryDelays(r) ==
  IF Header(r) = 0 THEN 0..MaxRetryDelay
  ELSE {IF Header(r) < MaxRetryDelay THEN Header(r) ELSE MaxRetryDelay}

\* The record of a delay that is as long as the platform asked for.
NoteGuidance(r) ==
  guided' = IF Header(r) \in 1..MaxRetryDelay /\ ~wire[r].stale THEN guided \cup {r}
                                                                 ELSE guided

\* Mutant: an unreadable success is tried again.
FinalUnlessGarbled(s) == s \in {"ok", "refused"}

\* What is not tried again: a refusal, and a success that cannot be read.
Final(s) == s \in {"ok", "garbled", "refused"}

Receive(r) ==
  /\ pc[r] = "fetch" /\ wire[r] \in Answers
  /\ NoteLimit(r) /\ NoteWord(r)
  /\ IF Final(wire[r].status) \/ attempt[r] = MaxAttempts
       THEN /\ Done(r, IF wire[r].status = "garbled" THEN "contract" ELSE wire[r].status)
            /\ UNCHANGED <<timer, guided>>
       ELSE /\ Move(r, "retry") /\ NoteGuidance(r)
            /\ \E d \in RetryDelays(r) : timer' = [timer EXCEPT ![r] = d]
  /\ wire' = [wire EXCEPT ![r] = NoAnswer]
  /\ UNCHANGED <<attempt, aborted, platformVars, basis>>

\* Mutant: the attempts are not counted.
RetryUncounted(r) ==
  /\ pc[r] = "retry" /\ timer[r] = 0 /\ ~aborted
  /\ Move(r, "top")
  /\ UNCHANGED <<attempt, timer, notBefore, wire, aborted, platformVars, told>>

Retry(r) ==
  /\ pc[r] = "retry" /\ timer[r] = 0 /\ ~aborted
  /\ Move(r, "top")
  /\ attempt' = [attempt EXCEPT ![r] = @ + 1]
  /\ UNCHANGED <<timer, notBefore, wire, aborted, platformVars, told>>

\* Both delays end with the signal.
AbortDelay(r) ==
  /\ pc[r] \in {"wait", "retry"} /\ aborted
  /\ Done(r, "aborted")
  /\ UNCHANGED <<attempt, timer, notBefore, wire, aborted, platformVars, told>>

\* fetch ends with the signal: a failure without a response, whose delay ends
\* with the signal too.  The request may have arrived, or still arrive.
AbortFetch(r) ==
  /\ pc[r] = "fetch" /\ aborted
  /\ Done(r, IF attempt[r] = MaxAttempts THEN "lost" ELSE "aborted")
  /\ wire' = [wire EXCEPT ![r] = NoAnswer]
  /\ open' = [open EXCEPT ![r] = @ + 1]
  /\ \/ wire[r] = Sent /\ applied' = [applied EXCEPT ![r] = @ + 1]
     \/ UNCHANGED applied
  /\ UNCHANGED <<attempt, timer, notBefore, aborted, window, told>>

-----------------------------------------------------------------------------
(* The platform. *)

Reply(r, a) == wire' = [wire EXCEPT ![r] = a]
CarryOut(r) == applied' = [applied EXCEPT ![r] = @ + 1]

\* Whether the request is carried out and answered, and with what body; it may
\* use the quota up, and say so.
Accept(r) ==
  /\ wire[r] = Sent /\ window[Scope[r]] = 0
  /\ CarryOut(r)
  /\ \E s \in {"ok", "garbled"}, w \in 0..MaxWindow :
       /\ \E left \in {0, w} : Reply(r, Answer(s, left, 0))
       /\ window' = [window EXCEPT ![Scope[r]] = w]
  /\ UNCHANGED <<clientVars, aborted, open, told>>

\* 4xx but 429.
Refuse(r) ==
  /\ wire[r] = Sent
  /\ \E left \in {0, window[Scope[r]]} : Reply(r, Answer("refused", left, 0))
  /\ UNCHANGED <<clientVars, aborted, platformVars, told>>

\* The headers tell how long, if they are there and well formed.
Limit(r) ==
  LET w == window[Scope[r]] IN
  /\ wire[r] = Sent /\ w > 0
  /\ \E left, after \in {0, w} : Reply(r, Answer("limited", left, after))
  /\ UNCHANGED <<clientVars, aborted, platformVars, told>>

\* 5xx, or no response: carried out or not.
Fail(r) ==
  /\ wire[r] = Sent
  /\ \/ \E left, after \in {0, window[Scope[r]]} : Reply(r, Answer("error", left, after))
     \/ Reply(r, Answer("lost", 0, 0))
  /\ open' = [open EXCEPT ![r] = @ + 1]
  /\ CarryOut(r) \/ UNCHANGED applied
  /\ UNCHANGED <<clientVars, aborted, window, told>>

\* Others use the quota up.
Exhaust(s) ==
  /\ window[s] = 0
  /\ \E w \in 1..MaxWindow : window' = [window EXCEPT ![s] = w]
  /\ UNCHANGED <<clientVars, wire, aborted, applied, open, told>>

-----------------------------------------------------------------------------

Less(n) == IF n > 0 THEN n - 1 ELSE 0

\* Time passes.  A renewed quota makes what was said of the last one stale.
Tick ==
  /\ \/ \E r \in Requests : timer[r] > 0
     \/ \E s \in Scopes : notBefore[s] > 0 \/ window[s] > 0
  /\ timer' = [r \in Requests |-> Less(timer[r])]
  /\ notBefore' = [s \in Scopes |-> Less(notBefore[s])]
  /\ window' = [s \in Scopes |-> Less(window[s])]
  /\ LET renewed == {s \in Scopes : window[s] = 1} IN
       /\ wire' = [r \in Requests |->
                     IF Scope[r] \in renewed /\ wire[r] \in Answers /\ Header(r) > 0
                       THEN [wire[r] EXCEPT !.stale = TRUE] ELSE wire[r]]
       /\ word' = [s \in Scopes |-> IF s \in renewed THEN "none" ELSE word[s]]
       /\ basis' = [r \in Requests |-> IF Scope[r] \in renewed THEN "none" ELSE basis[r]]
       /\ guided' = {r \in guided : Scope[r] \notin renewed}
  /\ UNCHANGED <<pc, attempt, result, aborted, applied, open>>

Abort ==
  /\ ~aborted /\ aborted' = TRUE
  /\ UNCHANGED <<clientVars, wire, platformVars, told>>

Client(r) ==
  \/ StartAttempt(r) \/ Send(r) \/ Receive(r) \/ Retry(r)
  \/ AbortDelay(r) \/ AbortFetch(r)

Platform(r) == Accept(r) \/ Refuse(r) \/ Limit(r) \/ Fail(r)

Next ==
  \/ \E r \in Requests : Begin(r) \/ Client(r) \/ Platform(r)
  \/ \E s \in Scopes : Exhaust(s)
  \/ Tick
  \/ Abort

Init ==
  /\ pc = [r \in Requests |-> "idle"]
  /\ attempt = [r \in Requests |-> 1]
  /\ timer = [r \in Requests |-> 0]
  /\ notBefore = [s \in Scopes |-> 0]
  /\ wire = [r \in Requests |-> NoAnswer]
  /\ result = [r \in Requests |-> "none"]
  /\ aborted = FALSE
  /\ window = [s \in Scopes |-> 0]
  /\ applied = [r \in Requests |-> 0]
  /\ open = [r \in Requests |-> 0]
  /\ word = [s \in Scopes |-> "none"] /\ basis = [r \in Requests |-> "none"]
  /\ guided = {}

Spec == Init /\ [][Next]_vars

\* The event loop runs what is ready, timers fire, and fetch answers or fails:
\* it has time limits of its own for the headers and the body of a response.
FairSpec ==
  /\ Spec /\ WF_vars(Tick)
  /\ \A r \in Requests : WF_vars(Client(r)) /\ WF_vars(Platform(r))

-----------------------------------------------------------------------------

ClientTypeOK ==
  /\ pc \in [Requests -> Stages]
  /\ attempt \in [Requests -> 1..MaxAttempts]
  /\ timer \in [Requests -> 0..(MaxWindow + MaxRetryDelay)]
  /\ notBefore \in [Scopes -> 0..MaxWindow]
  /\ wire \in [Requests -> Answers \cup {NoAnswer, Sent}]
  /\ result \in [Requests -> Results]
  /\ aborted \in BOOLEAN
  /\ window \in [Scopes -> 0..MaxWindow]
  /\ applied \in [Requests -> Nat] /\ open \in [Requests -> Nat]
  /\ word \in [Scopes -> Words] /\ basis \in [Requests -> Words]
  /\ guided \subseteq Requests

(* A request that returned had its effect.  One that did not had none,      *)
(* unless an attempt of it ended in a 5xx or without a response, or the     *)
(* success could not be read; and it has no more effects than such attempts *)
(* (#requestResponse retries every method; #parseJson).                     *)
EffectsAreAccounted ==
  \A r \in Requests : pc[r] = "done" =>
    /\ result[r] = "ok" => applied[r] > 0
    /\ applied[r] <= open[r] + (IF result[r] \in {"ok", "contract"} THEN 1 ELSE 0)

\* What the client had been told when the attempt looked at the limit.
Heard(r) == IF pc[r] = "wait" THEN basis[r] ELSE word[Scope[r]]

(* An attempt that is sent into a limit of the platform has a reason: when  *)
(* it looked, no quota header had told the client of this limit (it was     *)
(* told while the attempt slept, or not at all, or by a Retry-After only,   *)
(* which holds back no request but the one that got it and no longer than   *)
(* maxRetryDelayMs), or a late answer had overwritten that with an earlier  *)
(* limit.  A delay asked of the request itself, by Retry-After or the reset *)
(* of the quota, is kept whenever it is within the cap.  The reasons are    *)
(* where the code falls short of "Respect server-supplied rate-limit/retry  *)
(* guidance when stronger" (docs/11-operations-reliability.md:121;          *)
(* #notBefore, retryDelay, #requestResponse).                               *)
LimitsAreMetForAReason ==
  [][\A r \in Requests :
       pc[r] # "fetch" /\ pc'[r] = "fetch" /\ window[Scope[r]] > 0 =>
         r \notin guided /\ Heard(r) \in {"none", "late"}]_vars

(* Every request ends, however often the platform fails, however others use *)
(* the quota, and although every answer may hold it back again              *)
(* (#requestResponse).                                                      *)
RequestsEnd == \A r \in Requests : pc[r] = "top" ~> pc[r] = "done"

=============================================================================

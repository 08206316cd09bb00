------------------------ MODULE ManagementClientProofs ------------------------
(***************************************************************************)
(* ManagementClient for any number of requests, scopes, attempts and any    *)
(* delays.                                                                  *)
(*                                                                          *)
(* EffectsAreAccounted needs to know what an answer on its way says of the  *)
(* effects (Accounted).  LimitsAreMetForAReason needs to know that what the *)
(* client was told of the present limit is no shorter than that limit, on   *)
(* every way it takes: in the answer, in notBefore, in both delays (Told).  *)
(*                                                                         *)
(* RequestsHaveBoundedPatience: steps and waiting of a request are paid    *)
(* from a budget that no other request can raise.                          *)
(***************************************************************************)
EXTENDS ManagementClient, TLAPS

Succeeded(a) == a.status \in {"ok", "garbled"}

Accounted(r) ==
  /\ pc[r] = "retry" => attempt[r] < MaxAttempts
  /\ wire[r] # NoAnswer => pc[r] = "fetch"
  /\ pc[r] = "idle" \/ pc[r] = "top" \/ pc[r] = "wait" \/ pc[r] = "retry"
       => applied[r] <= open[r]
  /\ wire[r] = Sent => applied[r] <= open[r]
  /\ pc[r] = "fetch" => wire[r] # NoAnswer
  /\ wire[r] \in Answers =>
       IF Succeeded(wire[r]) THEN 0 < applied[r] /\ applied[r] <= open[r] + 1
                             ELSE applied[r] <= open[r]
  /\ pc[r] = "done" =>
       /\ result[r] = "ok" => applied[r] > 0
       /\ applied[r] <= open[r] + (IF result[r] \in {"ok", "contract"} THEN 1 ELSE 0)

EffectsInv == \A r \in Requests : Accounted(r)

\* n is as long as the present limit of r's scope.
Covers(r, n) == window[Scope[r]] > 0 /\ n >= window[Scope[r]]

AnswerTold(r) ==
  wire[r] \in Answers /\ ~wire[r].stale =>
    /\ wire[r].left > 0 => Covers(r, wire[r].left)
    /\ wire[r].after > 0 => Covers(r, wire[r].after)

ScopeTold(s) == word[s] = "true" => window[s] > 0 /\ notBefore[s] >= window[s]

DelayTold(r) ==
  /\ pc[r] = "wait" /\ basis[r] = "true" => Covers(r, timer[r])
  /\ r \in guided => /\ window[Scope[r]] > 0
                     /\ pc[r] = "done" \/ (pc[r] = "retry" /\ Covers(r, timer[r]))

Told ==
  /\ \A r \in Requests : AnswerTold(r) /\ DelayTold(r)
  /\ \A s \in Scopes : ScopeTold(s)

(* The three records of an exchange differ by their status.                 *)
LEMMA RecordsDiffer ==
  /\ NoAnswer \notin Answers /\ Sent \notin Answers /\ NoAnswer # Sent
BY DEF NoAnswer, Sent, Answers, Statuses

LEMMA AnswerTyped ==
  ASSUME NEW s \in Statuses, NEW l \in 0..MaxWindow, NEW a \in 0..MaxWindow
  PROVE  /\ Answer(s, l, a) \in Answers
         /\ Answer(s, l, a).status = s /\ Answer(s, l, a).left = l
         /\ Answer(s, l, a).after = a /\ Answer(s, l, a).stale = FALSE
BY DEF Answer, Answers

LEMMA StaleTyped ==
  ASSUME NEW a \in Answers
  PROVE  LET b == [a EXCEPT !.stale = TRUE] IN
           b \in Answers /\ b.status = a.status /\ b.left = a.left
           /\ b.after = a.after /\ b.stale = TRUE
BY DEF Answers

LEMMA LessTyped ==
  ASSUME NEW m \in Nat, NEW n \in 0..m
  PROVE  Less(n) \in 0..m /\ Less(n) <= n /\ (n > 0 => Less(n) = n - 1)
BY DEF Less

(* The delay before a retry is capped.                                      *)
LEMMA DelayTyped ==
  ASSUME NEW r \in Requests, wire[r] \in Answers, NEW d \in RetryDelays(r)
  PROVE  d \in 0..MaxRetryDelay
BY ClientAssumption DEF RetryDelays, Header, Answers

-----------------------------------------------------------------------------

LEMMA StepTyped == ClientTypeOK /\ EffectsInv /\ [Next]_vars => ClientTypeOK'
<1> SUFFICES ASSUME ClientTypeOK, EffectsInv, [Next]_vars PROVE ClientTypeOK'
  OBVIOUS
<1> USE ClientAssumption
<1>0. 0 \in 0..MaxWindow OBVIOUS
<1>1. ASSUME NEW r \in Requests, Begin(r) PROVE ClientTypeOK'
  BY <1>1 DEF Begin, Move, Done, ClientTypeOK, platformVars, told, Stages, Results
<1>2. ASSUME NEW r \in Requests, StartAttempt(r) PROVE ClientTypeOK'
  <2>1. Scope[r] \in Scopes /\ notBefore[Scope[r]] \in 0..(MaxWindow + MaxRetryDelay)
    BY DEF ClientTypeOK
  <2>2. word[Scope[r]] \in Words /\ "none" \in Words
    BY <2>1 DEF ClientTypeOK, Words
  <2>3. basis' \in [Requests -> Words] /\ wire' \in [Requests -> Answers \cup {NoAnswer, Sent}]
    BY <1>2, <2>2 DEF StartAttempt, Hold, Dispatch, ClientTypeOK
  <2> QED BY <1>2, <2>1, <2>3 DEF StartAttempt, Hold, Dispatch, Move, Done, ClientTypeOK,
                            platformVars, told, Stages, Results
<1>3. ASSUME NEW r \in Requests, Send(r) PROVE ClientTypeOK'
  <2>1. basis' \in [Requests -> Words]
    BY <1>3 DEF Send, Dispatch, ClientTypeOK, Words
  <2> QED BY <1>3, <2>1 DEF Send, Dispatch, Move, ClientTypeOK, platformVars, told, Stages
<1>4. ASSUME NEW r \in Requests, Receive(r) PROVE ClientTypeOK'
  <2>1. wire[r] \in Answers /\ wire[r].status \in Statuses /\ wire[r].left \in 0..MaxWindow
    BY <1>4 DEF Receive, Answers
  <2>2. /\ notBefore' \in [Scopes -> 0..MaxWindow] /\ guided' \subseteq Requests
        /\ word' \in [Scopes -> Words]
    BY <1>4, <2>1 DEF Receive, NoteLimit, NoteWord, NoteGuidance, ClientTypeOK, Words
  <2>3. timer' \in [Requests -> 0..(MaxWindow + MaxRetryDelay)]
    <3>1. CASE UNCHANGED timer BY <3>1 DEF ClientTypeOK
    <3>2. CASE \E d \in RetryDelays(r) : timer' = [timer EXCEPT ![r] = d]
      <4>1. PICK d \in RetryDelays(r) : timer' = [timer EXCEPT ![r] = d] BY <3>2
      <4>2. d \in 0..(MaxWindow + MaxRetryDelay) BY <2>1, <4>1, DelayTyped
      <4> QED BY <4>1, <4>2 DEF ClientTypeOK
    <3> QED BY <1>4, <3>1, <3>2 DEF Receive
  <2>4. pc' \in [Requests -> Stages] /\ result' \in [Requests -> Results]
    BY <1>4, <2>1 DEF Receive, Move, Done, ClientTypeOK, Stages, Results, Statuses
  <2> QED BY <1>4, <2>2, <2>3, <2>4 DEF Receive, ClientTypeOK, platformVars, told
<1>5. ASSUME NEW r \in Requests, Retry(r) PROVE ClientTypeOK'
  <2>1. attempt[r] + 1 \in 1..MaxAttempts
    BY <1>5 DEF Retry, ClientTypeOK, EffectsInv, Accounted
  <2> QED BY <1>5, <2>1 DEF Retry, Move, ClientTypeOK, platformVars, told, Stages
<1>6. ASSUME NEW r \in Requests, AbortDelay(r) PROVE ClientTypeOK'
  BY <1>6 DEF AbortDelay, Done, ClientTypeOK, platformVars, told, Stages, Results
<1>7. ASSUME NEW r \in Requests, AbortFetch(r) PROVE ClientTypeOK'
  BY <1>7 DEF AbortFetch, Done, ClientTypeOK, told, Stages, Results
<1>8. ASSUME NEW r \in Requests, Platform(r) PROVE ClientTypeOK'
  <2>1. Scope[r] \in Scopes /\ window[Scope[r]] \in 0..MaxWindow BY DEF ClientTypeOK
  <2>2. CASE Accept(r)
    <3>1. PICK s \in {"ok", "garbled"}, w \in 0..MaxWindow, left \in 0..MaxWindow :
            /\ Reply(r, Answer(s, left, 0))
            /\ window' = [window EXCEPT ![Scope[r]] = w]
      BY <1>0, <2>2 DEF Accept
    <3>2. Answer(s, left, 0) \in Answers BY <1>0, <3>1, AnswerTyped DEF Statuses
    <3> QED BY <2>1, <2>2, <3>1, <3>2 DEF Accept, Reply, CarryOut, ClientTypeOK, clientVars, told
  <2>3. CASE Refuse(r)
    <3>1. PICK left \in {0, window[Scope[r]]} : Reply(r, Answer("refused", left, 0))
      BY <2>3 DEF Refuse
    <3>2. left \in 0..MaxWindow BY <2>1
    <3>3. Answer("refused", left, 0) \in Answers BY <1>0, <3>2, AnswerTyped DEF Statuses
    <3> QED BY <2>3, <3>1, <3>3 DEF Refuse, Reply, ClientTypeOK, clientVars, platformVars, told
  <2>4. CASE Limit(r)
    <3>1. PICK left \in {0, window[Scope[r]]}, after \in {0, window[Scope[r]]} :
            Reply(r, Answer("limited", left, after))
      BY <2>4 DEF Limit
    <3>2. left \in 0..MaxWindow /\ after \in 0..MaxWindow BY <2>1
    <3>3. Answer("limited", left, after) \in Answers BY <3>2, AnswerTyped DEF Statuses
    <3> QED BY <2>4, <3>1, <3>3 DEF Limit, Reply, ClientTypeOK, clientVars, platformVars, told
  <2>5. CASE Fail(r)
    <3>1. wire' \in [Requests -> Answers \cup {NoAnswer, Sent}]
      <4>1. CASE \E left, after \in {0, window[Scope[r]]} : Reply(r, Answer("error", left, after))
        <5>1. PICK left, after \in {0, window[Scope[r]]} : Reply(r, Answer("error", left, after))
          BY <4>1
        <5>2. left \in 0..MaxWindow /\ after \in 0..MaxWindow BY <2>1
        <5>3. Answer("error", left, after) \in Answers BY <5>2, AnswerTyped DEF Statuses
        <5> QED BY <5>1, <5>3 DEF Reply, ClientTypeOK
      <4>2. CASE Reply(r, Answer("lost", 0, 0))
        <5>1. Answer("lost", 0, 0) \in Answers BY <1>0, AnswerTyped DEF Statuses
        <5> QED BY <4>2, <5>1 DEF Reply, ClientTypeOK
      <4> QED BY <2>5, <4>1, <4>2 DEF Fail
    <3>2. open' \in [Requests -> Nat] /\ applied' \in [Requests -> Nat]
      BY <2>5 DEF Fail, CarryOut, ClientTypeOK
    <3> QED BY <2>5, <3>1, <3>2 DEF Fail, ClientTypeOK, clientVars, told
  <2> QED BY <1>8, <2>2, <2>3, <2>4, <2>5 DEF Platform
<1>9. ASSUME NEW s \in Scopes, Exhaust(s) PROVE ClientTypeOK'
  BY <1>9 DEF Exhaust, ClientTypeOK, clientVars, told
<1>10. CASE Tick
  <2> DEFINE top == MaxWindow + MaxRetryDelay
  <2>1. timer' \in [Requests -> 0..top]
    <3>1. \A r \in Requests : Less(timer[r]) \in 0..top
      BY LessTyped, top \in Nat DEF ClientTypeOK
    <3> QED BY <1>10, <3>1 DEF Tick
  <2>2. notBefore' \in [Scopes -> 0..MaxWindow] /\ window' \in [Scopes -> 0..MaxWindow]
    <3>1. \A s \in Scopes : /\ Less(notBefore[s]) \in 0..MaxWindow
                            /\ Less(window[s]) \in 0..MaxWindow
      BY LessTyped DEF ClientTypeOK
    <3> QED BY <1>10, <3>1 DEF Tick
  <2>3. wire' \in [Requests -> Answers \cup {NoAnswer, Sent}]
    <3>1. \A r \in Requests : wire[r] \in Answers => [wire[r] EXCEPT !.stale = TRUE] \in Answers
      BY StaleTyped
    <3> QED BY <1>10, <3>1 DEF Tick, ClientTypeOK
  <2>4. word' \in [Scopes -> Words] /\ basis' \in [Requests -> Words]
    BY <1>10 DEF Tick, ClientTypeOK, Words
  <2> QED BY <1>10, <2>1, <2>2, <2>3, <2>4 DEF Tick, ClientTypeOK
<1>11. CASE Abort
  BY <1>11 DEF Abort, ClientTypeOK, clientVars, platformVars, told
<1>12. CASE UNCHANGED vars
  BY <1>12 DEF ClientTypeOK, vars, clientVars, platformVars, told
<1> QED BY <1>1, <1>2, <1>3, <1>4, <1>5, <1>6, <1>7, <1>8, <1>9, <1>10, <1>11, <1>12
        DEF Next, Client

-----------------------------------------------------------------------------

(* A step of one request, or of nobody, leaves the others' accounts alone.  *)
LEMMA OthersAccounted ==
  ASSUME NEW r \in Requests, Accounted(r),
         pc'[r] = pc[r], attempt'[r] = attempt[r], wire'[r] = wire[r],
         result'[r] = result[r], applied'[r] = applied[r], open'[r] = open[r]
  PROVE  Accounted(r)'
BY DEF Accounted, Succeeded

LEMMA StepAccounted ==
  ClientTypeOK /\ EffectsInv /\ [Next]_vars => EffectsInv'
<1> SUFFICES ASSUME ClientTypeOK, EffectsInv, [Next]_vars, NEW q \in Requests
             PROVE  Accounted(q)'
  BY DEF EffectsInv
<1> USE ClientAssumption
<1>0. /\ Accounted(q) /\ applied[q] \in Nat /\ open[q] \in Nat
      /\ attempt[q] \in 1..MaxAttempts /\ 0 \in 0..MaxWindow
  BY DEF EffectsInv, ClientTypeOK
<1>1. ASSUME NEW r \in Requests, r # q, Begin(r) \/ Client(r) \/ Platform(r)
      PROVE  Accounted(q)'
  <2>1. /\ pc'[q] = pc[q] /\ attempt'[q] = attempt[q] /\ wire'[q] = wire[q]
        /\ result'[q] = result[q] /\ applied'[q] = applied[q] /\ open'[q] = open[q]
    <3>1. CASE Begin(r) BY <1>1, <3>1 DEF Begin, Move, Done, ClientTypeOK, platformVars
    <3>2. CASE StartAttempt(r)
      BY <1>1, <3>2 DEF StartAttempt, Hold, Dispatch, Move, Done, ClientTypeOK, platformVars
    <3>3. CASE Send(r) BY <1>1, <3>3 DEF Send, Dispatch, Move, ClientTypeOK, platformVars
    <3>4. CASE Receive(r)
      BY <1>1, <3>4 DEF Receive, Move, Done, ClientTypeOK, platformVars
    <3>5. CASE Retry(r) BY <1>1, <3>5 DEF Retry, Move, ClientTypeOK, platformVars
    <3>6. CASE AbortDelay(r)
      BY <1>1, <3>6 DEF AbortDelay, Done, ClientTypeOK, platformVars
    <3>7. CASE AbortFetch(r) BY <1>1, <3>7 DEF AbortFetch, Done, ClientTypeOK
    <3>8. CASE Accept(r)
      BY <1>1, <3>8 DEF Accept, Reply, CarryOut, ClientTypeOK, clientVars
    <3>9. CASE Refuse(r) \/ Limit(r)
      BY <1>1, <3>9 DEF Refuse, Limit, Reply, ClientTypeOK, clientVars, platformVars
    <3>10. CASE Fail(r)
      BY <1>1, <3>10 DEF Fail, Reply, CarryOut, ClientTypeOK, clientVars
    <3> QED BY <1>1, <3>1, <3>2, <3>3, <3>4, <3>5, <3>6, <3>7, <3>8, <3>9, <3>10
            DEF Client, Platform
  <2> QED BY <1>0, RecordsDiffer, <2>1, OthersAccounted
<1>2. CASE Begin(q)
  BY <1>0, RecordsDiffer, <1>2 DEF Begin, Move, Done, ClientTypeOK, platformVars, Accounted
<1>3. CASE StartAttempt(q)
  BY <1>0, RecordsDiffer, <1>3 DEF StartAttempt, Hold, Dispatch, Move, Done, ClientTypeOK,
     platformVars, Accounted
<1>4. CASE Send(q)
  BY <1>0, RecordsDiffer, <1>4 DEF Send, Dispatch, Move, ClientTypeOK, platformVars, Accounted
<1>5. CASE Receive(q)
  <2>1. wire[q].status \in Statuses BY <1>5 DEF Receive, Answers
  <2>2. /\ wire'[q] = NoAnswer /\ applied' = applied /\ open' = open
        /\ attempt' = attempt /\ pc[q] = "fetch" /\ wire[q] \in Answers
    BY <1>5 DEF Receive, ClientTypeOK, platformVars
  <2>3. CASE Final(wire[q].status) \/ attempt[q] = MaxAttempts
    BY <1>0, RecordsDiffer, <1>5, <2>1, <2>2, <2>3
    DEF Receive, Done, ClientTypeOK, Accounted, Succeeded, Final, Statuses
  <2>4. CASE ~Final(wire[q].status) /\ attempt[q] # MaxAttempts
    BY <1>0, RecordsDiffer, <1>5, <2>1, <2>2, <2>4
    DEF Receive, Move, ClientTypeOK, Accounted, Succeeded, Final
  <2> QED BY <2>3, <2>4
<1>6. CASE Retry(q)
  BY <1>0, RecordsDiffer, <1>6 DEF Retry, Move, ClientTypeOK, platformVars, Accounted
<1>7. CASE AbortDelay(q)
  BY <1>0, RecordsDiffer, <1>7 DEF AbortDelay, Done, ClientTypeOK, platformVars, Accounted
<1>8. CASE AbortFetch(q)
  <2>1. /\ pc'[q] = "done" /\ wire'[q] = NoAnswer /\ open'[q] = open[q] + 1
        /\ result'[q] \in {"lost", "aborted"}
    BY <1>8 DEF AbortFetch, Done, ClientTypeOK
  <2>2. applied'[q] <= open[q] + 1
    BY <1>0, RecordsDiffer, <1>8 DEF AbortFetch, Accounted, ClientTypeOK, Succeeded
  <2> QED BY <1>0, RecordsDiffer, <2>1, <2>2 DEF Accounted
<1>9. CASE Accept(q)
  <2>1. PICK s \in {"ok", "garbled"}, left \in 0..MaxWindow : Reply(q, Answer(s, left, 0))
    BY <1>0, <1>9 DEF Accept
  <2>2. Answer(s, left, 0) \in Answers /\ Answer(s, left, 0).status = s
    <3>1. s \in Statuses BY DEF Statuses
    <3> QED BY <1>0, <3>1 DEF Answer, Answers
  <2>3. pc[q] = "fetch" /\ wire[q] = Sent BY <1>0, RecordsDiffer, <1>9 DEF Accept, Accounted
  <2> QED BY <1>0, RecordsDiffer, <1>9, <2>1, <2>2, <2>3
          DEF Accept, Reply, CarryOut, ClientTypeOK, clientVars, Accounted, Succeeded
<1>10. CASE Refuse(q) \/ Limit(q)
  <2>1. \E a \in Answers : a.status \in {"refused", "limited"} /\ Reply(q, a)
    <3>0. \A l, a \in 0..MaxWindow :
            LET b == Answer("limited", l, a) IN b \in Answers /\ b.status = "limited"
      BY DEF Answer, Answers, Statuses
    <3>1. CASE Refuse(q)
      <4>1. PICK left \in {0, window[Scope[q]]} : Reply(q, Answer("refused", left, 0))
        BY <3>1 DEF Refuse
      <4>2. left \in 0..MaxWindow BY <1>0, <4>1 DEF ClientTypeOK
      <4>3. /\ Answer("refused", left, 0) \in Answers
            /\ Answer("refused", left, 0).status = "refused"
        BY <1>0, <4>2 DEF Answer, Answers, Statuses
      <4> QED BY <4>1, <4>3
    <3>2. CASE Limit(q)
      <4>1. window[Scope[q]] \in 0..MaxWindow BY DEF ClientTypeOK
      <4>2. PICK left \in {0, window[Scope[q]]}, after \in {0, window[Scope[q]]} :
              Reply(q, Answer("limited", left, after))
        BY <3>2 DEF Limit
      <4>3. left \in 0..MaxWindow /\ after \in 0..MaxWindow BY <4>1
      <4> QED BY <3>0, <4>2, <4>3
    <3> QED BY <1>10, <3>1, <3>2
  <2>2. pc[q] = "fetch" /\ wire[q] = Sent
    BY <1>0, RecordsDiffer, <1>10 DEF Refuse, Limit, Accounted
  <2> QED BY <1>0, RecordsDiffer, <1>10, <2>1, <2>2
          DEF Refuse, Limit, Reply, ClientTypeOK, clientVars, platformVars, Accounted,
              Succeeded
<1>11. CASE Fail(q)
  <2>1. \E a \in Answers : a.status \in {"error", "lost"} /\ Reply(q, a)
    <3>1. window[Scope[q]] \in 0..MaxWindow BY DEF ClientTypeOK
    <3>2. CASE Reply(q, Answer("lost", 0, 0))
      <4>1. /\ Answer("lost", 0, 0) \in Answers
            /\ Answer("lost", 0, 0).status = "lost"
        BY <1>0 DEF Answer, Answers, Statuses
      <4> QED BY <3>2, <4>1
    <3>3. CASE \E left, after \in {0, window[Scope[q]]} : Reply(q, Answer("error", left, after))
      <4>1. PICK left, after \in {0, window[Scope[q]]} : Reply(q, Answer("error", left, after))
        BY <3>3
      <4>2. left \in 0..MaxWindow /\ after \in 0..MaxWindow BY <1>0, <3>1, <4>1
      <4>3. /\ Answer("error", left, after) \in Answers
            /\ Answer("error", left, after).status = "error"
        BY <1>0, <4>2 DEF Answer, Answers, Statuses
      <4> QED BY <4>1, <4>3
    <3> QED BY <1>11, <3>2, <3>3 DEF Fail
  <2>2. pc[q] = "fetch" /\ wire[q] = Sent BY <1>0, RecordsDiffer, <1>11 DEF Fail, Accounted
  <2>3. /\ pc'[q] = "fetch" /\ wire'[q] \in Answers /\ ~Succeeded(wire'[q])
        /\ open'[q] = open[q] + 1
    BY <1>11, <2>1, <2>2 DEF Fail, Reply, ClientTypeOK, clientVars, Succeeded
  <2>4. applied'[q] <= open[q] + 1
    BY <1>0, RecordsDiffer, <1>11, <2>2 DEF Fail, CarryOut, ClientTypeOK, Accounted
  <2> QED BY <1>0, RecordsDiffer, <2>3, <2>4 DEF Accounted, Succeeded
<1>12. CASE (\E s \in Scopes : Exhaust(s)) \/ Abort \/ UNCHANGED vars
  <2>1. /\ pc' = pc /\ attempt' = attempt /\ wire' = wire
        /\ result' = result /\ applied' = applied /\ open' = open
    BY <1>12 DEF Exhaust, Abort, vars, clientVars, platformVars
  <2> QED BY <1>0, RecordsDiffer, <2>1, OthersAccounted
<1>13. CASE Tick
  <2>1. /\ pc' = pc /\ attempt' = attempt /\ result' = result
        /\ applied' = applied /\ open' = open
    BY <1>13 DEF Tick
  <2>2. \/ wire'[q] = wire[q]
        \/ /\ wire[q] \in Answers /\ wire'[q] \in Answers
           /\ wire'[q].status = wire[q].status
    BY <1>13, StaleTyped DEF Tick
  <2>3. CASE wire'[q] = wire[q] BY <1>0, RecordsDiffer, <2>1, <2>3, OthersAccounted
  <2>4. CASE /\ wire[q] \in Answers /\ wire'[q] \in Answers
             /\ wire'[q].status = wire[q].status
    <3>1. pc[q] = "fetch" BY <1>0, RecordsDiffer, <2>4 DEF Accounted
    <3> QED BY <1>0, RecordsDiffer, <2>1, <2>4, <3>1 DEF Accounted, Succeeded
  <2> QED BY <2>2, <2>3, <2>4
<1> QED BY <1>1, <1>2, <1>3, <1>4, <1>5, <1>6, <1>7, <1>8, <1>9, <1>10, <1>11, <1>12, <1>13
        DEF Next, Client, Platform

-----------------------------------------------------------------------------

(* Steps that leave limits and what was said of them alone, begin no delay  *)
(* and end none that was asked for, keep Told.                              *)
LEMMA LimitsAlone ==
  ASSUME ClientTypeOK, Told, UNCHANGED <<notBefore, window, word, guided, timer>>,
         \A r \in Requests : wire'[r] = wire[r] \/ wire'[r] \notin Answers,
         \A r \in Requests : pc'[r] = "wait" => pc[r] = "wait" /\ basis'[r] = basis[r],
         \A r \in guided : pc'[r] = pc[r] \/ pc'[r] = "done"
  PROVE  Told'
<1>1. ASSUME NEW r \in Requests PROVE AnswerTold(r)'
  BY DEF Told, AnswerTold, Covers
<1>2. ASSUME NEW r \in Requests PROVE DelayTold(r)'
  BY DEF Told, DelayTold, Covers
<1>3. ASSUME NEW s \in Scopes PROVE ScopeTold(s)'
  BY DEF Told, ScopeTold
<1> QED BY <1>1, <1>2, <1>3 DEF Told

(* A request that keeps its delay under an unchanged limit.                 *)
LEMMA DelayAlone ==
  ASSUME NEW r \in Requests, DelayTold(r), window'[Scope[r]] = window[Scope[r]],
         pc'[r] = pc[r], basis'[r] = basis[r], timer'[r] = timer[r],
         r \in guided' <=> r \in guided
  PROVE  DelayTold(r)'
BY DEF DelayTold, Covers

(* An answer to r that says nothing, or the present limit.                  *)
LEMMA ReplyTold ==
  ASSUME ClientTypeOK, Told, NEW r \in Requests, NEW st,
         NEW left \in {0, window[Scope[r]]}, NEW after \in {0, window[Scope[r]]},
         Reply(r, Answer(st, left, after)),
         UNCHANGED <<notBefore, window, word, basis, guided, timer, pc>>
  PROVE  Told'
<1>1. wire'[r] = Answer(st, left, after) BY DEF Reply, ClientTypeOK
<1>2. Answer(st, left, after).left = left /\ Answer(st, left, after).after = after
  BY DEF Answer
<1>3. window[Scope[r]] \in Nat BY ClientAssumption DEF ClientTypeOK
<1>4. ASSUME NEW q \in Requests PROVE AnswerTold(q)'
  <2>1. CASE q = r BY <1>1, <1>2, <1>3, <2>1 DEF AnswerTold, Covers
  <2>2. CASE q # r
    <3>1. wire'[q] = wire[q] BY <2>2 DEF Reply, ClientTypeOK
    <3> QED BY <3>1 DEF Told, AnswerTold, Covers
  <2> QED BY <2>1, <2>2
<1>5. \A q \in Requests : DelayTold(q)' BY DelayAlone DEF Told
<1>6. \A s \in Scopes : ScopeTold(s)' BY DEF Told, ScopeTold
<1> QED BY <1>4, <1>5, <1>6 DEF Told

(* The platform limits a scope it did not limit: nothing was said of it.    *)
LEMMA LimitBegins ==
  ASSUME ClientTypeOK, Told, NEW s \in Scopes, window[s] = 0,
         \A t \in Scopes \ {s} : window'[t] = window[t],
         UNCHANGED <<notBefore, word, basis, guided, timer, pc>>
  PROVE  /\ \A q \in Requests : DelayTold(q)'
         /\ \A t \in Scopes : ScopeTold(t)'
         /\ \A q \in Requests : wire'[q] = wire[q] => AnswerTold(q)'
<1>1. ASSUME NEW q \in Requests
      PROVE  DelayTold(q)' /\ (wire'[q] = wire[q] => AnswerTold(q)')
  <2>1. Scope[q] \in Scopes BY ClientAssumption
  <2>2. DelayTold(q) /\ AnswerTold(q) BY DEF Told
  <2>3. CASE Scope[q] = s
    BY <2>2, <2>3 DEF DelayTold, AnswerTold, Covers
  <2>4. CASE Scope[q] # s
    BY <2>1, <2>2, <2>4 DEF DelayTold, AnswerTold, Covers
  <2> QED BY <2>3, <2>4
<1>2. ASSUME NEW t \in Scopes PROVE ScopeTold(t)'
  BY DEF Told, ScopeTold
<1> QED BY <1>1, <1>2

LEMMA StepTold ==
  ClientTypeOK /\ EffectsInv /\ Told /\ [Next]_vars => Told'
<1> SUFFICES ASSUME ClientTypeOK, EffectsInv, Told, [Next]_vars PROVE Told'
  OBVIOUS
<1> USE ClientAssumption
<1>0. /\ 0 \in 0..MaxWindow
      /\ \A r \in Requests : Scope[r] \in Scopes /\ window[Scope[r]] \in 0..MaxWindow
      /\ \A s \in Scopes : window[s] \in Nat /\ notBefore[s] \in Nat
      /\ \A r \in Requests : timer[r] \in Nat
      /\ \A r \in Requests : wire[r] \in Answers => wire[r].left \in Nat /\ wire[r].after \in Nat
      /\ guided \subseteq Requests
  BY DEF ClientTypeOK, Answers
<1>1. ASSUME NEW r \in Requests, Begin(r) PROVE Told'
  <2>1. pc[r] = "idle" BY <1>1 DEF Begin
  <2>2. r \notin guided BY <2>1 DEF Told, DelayTold
  <2> QED BY <1>0, <1>1, <2>2, LimitsAlone
          DEF Begin, Move, Done, ClientTypeOK, platformVars, told
<1>2. ASSUME NEW r \in Requests, StartAttempt(r) PROVE Told'
  <2>1. UNCHANGED <<notBefore, window, word, guided>> /\ pc[r] = "top"
    BY <1>2 DEF StartAttempt, platformVars
  <2>2. r \notin guided BY <2>1 DEF Told, DelayTold
  <2>3. CASE aborted
    BY <1>0, <1>2, <2>1, <2>2, <2>3, LimitsAlone DEF StartAttempt, Done, ClientTypeOK
  <2>4. CASE ~aborted
    <3>1. /\ timer' = [timer EXCEPT ![r] = notBefore[Scope[r]]]
          /\ \A q \in Requests \ {r} :
               pc'[q] = pc[q] /\ basis'[q] = basis[q] /\ wire'[q] = wire[q]
          /\ wire'[r] = wire[r] \/ wire'[r] = Sent
          /\ pc'[r] = "wait" => basis'[r] = word[Scope[r]]
      BY <1>2, <2>4 DEF StartAttempt, Hold, Dispatch, Move, ClientTypeOK
    <3>2. ASSUME NEW q \in Requests PROVE AnswerTold(q)' /\ DelayTold(q)'
      <4>1. CASE q = r
        <5>1. timer'[r] = notBefore[Scope[r]] BY <3>1 DEF ClientTypeOK
        <5>2. ScopeTold(Scope[r]) /\ AnswerTold(r) BY <1>0 DEF Told
        <5>3. DelayTold(r)'
          BY <2>1, <2>2, <3>1, <5>1, <5>2 DEF DelayTold, ScopeTold, Covers
        <5>4. AnswerTold(r)'
          BY <2>1, <3>1, <5>2, RecordsDiffer DEF AnswerTold, Covers
        <5> QED BY <4>1, <5>3, <5>4
      <4>2. CASE q # r
        <5>1. timer'[q] = timer[q] BY <3>1, <4>2 DEF ClientTypeOK
        <5>2. DelayTold(q)' BY <2>1, <3>1, <4>2, <5>1, DelayAlone DEF Told
        <5>3. AnswerTold(q)' BY <2>1, <3>1, <4>2 DEF Told, AnswerTold, Covers
        <5> QED BY <5>2, <5>3
      <4> QED BY <4>1, <4>2
    <3>3. \A s \in Scopes : ScopeTold(s)' BY <2>1 DEF Told, ScopeTold
    <3> QED BY <3>2, <3>3 DEF Told
  <2> QED BY <2>3, <2>4
<1>3. ASSUME NEW r \in Requests, Send(r) PROVE Told'
  <2>1. /\ wire' = [wire EXCEPT ![r] = Sent] /\ pc' = [pc EXCEPT ![r] = "fetch"]
        /\ basis' = [basis EXCEPT ![r] = "none"] /\ pc[r] = "wait"
        /\ UNCHANGED <<notBefore, window, word, guided, timer>>
    BY <1>3 DEF Send, Dispatch, Move, platformVars
  <2>2. r \notin guided BY <2>1 DEF Told, DelayTold
  <2>3. \A q \in Requests : pc'[q] = "wait" => pc[q] = "wait" /\ basis'[q] = basis[q]
    BY <2>1 DEF ClientTypeOK
  <2> QED BY <1>0, <2>1, <2>2, <2>3, LimitsAlone, RecordsDiffer DEF ClientTypeOK
<1>4. ASSUME NEW r \in Requests, Receive(r) PROVE Told'
  <2>1. /\ wire[r] \in Answers /\ wire' = [wire EXCEPT ![r] = NoAnswer]
        /\ pc[r] = "fetch" /\ UNCHANGED <<window, basis>>
        /\ pc'[r] \in {"retry", "done"} /\ \A q \in Requests \ {r} : pc'[q] = pc[q]
        /\ \A q \in Requests \ {r} : timer'[q] = timer[q]
        /\ guided \subseteq guided' /\ guided' \subseteq guided \cup {r}
    BY <1>4 DEF Receive, NoteGuidance, Move, Done, ClientTypeOK, platformVars
  <2>2. AnswerTold(r) /\ DelayTold(r) /\ ScopeTold(Scope[r]) BY <1>0 DEF Told
  <2>3. r \notin guided BY <2>1, <2>2 DEF DelayTold
  <2>4. \A q \in Requests : AnswerTold(q)'
    BY <2>1, RecordsDiffer DEF Told, AnswerTold, Covers, ClientTypeOK
  <2>5. DelayTold(r)'
    <3>1. CASE Final(wire[r].status) \/ attempt[r] = MaxAttempts
      <4>1. guided' = guided BY <1>4, <3>1 DEF Receive
      <4> QED BY <2>1, <2>3, <4>1 DEF DelayTold
    <3>2. CASE ~(Final(wire[r].status) \/ attempt[r] = MaxAttempts)
      <4>1. /\ pc'[r] = "retry" /\ NoteGuidance(r)
            /\ \E d \in RetryDelays(r) : timer' = [timer EXCEPT ![r] = d]
        BY <1>4, <3>2 DEF Receive, Move, ClientTypeOK
      <4>2. CASE Header(r) \in 1..MaxRetryDelay /\ ~wire[r].stale
        <5>1. RetryDelays(r) = {Header(r)} BY <4>2 DEF RetryDelays
        <5>2. timer'[r] = Header(r) BY <4>1, <5>1 DEF ClientTypeOK
        <5>3. Covers(r, Header(r)) BY <1>0, <2>1, <2>2, <4>2 DEF AnswerTold, Header
        <5>4. Covers(r, timer[r])' BY <2>1, <5>2, <5>3 DEF Covers
        <5> QED BY <2>1, <4>1, <5>4 DEF DelayTold, Covers
      <4>3. CASE ~(Header(r) \in 1..MaxRetryDelay /\ ~wire[r].stale)
        <5>1. guided' = guided BY <4>1, <4>3 DEF NoteGuidance
        <5> QED BY <2>3, <4>1, <5>1 DEF DelayTold
      <4> QED BY <4>2, <4>3
    <3> QED BY <3>1, <3>2
  <2>6. ASSUME NEW q \in Requests \ {r} PROVE DelayTold(q)'
    BY <2>1, DelayAlone DEF Told
  <2>7. ASSUME NEW s \in Scopes PROVE ScopeTold(s)'
    <3>1. CASE wire[r].left = 0 \/ s # Scope[r]
      <4>1. notBefore'[s] = notBefore[s] /\ word'[s] = word[s]
        BY <1>4, <3>1 DEF Receive, NoteLimit, Announced, NoteWord, ClientTypeOK
      <4> QED BY <2>1, <4>1 DEF Told, ScopeTold
    <3>2. CASE wire[r].left > 0 /\ s = Scope[r]
      <4>1. notBefore'[s] = wire[r].left
        BY <1>4, <3>2 DEF Receive, NoteLimit, Announced, ClientTypeOK
      <4>2. word'[s] = "true" => ~wire[r].stale
        BY <1>0, <1>4, <3>2 DEF Receive, NoteWord, ClientTypeOK
      <4> QED BY <2>1, <2>2, <3>2, <4>1, <4>2 DEF ScopeTold, AnswerTold, Covers
    <3> QED BY <1>0, <2>1, <3>1, <3>2
  <2> QED BY <2>4, <2>5, <2>6, <2>7 DEF Told
<1>5. ASSUME NEW r \in Requests, Retry(r) \/ AbortDelay(r) PROVE Told'
  <2>1. Retry(r) => r \notin guided
    <3>1. Retry(r) => pc[r] = "retry" /\ timer[r] = 0 BY DEF Retry
    <3>2. DelayTold(r) /\ window[Scope[r]] \in Nat BY <1>0 DEF Told
    <3> QED BY <3>1, <3>2 DEF DelayTold, Covers
  <2>2. \A q \in guided : pc'[q] = pc[q] \/ pc'[q] = "done"
    BY <1>0, <1>5, <2>1 DEF Retry, AbortDelay, Move, Done, ClientTypeOK
  <2> QED BY <1>5, <2>2, LimitsAlone
          DEF Retry, AbortDelay, Move, Done, ClientTypeOK, platformVars, told
<1>6. ASSUME NEW r \in Requests, AbortFetch(r) PROVE Told'
  <2>1. wire' = [wire EXCEPT ![r] = NoAnswer] /\ pc' = [pc EXCEPT ![r] = "done"]
    BY <1>6 DEF AbortFetch, Done
  <2> QED BY <1>0, <1>6, <2>1, LimitsAlone, RecordsDiffer DEF AbortFetch, ClientTypeOK, told
<1>7. ASSUME NEW r \in Requests, Accept(r) PROVE Told'
  <2>1. PICK s \in {"ok", "garbled"}, w \in 0..MaxWindow, left \in 0..MaxWindow :
          /\ left \in {0, w} /\ Reply(r, Answer(s, left, 0))
          /\ window' = [window EXCEPT ![Scope[r]] = w]
    BY <1>0, <1>7 DEF Accept
  <2>2. Answer(s, left, 0).left = left /\ Answer(s, left, 0).after = 0 BY DEF Answer
  <2>3. window[Scope[r]] = 0 /\ UNCHANGED <<notBefore, word, basis, guided, pc, timer>>
    BY <1>7 DEF Accept, clientVars, told
  <2>4. \A t \in Scopes \ {Scope[r]} : window'[t] = window[t]
    BY <2>1 DEF ClientTypeOK
  <2>5. wire'[r] = Answer(s, left, 0) /\ window'[Scope[r]] = w
    BY <1>0, <2>1 DEF Reply, ClientTypeOK
  <2>6. AnswerTold(r)' BY <2>1, <2>2, <2>5 DEF AnswerTold, Covers
  <2>7. \A q \in Requests \ {r} : wire'[q] = wire[q]
    BY <2>1 DEF Reply, ClientTypeOK
  <2> QED BY <1>0, <2>3, <2>4, <2>6, <2>7, LimitBegins DEF Told
<1>8. ASSUME NEW r \in Requests, Refuse(r) \/ Limit(r) \/ Fail(r) PROVE Told'
  <2>1. UNCHANGED <<notBefore, window, word, basis, guided, timer, pc>>
    BY <1>8 DEF Refuse, Limit, Fail, clientVars, platformVars, told
  <2>2. \E st, left, after : /\ left \in {0, window[Scope[r]]} /\ after \in {0, window[Scope[r]]}
                             /\ Reply(r, Answer(st, left, after))
    BY <1>8 DEF Refuse, Limit, Fail
  <2> QED BY <2>1, <2>2, ReplyTold
<1>9. ASSUME NEW s \in Scopes, Exhaust(s) PROVE Told'
  <2>1. PICK w \in 1..MaxWindow : window' = [window EXCEPT ![s] = w]
    BY <1>9 DEF Exhaust
  <2>2. window[s] = 0 /\ UNCHANGED <<notBefore, wire, word, basis, guided, pc, timer>>
    BY <1>9 DEF Exhaust, clientVars, told
  <2>3. \A t \in Scopes \ {s} : window'[t] = window[t] BY <2>1 DEF ClientTypeOK
  <2> QED BY <2>2, <2>3, LimitBegins DEF Told
<1>10. CASE Tick
  <2>1. /\ pc' = pc
        /\ \A r \in Requests : timer'[r] = Less(timer[r])
        /\ \A s \in Scopes : notBefore'[s] = Less(notBefore[s]) /\ window'[s] = Less(window[s])
    BY <1>10 DEF Tick
  <2>2. \A s \in Scopes : word'[s] = "true" => word[s] = "true" /\ window[s] # 1
    BY <1>10 DEF Tick
  <2>3. \A r \in Requests :
          /\ basis'[r] = "true" => basis[r] = "true" /\ window[Scope[r]] # 1
          /\ r \in guided' => r \in guided /\ window[Scope[r]] # 1
    BY <1>0, <1>10 DEF Tick
  <2>4. \A r \in Requests :
          /\ window'[Scope[r]] = Less(window[Scope[r]])
          /\ \A n \in Nat : window[Scope[r]] # 1 /\ Covers(r, n) =>
               window'[Scope[r]] > 0 /\ n >= window'[Scope[r]] /\ Less(n) >= window'[Scope[r]]
    BY <1>0, <2>1 DEF Less, Covers
  <2>5. ASSUME NEW r \in Requests PROVE AnswerTold(r)'
    <3>1. wire'[r] = IF window[Scope[r]] = 1 /\ wire[r] \in Answers /\ Header(r) > 0
                       THEN [wire[r] EXCEPT !.stale = TRUE] ELSE wire[r]
      BY <1>0, <1>10 DEF Tick
    <3>2. CASE window[Scope[r]] = 1 /\ wire[r] \in Answers /\ Header(r) > 0
      <4>1. wire'[r].stale = TRUE BY <3>1, <3>2, StaleTyped
      <4> QED BY <4>1 DEF AnswerTold
    <3>3. CASE wire[r] \in Answers /\ ~(Header(r) > 0)
      <4>1. wire'[r] = wire[r] /\ ~(wire[r].left > 0) /\ ~(wire[r].after > 0)
        BY <1>0, <3>1, <3>3 DEF Header
      <4> QED BY <4>1 DEF AnswerTold
    <3>4. CASE wire[r] \in Answers /\ window[Scope[r]] # 1
      <4>1. wire'[r] = wire[r] BY <3>1, <3>4
      <4>2. wire[r].left \in Nat /\ wire[r].after \in Nat /\ AnswerTold(r)
        BY <1>0, <3>4 DEF Told
      <4> QED BY <2>4, <3>4, <4>1, <4>2 DEF AnswerTold, Covers
    <3>5. CASE wire[r] \notin Answers
      BY <3>1, <3>5 DEF AnswerTold
    <3> QED BY <3>2, <3>3, <3>4, <3>5
  <2>6. ASSUME NEW r \in Requests PROVE DelayTold(r)'
    <3>1. DelayTold(r) /\ timer[r] \in Nat /\ timer'[r] = Less(timer[r])
      BY <1>0, <2>1 DEF Told
    <3>2. window[Scope[r]] # 1 /\ Covers(r, timer[r]) => Covers(r, timer[r])'
      BY <2>4, <3>1 DEF Covers
    <3>3. window[Scope[r]] # 1 /\ window[Scope[r]] > 0 => window'[Scope[r]] > 0
      BY <1>0, <2>4 DEF Less
    <3> QED BY <2>1, <2>3, <3>1, <3>2, <3>3 DEF DelayTold
  <2>7. ASSUME NEW s \in Scopes PROVE ScopeTold(s)'
    BY <1>0, <2>1, <2>2 DEF Told, ScopeTold, Less
  <2> QED BY <2>5, <2>6, <2>7 DEF Told
<1>11. CASE Abort \/ UNCHANGED vars
  BY <1>11, LimitsAlone DEF Abort, vars, clientVars, platformVars, told
<1> QED BY <1>1, <1>2, <1>3, <1>4, <1>5, <1>6, <1>7, <1>8, <1>9, <1>10, <1>11
        DEF Next, Client, Platform

ClientInv == ClientTypeOK /\ EffectsInv /\ Told

LEMMA InitInv == Init => ClientInv
<1> SUFFICES ASSUME Init PROVE ClientInv
  OBVIOUS
<1>1. ClientTypeOK
  <2>1. 1 \in 1..MaxAttempts /\ 0 \in 0..(MaxWindow + MaxRetryDelay) /\ 0 \in 0..MaxWindow
    BY ClientAssumption
  <2>2. /\ pc \in [Requests -> Stages] /\ result \in [Requests -> Results]
        /\ wire \in [Requests -> Answers \cup {NoAnswer, Sent}]
    BY DEF Init, Stages, Results
  <2>3. /\ attempt \in [Requests -> 1..MaxAttempts]
        /\ timer \in [Requests -> 0..(MaxWindow + MaxRetryDelay)]
        /\ notBefore \in [Scopes -> 0..MaxWindow] /\ window \in [Scopes -> 0..MaxWindow]
        /\ applied \in [Requests -> Nat] /\ open \in [Requests -> Nat]
        /\ word \in [Scopes -> Words] /\ basis \in [Requests -> Words]
    BY <2>1 DEF Init, Words
  <2> QED BY <2>2, <2>3 DEF Init, ClientTypeOK
<1>2. \A r \in Requests : /\ pc[r] = "idle" /\ wire[r] = NoAnswer
                         /\ applied[r] = 0 /\ open[r] = 0
  BY DEF Init
<1>3. EffectsInv
  <2> SUFFICES ASSUME NEW r \in Requests PROVE Accounted(r)
    BY DEF EffectsInv
  <2>1. wire[r] = NoAnswer /\ wire[r] \notin Answers /\ wire[r] # Sent
    BY <1>2, RecordsDiffer
  <2>2. pc[r] = "idle" /\ applied[r] <= open[r] BY <1>2
  <2> QED BY <2>1, <2>2 DEF Accounted
<1>4. guided = {} /\ \A s \in Scopes : word[s] = "none"
  BY DEF Init
<1>5. Told
  BY <1>2, <1>4, RecordsDiffer DEF Told, AnswerTold, DelayTold, ScopeTold
<1> QED BY <1>1, <1>3, <1>5 DEF ClientInv

LEMMA SpecInv == Spec => []ClientInv
<1>1. ClientInv /\ [Next]_vars => ClientInv'
  BY StepTyped, StepAccounted, StepTold DEF ClientInv
<1> QED BY InitInv, <1>1, PTL DEF Spec

(* The client, what is on its way and the platform keep their types: no     *)
(* delay is longer than the cap or the announced limit, no attempt is made  *)
(* beyond the last (#requestResponse).                                      *)
THEOREM ClientTypeCorrect == Spec => []ClientTypeOK
<1>1. ClientInv => ClientTypeOK BY DEF ClientInv
<1> QED BY SpecInv, <1>1, PTL

(* EffectsAreAccounted, for every number of requests and attempts: what a   *)
(* request did on the platform is told by how it ended                      *)
(* (#requestResponse, #parseJson).                                          *)
THEOREM EffectsAccounted == Spec => []EffectsAreAccounted
<1>1. ClientInv => EffectsAreAccounted
  BY DEF ClientInv, EffectsInv, Accounted, EffectsAreAccounted
<1> QED BY SpecInv, <1>1, PTL

(* LimitsAreMetForAReason, for every number of requests and scopes, every   *)
(* cap and every length of a limit: an attempt that could know of a limit   *)
(* by the last word of its scope, and one whose own answer asked for a      *)
(* delay within the cap, are not sent into it (#notBefore, retryDelay).     *)
THEOREM LimitsMetForAReason == Spec => LimitsAreMetForAReason
<1> DEFINE Excused ==
      \A r \in Requests :
        pc[r] # "fetch" /\ pc'[r] = "fetch" /\ window[Scope[r]] > 0 =>
          r \notin guided /\ Heard(r) \in {"none", "late"}
<1>1. ClientInv /\ [Next]_vars => Excused
  <2> SUFFICES ASSUME ClientInv, [Next]_vars, NEW r \in Requests,
                      pc[r] # "fetch", pc'[r] = "fetch", window[Scope[r]] > 0
               PROVE  r \notin guided /\ Heard(r) \in {"none", "late"}
    OBVIOUS
  <2>1. \/ pc[r] = "wait" /\ timer[r] = 0
        \/ pc[r] = "top" /\ ~(notBefore[Scope[r]] > 0)
    <3>1. ASSUME NEW q \in Requests, Send(q) \/ StartAttempt(q)
          PROVE  \/ pc[r] = "wait" /\ timer[r] = 0
                 \/ pc[r] = "top" /\ ~(notBefore[Scope[r]] > 0)
      <4>1. q = r
        BY <3>1 DEF Send, StartAttempt, Hold, Dispatch, Move, Done, ClientInv, ClientTypeOK
      <4> QED BY <3>1, <4>1
              DEF Send, StartAttempt, Hold, Dispatch, Move, Done, ClientInv, ClientTypeOK
    <3>2. ASSUME NEW q \in Requests, Begin(q) \/ Client(q), ~Send(q), ~StartAttempt(q)
          PROVE  FALSE
      BY <3>2 DEF Begin, Client, Receive, Retry, AbortDelay, AbortFetch, Move, Done,
         ClientInv, ClientTypeOK
    <3>3. ASSUME \/ \E q \in Requests : Platform(q)
                 \/ \E s \in Scopes : Exhaust(s)
                 \/ Tick \/ Abort \/ UNCHANGED vars
          PROVE  FALSE
      <4>1. pc' = pc
        BY <3>3 DEF Platform, Accept, Refuse, Limit, Fail, Exhaust, Tick, Abort, vars,
                    clientVars
      <4> QED BY <4>1
    <3> QED BY <3>1, <3>2, <3>3 DEF Next
  <2>2. /\ DelayTold(r) /\ ScopeTold(Scope[r]) /\ Scope[r] \in Scopes
        /\ notBefore[Scope[r]] \in Nat /\ window[Scope[r]] \in Nat
        /\ word[Scope[r]] \in Words /\ basis[r] \in Words
    BY ClientAssumption DEF ClientInv, Told, ClientTypeOK
  <2>3. r \notin guided BY <2>1, <2>2 DEF DelayTold
  <2>4. CASE pc[r] = "wait" /\ timer[r] = 0
    BY <2>2, <2>4 DEF DelayTold, Covers, Heard, Words
  <2>5. CASE pc[r] = "top" /\ ~(notBefore[Scope[r]] > 0)
    <3>1. word[Scope[r]] # "true" BY <2>2, <2>5 DEF ScopeTold
    <3>2. Heard(r) = word[Scope[r]] BY <2>5 DEF Heard
    <3> QED BY <2>2, <2>3, <3>1, <3>2 DEF Words
  <2> QED BY <2>1, <2>3, <2>4, <2>5
<1>2. ClientInv /\ [Next]_vars => [Excused]_vars
  BY <1>1
<1> QED BY SpecInv, <1>2, PTL DEF Spec, LimitsAreMetForAReason

-----------------------------------------------------------------------------
\* Requests end.

(* What a request may still take, in steps and units of time: an attempt is *)
(* held back by the longest limit, then by the longest delay before the     *)
(* next one, and has at most four steps.                                    *)
Attempt == MaxWindow + MaxRetryDelay + 4
LeftOfAttempt(r) ==
  CASE pc[r] = "idle" -> Attempt + 1
    [] pc[r] = "top" -> Attempt
    [] pc[r] = "wait" -> timer[r] + MaxRetryDelay + 3
    [] pc[r] = "fetch" -> MaxRetryDelay + 2
    [] pc[r] = "retry" -> timer[r] + 1
    [] pc[r] = "done" -> 0
Left(r) == (MaxAttempts - attempt[r]) * Attempt + LeftOfAttempt(r)

\* Time that is a request's own to wait for.
Waits(r) == pc[r] \in {"wait", "retry"} /\ timer[r] > 0

Paid(r) ==
  /\ Left(r)' \in Nat /\ Left(r)' <= Left(r)
  /\ Begin(r) \/ Client(r) \/ (Tick /\ Waits(r)) => Left(r)' < Left(r)

PatienceIsBounded == [][\A r \in Requests : Paid(r)]_vars

LEMMA LeftTyped ==
  ASSUME ClientTypeOK, NEW r \in Requests
  PROVE  /\ LeftOfAttempt(r) \in Nat /\ Attempt \in Nat
         /\ MaxAttempts - attempt[r] \in Nat
         /\ (MaxAttempts - attempt[r]) * Attempt \in Nat
         /\ Left(r) = (MaxAttempts - attempt[r]) * Attempt + LeftOfAttempt(r)
<1>1. /\ timer[r] \in Nat /\ pc[r] \in Stages /\ attempt[r] \in 1..MaxAttempts
      /\ MaxWindow \in Nat /\ MaxRetryDelay \in Nat
  BY ClientAssumption DEF ClientTypeOK
<1>2. LeftOfAttempt(r) \in Nat /\ Attempt \in Nat
  BY <1>1 DEF LeftOfAttempt, Attempt, Stages
<1>3. MaxAttempts - attempt[r] \in Nat
  BY <1>1, ClientAssumption
<1>. QED
  BY <1>2, <1>3 DEF Left

(* Within an attempt only what is left of it counts.                        *)
LEMMA WithinAttempt ==
  ASSUME ClientTypeOK, ClientTypeOK', NEW r \in Requests, attempt'[r] = attempt[r]
  PROVE  /\ Left(r)' \in Nat
         /\ LeftOfAttempt(r)' <= LeftOfAttempt(r) => Left(r)' <= Left(r)
         /\ LeftOfAttempt(r)' < LeftOfAttempt(r) => Left(r)' < Left(r)
<1>1. /\ LeftOfAttempt(r) \in Nat /\ (MaxAttempts - attempt[r]) * Attempt \in Nat
      /\ Left(r) = (MaxAttempts - attempt[r]) * Attempt + LeftOfAttempt(r)
  BY LeftTyped
<1>2. LeftOfAttempt(r)' \in Nat
  <2>1. /\ timer'[r] \in Nat /\ pc'[r] \in Stages
        /\ MaxWindow \in Nat /\ MaxRetryDelay \in Nat
    BY ClientAssumption DEF ClientTypeOK
  <2>. QED
    BY <2>1 DEF LeftOfAttempt, Attempt, Stages
<1>3. Left(r)' = (MaxAttempts - attempt[r]) * Attempt + LeftOfAttempt(r)'
  BY DEF Left, Attempt
<1>. QED
  BY <1>1, <1>2, <1>3

(* A retry has an attempt less to go.                                       *)
LEMMA NextAttempt ==
  ASSUME ClientTypeOK, ClientTypeOK', NEW r \in Requests, Retry(r)
  PROVE  Left(r)' \in Nat /\ Left(r)' < Left(r)
<1> DEFINE n == MaxAttempts - attempt[r]
<1>1. /\ pc[r] = "retry" /\ pc'[r] = "top" /\ timer[r] = 0
      /\ attempt'[r] = attempt[r] + 1
  BY DEF Retry, Move, ClientTypeOK
<1>2. n \in Nat /\ MaxAttempts - attempt'[r] = n - 1 /\ n - 1 \in Nat /\ Attempt \in Nat
  BY <1>1, LeftTyped, ClientAssumption DEF ClientTypeOK
<1>3. Left(r) = n * Attempt + 1
  BY <1>1 DEF Left, LeftOfAttempt
<1>4. Left(r)' = (n - 1) * Attempt + Attempt
  BY <1>1, <1>2 DEF Left, LeftOfAttempt, Attempt
<1>5. ASSUME NEW i \in Nat, NEW w \in Nat
      PROVE  (i - 1) * w + w = i * w /\ i * w \in Nat /\ i * w < i * w + 1
  <2>1. (i - 1) * w + w = i * w /\ i * w \in Nat
    OBVIOUS
  <2>. QED
    BY <2>1
<1> HIDE DEF n
<1>. QED
  BY <1>2, <1>3, <1>4, <1>5

(* However the platform answers, and however many requests share a scope, a *)
(* request takes no more than MaxAttempts * (MaxWindow + MaxRetryDelay + 4) *)
(* steps and units of its own waiting: no answer to it or to another holds  *)
(* it back beyond (#requestResponse, #notBefore).                           *)
THEOREM RequestsHaveBoundedPatience == Spec => PatienceIsBounded
<1>1. ASSUME ClientTypeOK, ClientTypeOK', Next, NEW r \in Requests
      PROVE  Paid(r)
  <2> USE ClientAssumption
  <2>1. /\ timer[r] \in 0..(MaxWindow + MaxRetryDelay) /\ pc[r] \in Stages
        /\ notBefore[Scope[r]] \in 0..MaxWindow /\ MaxWindow \in Nat /\ MaxRetryDelay \in Nat
    BY <1>1 DEF ClientTypeOK
  <2>2. CASE Begin(r) \/ StartAttempt(r) \/ Send(r) \/ Receive(r) \/ AbortDelay(r) \/ AbortFetch(r)
    <3>1. attempt' = attempt
      BY <2>2 DEF Begin, StartAttempt, Send, Receive, AbortDelay, AbortFetch
    <3>2. pc'[r] = "done" /\ pc[r] # "done" => LeftOfAttempt(r)' < LeftOfAttempt(r)
      BY <2>1 DEF LeftOfAttempt, Attempt, Stages
    <3>3. pc[r] # "done"
      BY <2>2 DEF Begin, StartAttempt, Send, Receive, AbortDelay, AbortFetch
    <3>4. pc'[r] # "done" => LeftOfAttempt(r)' < LeftOfAttempt(r)
      <4>1. CASE Begin(r)
        BY <1>1, <2>1, <4>1 DEF Begin, Move, Done, LeftOfAttempt, Attempt, ClientTypeOK
      <4>2. CASE StartAttempt(r)
        BY <1>1, <2>1, <4>2 DEF StartAttempt, Hold, Dispatch, Move, Done, LeftOfAttempt, Attempt, ClientTypeOK
      <4>3. CASE Send(r)
        BY <1>1, <2>1, <4>3 DEF Send, Dispatch, Move, LeftOfAttempt, ClientTypeOK
      <4>4. CASE Receive(r)
        <5>1. pc[r] = "fetch" /\ (pc'[r] # "done" => pc'[r] = "retry" /\ timer'[r] \in 0..MaxRetryDelay)
          BY <1>1, <4>4, DelayTyped DEF Receive, Move, Done, ClientTypeOK
        <5>. QED
          BY <2>1, <5>1 DEF LeftOfAttempt
      <4>5. CASE AbortDelay(r) \/ AbortFetch(r)
        BY <1>1, <4>5 DEF AbortDelay, AbortFetch, Done, ClientTypeOK
      <4>. QED
        BY <2>2, <4>1, <4>2, <4>3, <4>4, <4>5
    <3>5. Left(r)' \in Nat /\ Left(r)' < Left(r)
      BY <1>1, <3>1, <3>2, <3>3, <3>4, WithinAttempt
    <3>6. Left(r) \in Nat
      BY <1>1, LeftTyped
    <3>. QED
      BY <3>5, <3>6 DEF Paid
  <2>3. CASE Retry(r)
    <3>1. Left(r)' \in Nat /\ Left(r)' < Left(r) /\ Left(r) \in Nat
      BY <1>1, <2>3, NextAttempt, LeftTyped
    <3>. QED
      BY <3>1 DEF Paid
  <2>4. CASE Tick
    <3>1. UNCHANGED <<pc, attempt>> /\ timer'[r] = Less(timer[r])
      BY <2>4 DEF Tick
    <3>2. timer'[r] <= timer[r] /\ (Waits(r) => timer'[r] < timer[r]) /\ timer'[r] \in Nat
      BY <2>1, <3>1 DEF Less, Waits
    <3>3. LeftOfAttempt(r)' <= LeftOfAttempt(r)
      BY <2>1, <3>1, <3>2 DEF LeftOfAttempt, Stages, Attempt
    <3>4. Waits(r) => LeftOfAttempt(r)' < LeftOfAttempt(r)
      BY <2>1, <3>1, <3>2 DEF LeftOfAttempt, Waits
    <3>5. ~Begin(r) /\ ~Client(r)
      <4>1. pc[r] # "done" /\ (Begin(r) \/ Client(r)) => pc'[r] # pc[r]
        BY <1>1 DEF Begin, Client, StartAttempt, Hold, Dispatch, Send, Receive, Retry,
           AbortDelay, AbortFetch, Move, Done, ClientTypeOK
      <4>2. Begin(r) \/ Client(r) => pc[r] # "done"
        BY DEF Begin, Client, StartAttempt, Send, Receive, Retry, AbortDelay, AbortFetch
      <4>. QED
        BY <3>1, <4>1, <4>2
    <3>. QED
      BY <1>1, <3>1, <3>3, <3>4, <3>5, WithinAttempt DEF Paid
  <2>5. CASE ~(Begin(r) \/ Client(r) \/ Tick)
    <3>1. UNCHANGED <<pc[r], attempt[r], timer[r]>>
      <4>1. ASSUME NEW q \in Requests, q # r, Begin(q) \/ Client(q)
            PROVE  UNCHANGED <<pc[r], attempt[r], timer[r]>>
        <5>1. UNCHANGED pc[r]
          BY <1>1, <4>1 DEF Begin, Client, StartAttempt, Hold, Dispatch, Send, Receive, Retry,
             AbortDelay, AbortFetch, Move, Done, ClientTypeOK
        <5>2. UNCHANGED <<attempt[r], timer[r]>>
          BY <1>1, <4>1 DEF Begin, Client, StartAttempt, Send, Receive, Retry, AbortDelay,
             AbortFetch, ClientTypeOK
        <5>. QED
          BY <5>1, <5>2
      <4>2. ASSUME (\E q \in Requests : Platform(q)) \/ (\E t \in Scopes : Exhaust(t)) \/ Abort
            PROVE  UNCHANGED <<pc[r], attempt[r], timer[r]>>
        BY <4>2 DEF Platform, Accept, Refuse, Limit, Fail, Exhaust, Abort, clientVars
      <4>. QED
        BY <1>1, <2>5, <4>1, <4>2 DEF Next
    <3>2. LeftOfAttempt(r)' = LeftOfAttempt(r)
      BY <3>1 DEF LeftOfAttempt, Attempt
    <3>3. LeftOfAttempt(r) \in Nat
      BY <1>1, LeftTyped
    <3>. QED
      BY <1>1, <2>5, <3>1, <3>2, <3>3, WithinAttempt DEF Paid
  <2>. QED
    BY <2>2, <2>3, <2>4, <2>5 DEF Client
<1>2. ClientInv => ClientTypeOK
  BY DEF ClientInv
<1>3. ClientTypeOK /\ ClientTypeOK' /\ [Next]_vars => [\A r \in Requests : Paid(r)]_vars
  BY <1>1
<1>. QED
  BY <1>2, <1>3, SpecInv, PTL DEF Spec, PatienceIsBounded

=============================================================================

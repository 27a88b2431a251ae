-------------------------- MODULE LLMClientProofs --------------------------
(***************************************************************************)
(* What holds of LLMClient for every set of callers, every budget and any  *)
(* number of attempts: its invariants and the growth of the budget.        *)
(***************************************************************************)
EXTENDS LLMClient, SequenceTheorems, TLAPS

Asks == IF call.kind = "json" THEN ask ELSE 1

Retrying == pc \in {"post", "waiting", "reading", "backoff"}

(* Where a call is, by its kind, and what it has produced there. *)
PlaceInv ==
  /\ messages = 0
  /\ pc = "ask" => call.kind = "json" /\ ask < 2
  /\ pc = "ping" => call.kind = "health" /\ sent = <<>> /\ attempt = 1
  /\ pc = "reading" => call.kind = "stream"
  /\ Retrying /\ call.kind = "json" => ask > 0

(* While a call is in progress, content that was heard is being read. *)
VoiceInv ==
  /\ OneVoice
  /\ pc # "idle" => result = "none" /\ dones = 0
  /\ pc # "idle" /\ heard # {} => pc = "reading" /\ delivered
  /\ pc = "reading" /\ delivered => heard = {attempt}
  /\ pc = "waiting" => ~delivered
  /\ pc \in {"ask", "ping"} => heard = {}

(* The budget of the request in hand. *)
BudgetInv ==
  /\ pc # "idle" => Budget(asking.tokens) <= AtLeast(Cap, Budget(call.tokens))
  /\ Retrying \/ pc = "ping" =>
                 /\ asking.told = IF call.kind = "json" THEN 1 ELSE 0
                 /\ call.kind = "json" => asking.tokens >= JsonFloor
                 /\ Budget(asking.tokens) >= Budget(call.tokens) \/ Budget(asking.tokens) >= Floor

(* How many requests were posted, wherever the call is. *)
CountInv ==
  /\ pc = "ping" => Len(sent) = 0
  /\ pc = "ask" => Len(sent) <= MaxAttempts * ask
  /\ pc = "post" => Len(sent) < MaxAttempts * (Asks - 1) + attempt
  /\ pc \in {"waiting", "reading", "backoff"} => Len(sent) <= MaxAttempts * (Asks - 1) + attempt
  /\ pc = "backoff" => attempt < MaxAttempts
  /\ pc = "idle" => Len(sent) <= MaxAttempts * Asks

(* What the last request was, once there is one of this Chat or Stream. *)
RoomInv ==
  /\ pc \in {"waiting", "reading"} =>
       sent # <<>> /\ sent[Len(sent)].tokens = Body(asking.tokens)
  /\ ctx = "live" /\ (pc = "backoff" \/ (pc = "post" /\ attempt > 1)) =>
       /\ sent # <<>>
       /\ IF lastErr = "empty"
            THEN \E t \in Nat : /\ asking.tokens = WithDoubledBudget(t)
                                /\ sent[Len(sent)].tokens = Body(t)
                                /\ Budget(t) >= Budget(call.tokens) \/ Budget(t) >= Floor
            ELSE sent[Len(sent)].tokens = Body(asking.tokens)
  /\ pc = "backoff" \/ attempt > 1 => lastErr # "none"

IInv == TypeOK /\ PlaceInv /\ VoiceInv /\ BudgetInv /\ CountInv /\ RequestsAreSound /\ RoomInv

----------------------------------------------------------------------------
\* The budget

(* The larger of two numbers is one of them. *)
LEMMA AtLeastType ==
  ASSUME NEW a \in Nat, NEW b \in Nat
  PROVE  /\ AtLeast(a, b) \in Nat /\ AtLeast(a, b) >= a /\ AtLeast(a, b) >= b
         /\ AtLeast(a, b) = a \/ AtLeast(a, b) = b
BY DEF AtLeast

(* A budget is never zero: New fills in the default. *)
LEMMA BudgetType ==
  ASSUME NEW t \in Nat
  PROVE  Budget(t) \in Nat \ {0} /\ (t # 0 => Budget(t) = t)
BY LLMClientAssumption DEF Budget, Fallback

(* A doubled budget is a budget, no smaller, larger unless it is at the    *)
(* cap, and past the cap only where it was before.                          *)
LEMMA Doubling ==
  ASSUME NEW t \in Nat
  PROVE  /\ WithDoubledBudget(t) \in Nat
         /\ WithDoubledBudget(t) >= t
         /\ Budget(WithDoubledBudget(t)) >= Budget(t)
         /\ Budget(WithDoubledBudget(t)) > Budget(t) \/ Budget(WithDoubledBudget(t)) >= Cap
         /\ Budget(WithDoubledBudget(t)) <= AtLeast(Cap, Budget(t))
BY BudgetType, LLMClientAssumption DEF WithDoubledBudget, Budget, AtLeast

(* A doubled budget that is below the cap is twice the budget. *)
LEMMA DoubledBelow ==
  ASSUME NEW t \in Nat, Budget(WithDoubledBudget(t)) < Cap
  PROVE  Budget(WithDoubledBudget(t)) = 2 * Budget(t)
BY BudgetType, LLMClientAssumption DEF WithDoubledBudget, Budget

(* What body sends has the floor, and no more than that and the budget. *)
LEMMA BodyType ==
  ASSUME NEW t \in Nat
  PROVE  Body(t) \in Nat /\ Body(t) >= Floor /\ Body(t) <= AtLeast(Floor, Budget(t))
BY BudgetType, LLMClientAssumption DEF Body, AtLeast

(* Posting one more request leaves a sequence of requests. *)
LEMMA OneMoreRequest ==
  ASSUME NEW s \in Seq(Request), NEW r \in Request
  PROVE  Append(s, r) \in Seq(Request)
BY AppendProperties

(* What a failed attempt leaves behind, whoever reports it. *)
LEMMA FailedStep ==
  ASSUME TypeOK, NEW err \in Errors \ {"none"}, NEW d \in BOOLEAN, Failed(err, d)
  PROVE  /\ attempt' = attempt /\ ask' = ask /\ lastErr' = err
         /\ asking' \in Request /\ asking'.told = asking.told
         /\ asking'.tokens =
              IF err = "empty" THEN WithDoubledBudget(asking.tokens) ELSE asking.tokens
         /\ \/ pc' = "idle" /\ result' = "error"
            \/ /\ pc' = "backoff" /\ result' = result
               /\ ~d /\ err # "abort" /\ attempt < MaxAttempts
<1>1. asking \in Request
  BY DEF TypeOK
<1>2. asking.tokens \in Nat /\ asking.told \in Nat
  BY <1>1 DEF Request
<1>3. WithDoubledBudget(asking.tokens) \in Nat
  BY <1>2, Doubling
<1>4. asking' \in Request /\ asking'.told = asking.told
  BY <1>1, <1>2, <1>3 DEF Failed, WithMoreRoom, Request
<1>5. asking'.tokens = IF err = "empty" THEN WithDoubledBudget(asking.tokens) ELSE asking.tokens
  BY DEF Failed, WithMoreRoom
<1> QED
  BY <1>4, <1>5, LLMClientAssumption DEF Failed, Return, IsRetryable, TypeOK

----------------------------------------------------------------------------
\* Each part of the invariant is kept

(* Every action keeps types. *)
LEMMA TypeNext == TypeOK /\ PlaceInv /\ VoiceInv /\ CountInv /\ [Next]_vars => TypeOK'
<1> SUFFICES ASSUME TypeOK /\ PlaceInv /\ VoiceInv /\ CountInv, [Next]_vars PROVE TypeOK'
  OBVIOUS
<1> USE LLMClientAssumption DEF vars, inputs, loop, seen, TypeOK, PlaceInv, VoiceInv, OneVoice, Errors, Kinds, Retrying
<1>1. CASE Invoke
  <2>1. PICK c \in Calls : /\ call' = c /\ pc' = FirstStep[c.kind]
                           /\ Begin([tokens |-> c.tokens, told |-> 0])
    BY <1>1 DEF Invoke
  <2>2. c.kind \in Kinds /\ c.tokens \in Nat
    BY <2>1
  <2>3. pc' \in {"ask", "ping", "post"}
    BY <2>1, <2>2 DEF FirstStep
  <2>4. asking' \in Request /\ attempt' = 1 /\ lastErr' = "none"
    BY <2>1, <2>2 DEF Begin, Request
  <2>5. /\ ctx' = "live" /\ messages' = 0 /\ ask' = 0 /\ delivered' = FALSE
        /\ out' = {} /\ sent' = <<>> /\ heard' = {} /\ dones' = 0 /\ result' = "none"
    BY <1>1 DEF Invoke
  <2>6. sent' \in Seq(Request) /\ attempt' \in 1 .. MaxAttempts /\ call' \in Calls
    BY <2>1, <2>4, <2>5
  <2>7. out' \subseteq 1 .. 2 /\ heard' \subseteq 1 .. MaxAttempts /\ dones' \in 0 .. 1
    BY <2>5
  <2>8. /\ ctx' \in {"live"} /\ messages' \in Nat /\ ask' \in 0 .. 2
        /\ result' = "none"
    BY <2>5
  <2>9. delivered' \in BOOLEAN
    <3>1. delivered' = FALSE
      BY <2>5
    <3> QED
      BY <3>1, Zenon
  <2> QED
    BY <2>3, <2>4, <2>6, <2>7, <2>8, <2>9
<1>2. CASE Cancel
  BY <1>2 DEF Cancel
<1>3. CASE Expire
  BY <1>3 DEF Expire
<1>4. CASE AskJSON
  <2>1. call.tokens \in Nat
    BY LLMClientAssumption
  <2>2. AtLeast(call.tokens, JsonFloor) \in Nat
    BY <2>1, AtLeastType
  <2> QED
    BY <1>4, <2>2 DEF AskJSON, Begin, Request
<1>5. CASE Post
  <2>1. asking.tokens \in Nat /\ asking.told \in Nat
    BY DEF Request
  <2>2. [tokens |-> Body(asking.tokens), told |-> asking.told] \in Request
    BY <2>1, BodyType DEF Request
  <2>3. sent' \in Seq(Request)
    <3>1. sent' = sent \/ sent' = Append(sent, [tokens |-> Body(asking.tokens), told |-> asking.told])
      BY <1>5 DEF Post
    <3>2. sent \in Seq(Request)
      OBVIOUS
    <3>3. Append(sent, [tokens |-> Body(asking.tokens), told |-> asking.told]) \in Seq(Request)
      BY <2>2, <3>2, OneMoreRequest
    <3> QED
      BY <3>1, <3>2, <3>3, Zenon
  <2>4. CASE ctx = "live"
    BY <1>5, <2>3, <2>4 DEF Post
  <2>5. CASE ctx # "live"
    BY <1>5, <2>3, <2>5, FailedStep DEF Post
  <2> QED
    BY <2>4, <2>5
<1>6. CASE AttemptFails
  BY <1>6, FailedStep DEF AttemptFails
<1>7. CASE AttemptTimer
  BY <1>7, FailedStep DEF AttemptTimer
<1>8. CASE ContextEnds
  BY <1>8, FailedStep DEF ContextEnds
<1>9. CASE Backoff
  <2>1. attempt + 1 \in 1 .. MaxAttempts
    BY <1>9 DEF CountInv, Backoff
  <2> QED
    BY <1>9, <2>1 DEF Backoff, Return
<1>10. CASE ChatAnswers
  <2>1. out' \subseteq 1 .. 2
    <3>1. call.kind = "json" => ask \in 1 .. 2
      BY <1>10 DEF ChatAnswers
    <3>2. out' = out \/ (call.kind = "json" /\ out' = out \cup {ask})
      BY <1>10 DEF ChatAnswers
    <3> QED
      BY <3>1, <3>2
  <2>2. pc' \in {"idle", "ask"} /\ result' \in {"none", "ok", "error"}
    BY <1>10 DEF ChatAnswers, Return
  <2> QED
    BY <1>10, <2>1, <2>2 DEF ChatAnswers
<1>11. CASE StreamOpens
  BY <1>11 DEF StreamOpens
<1>12. CASE Chunk
  BY <1>12, FailedStep DEF Chunk
<1>13. CASE StreamEnds
  <2>1. dones' \in 0 .. 1
    <3>1. dones = 0
      BY <1>13 DEF StreamEnds
    <3>2. dones' = dones \/ dones' = dones + 1
      BY <1>13 DEF StreamEnds
    <3> QED
      BY <3>1, <3>2
  <2>2. CASE ~delivered
    BY <1>13, <2>1, <2>2, FailedStep DEF StreamEnds
  <2>3. CASE delivered /\ Return("ok") /\ UNCHANGED loop
    BY <1>13, <2>1, <2>3 DEF StreamEnds, Return
  <2>4. CASE delivered /\ Failed("abort", TRUE)
    BY <1>13, <2>1, <2>4, FailedStep DEF StreamEnds
  <2> QED
    BY <1>13, <2>2, <2>3, <2>4 DEF StreamEnds
<1>14. CASE StreamBreaks
  BY <1>14, FailedStep DEF StreamBreaks
<1>15. CASE PlainAnswer
  <2>1. dones' \in 0 .. 1 /\ heard' \subseteq 1 .. MaxAttempts
    <3>1. dones = 0
      BY <1>15 DEF PlainAnswer
    <3>2. dones' = dones \/ dones' = dones + 1
      BY <1>15 DEF PlainAnswer
    <3>3. heard' = heard \/ heard' = heard \cup {attempt}
      BY <1>15 DEF PlainAnswer
    <3>4. heard' \subseteq 1 .. MaxAttempts
      BY <3>3
    <3> QED
      BY <3>1, <3>2, <3>4
  <2>2. CASE Return("ok") /\ UNCHANGED loop
    BY <1>15, <2>1, <2>2 DEF PlainAnswer, Return
  <2>3. CASE \E d \in BOOLEAN : Failed("abort", d)
    BY <1>15, <2>1, <2>3, FailedStep DEF PlainAnswer
  <2> QED
    BY <1>15, <2>2, <2>3 DEF PlainAnswer
<1>16. CASE Ping
  BY <1>16 DEF Ping, Return
<1>17. CASE PingEnds
  BY <1>17 DEF PingEnds
<1>18. CASE UNCHANGED vars
  BY <1>18
<1> QED
  BY <1>1, <1>2, <1>3, <1>4, <1>5, <1>6, <1>7, <1>8, <1>9, <1>10, <1>11, <1>12, <1>13, <1>14, <1>15, <1>16, <1>17, <1>18 DEF Next, Endpoint

(* Every action keeps the place of the call. *)
LEMMA PlaceNext == TypeOK /\ PlaceInv /\ [Next]_vars => PlaceInv'
<1> SUFFICES ASSUME TypeOK /\ PlaceInv, [Next]_vars PROVE PlaceInv'
  OBVIOUS
<1> USE LLMClientAssumption DEF vars, inputs, loop, seen, PlaceInv, TypeOK, Kinds, Errors, Retrying
<1>1. CASE Invoke
  BY <1>1 DEF Invoke, Begin, FirstStep
<1>2. CASE Cancel
  BY <1>2 DEF Cancel
<1>3. CASE Expire
  BY <1>3 DEF Expire
<1>4. CASE AskJSON
  BY <1>4, AtLeastType DEF AskJSON, Begin
<1>5. CASE Post
  BY <1>5, FailedStep DEF Post
<1>6. CASE AttemptFails
  BY <1>6, FailedStep DEF AttemptFails
<1>7. CASE AttemptTimer
  BY <1>7, FailedStep DEF AttemptTimer
<1>8. CASE ContextEnds
  BY <1>8, FailedStep DEF ContextEnds
<1>9. CASE Backoff
  BY <1>9 DEF Backoff, Return
<1>10. CASE ChatAnswers
  BY <1>10 DEF ChatAnswers, Return
<1>11. CASE StreamOpens
  BY <1>11 DEF StreamOpens
<1>12. CASE Chunk
  BY <1>12, FailedStep DEF Chunk
<1>13. CASE StreamEnds
  BY <1>13, FailedStep DEF StreamEnds, Return
<1>14. CASE StreamBreaks
  BY <1>14, FailedStep DEF StreamBreaks
<1>15. CASE PlainAnswer
  BY <1>15, FailedStep DEF PlainAnswer, Return
<1>16. CASE Ping
  BY <1>16 DEF Ping, Return
<1>17. CASE PingEnds
  BY <1>17 DEF PingEnds
<1>18. CASE UNCHANGED vars
  BY <1>18
<1> QED
  BY <1>1, <1>2, <1>3, <1>4, <1>5, <1>6, <1>7, <1>8, <1>9, <1>10, <1>11, <1>12, <1>13, <1>14, <1>15, <1>16, <1>17, <1>18 DEF Next, Endpoint

(* Every action keeps what was heard. *)
LEMMA VoiceNext == TypeOK /\ PlaceInv /\ VoiceInv /\ [Next]_vars => VoiceInv'
<1> SUFFICES ASSUME TypeOK /\ PlaceInv /\ VoiceInv, [Next]_vars PROVE VoiceInv'
  OBVIOUS
<1> USE LLMClientAssumption DEF vars, inputs, loop, seen, TypeOK, PlaceInv, VoiceInv, OneVoice, Kinds, Errors, Retrying
<1>1. CASE Invoke
  BY <1>1 DEF Invoke, Begin, FirstStep
<1>2. CASE Cancel
  BY <1>2 DEF Cancel
<1>3. CASE Expire
  BY <1>3 DEF Expire
<1>4. CASE AskJSON
  BY <1>4, AtLeastType DEF AskJSON, Begin
<1>5. CASE Post
  BY <1>5, FailedStep DEF Post
<1>6. CASE AttemptFails
  BY <1>6, FailedStep DEF AttemptFails
<1>7. CASE AttemptTimer
  BY <1>7, FailedStep DEF AttemptTimer
<1>8. CASE ContextEnds
  BY <1>8, FailedStep DEF ContextEnds
<1>9. CASE Backoff
  BY <1>9 DEF Backoff, Return
<1>10. CASE ChatAnswers
  BY <1>10 DEF ChatAnswers, Return
<1>11. CASE StreamOpens
  BY <1>11 DEF StreamOpens
<1>12. CASE Chunk
  BY <1>12, FailedStep DEF Chunk
<1>13. CASE StreamEnds
  <2>2. CASE ~delivered
    BY <1>13, <2>2, FailedStep DEF StreamEnds
  <2>3. CASE delivered /\ Return("ok") /\ UNCHANGED loop
    BY <1>13, <2>3 DEF StreamEnds, Return
  <2>4. CASE delivered /\ Failed("abort", TRUE)
    <3>1. pc' = "idle" /\ result' = "error" /\ attempt' = attempt
      BY <2>4, FailedStep
    <3>2. dones' = 1 /\ heard' = heard /\ call' = call
      BY <1>13, <2>4 DEF StreamEnds
    <3> QED
      BY <1>13, <3>1, <3>2 DEF StreamEnds
  <2> QED
    BY <1>13, <2>2, <2>3, <2>4 DEF StreamEnds
<1>14. CASE StreamBreaks
  BY <1>14, FailedStep DEF StreamBreaks
<1>15. CASE PlainAnswer
  <2>1. dones' \in {dones, dones + 1} /\ heard' \subseteq {attempt}
    BY <1>15 DEF PlainAnswer
  <2>2. CASE Return("ok") /\ UNCHANGED loop /\ dones' = dones + 1
    BY <1>15, <2>1, <2>2 DEF PlainAnswer, Return
  <2>3. CASE \E d \in BOOLEAN : Failed("abort", d)
    <3>1. PICK d \in BOOLEAN : Failed("abort", d)
      BY <2>3
    <3>2. pc' = "idle" /\ result' = "error" /\ attempt' = attempt
      BY <3>1, FailedStep
    <3> QED
      BY <1>15, <2>1, <3>2 DEF PlainAnswer
  <2> QED
    BY <1>15, <2>2, <2>3 DEF PlainAnswer
<1>16. CASE Ping
  BY <1>16 DEF Ping, Return
<1>17. CASE PingEnds
  BY <1>17 DEF PingEnds
<1>18. CASE UNCHANGED vars
  BY <1>18
<1> QED
  BY <1>1, <1>2, <1>3, <1>4, <1>5, <1>6, <1>7, <1>8, <1>9, <1>10, <1>11, <1>12, <1>13, <1>14, <1>15, <1>16, <1>17, <1>18 DEF Next, Endpoint

(* A failed attempt leaves a sound budget, doubled or not. *)
LEMMA BudgetAfterFailure ==
  ASSUME TypeOK, PlaceInv, BudgetInv, Retrying, UNCHANGED call,
         NEW err \in Errors \ {"none"}, NEW d \in BOOLEAN, Failed(err, d)
  PROVE  BudgetInv'
<1>1. asking.tokens \in Nat /\ call \in Calls /\ call.tokens \in Nat
  BY LLMClientAssumption DEF TypeOK, Request
<1>2. asking'.tokens = asking.tokens \/ asking'.tokens = WithDoubledBudget(asking.tokens)
  BY FailedStep
<1>3. Budget(asking'.tokens) <= AtLeast(Cap, Budget(call.tokens))
  <2>1. Budget(asking.tokens) <= AtLeast(Cap, Budget(call.tokens))
    BY DEF BudgetInv, Retrying
  <2>2. Budget(WithDoubledBudget(asking.tokens)) <= AtLeast(Cap, Budget(asking.tokens))
    BY <1>1, Doubling
  <2>3. AtLeast(Cap, Budget(asking.tokens)) <= AtLeast(Cap, Budget(call.tokens))
    BY <1>1, <2>1, BudgetType, LLMClientAssumption DEF AtLeast
  <2> QED
    BY <1>1, <1>2, <2>1, <2>2, <2>3, BudgetType, Doubling, LLMClientAssumption DEF AtLeast
<1>4. asking'.tokens >= asking.tokens /\ Budget(asking'.tokens) >= Budget(asking.tokens)
  BY <1>1, <1>2, Doubling, BudgetType
<1>5. asking'.told = asking.told /\ asking'.tokens \in Nat /\ UNCHANGED ask
  BY <1>1, <1>2, FailedStep, Doubling
<1> QED
  BY <1>1, <1>3, <1>4, <1>5, BudgetType, LLMClientAssumption DEF BudgetInv, Retrying

(* Every action keeps the budget. *)
LEMMA BudgetNext == TypeOK /\ PlaceInv /\ BudgetInv /\ [Next]_vars => BudgetInv'
<1> SUFFICES ASSUME TypeOK /\ PlaceInv /\ BudgetInv, [Next]_vars PROVE BudgetInv'
  OBVIOUS
<1> USE LLMClientAssumption DEF vars, inputs, loop, seen, TypeOK, PlaceInv, BudgetInv, Kinds, Errors, Retrying
<1>1. CASE Invoke
  <2>1. PICK c \in Calls : /\ call' = c /\ pc' = FirstStep[c.kind]
                           /\ Begin([tokens |-> c.tokens, told |-> 0])
    BY <1>1 DEF Invoke
  <2>2. c.kind \in Kinds /\ c.tokens \in Nat
    BY <2>1
  <2>3. asking'.tokens = call'.tokens /\ asking'.told = 0
    BY <2>1 DEF Begin
  <2>4. call'.kind = "json" => pc' = "ask"
    BY <2>1, <2>2 DEF FirstStep
  <2>5. Budget(call'.tokens) <= AtLeast(Cap, Budget(call'.tokens)) /\ Budget(call'.tokens) \in Nat
    BY <2>1, <2>2, BudgetType, AtLeastType
  <2> QED
    BY <2>3, <2>4, <2>5
<1>2. CASE Cancel
  BY <1>2 DEF Cancel
<1>3. CASE Expire
  BY <1>3 DEF Expire
<1>4. CASE AskJSON
  <2>1. call.tokens \in Nat /\ call.kind = "json" /\ UNCHANGED call
    BY <1>4 DEF AskJSON
  <2>2. asking'.tokens = AtLeast(call.tokens, JsonFloor) /\ asking'.told = 1 /\ pc' = "post"
    BY <1>4 DEF AskJSON, Begin
  <2>3. asking'.tokens \in Nat /\ asking'.tokens >= JsonFloor
    BY <2>1, <2>2 DEF AtLeast
  <2>4. Budget(asking'.tokens) <= AtLeast(Cap, Budget(call.tokens))
    BY <2>1, <2>2, BudgetType DEF AtLeast, Budget
  <2>5. Budget(asking'.tokens) >= Budget(call.tokens) \/ Budget(asking'.tokens) >= Floor
    BY <2>1, <2>2, <2>3, BudgetType DEF Budget
  <2> QED
    BY <2>1, <2>2, <2>3, <2>4, <2>5
<1>5. CASE Post
  BY <1>5, FailedStep, BudgetAfterFailure DEF Post
<1>6. CASE AttemptFails
  BY <1>6, FailedStep, BudgetAfterFailure DEF AttemptFails
<1>7. CASE AttemptTimer
  BY <1>7, FailedStep, BudgetAfterFailure DEF AttemptTimer
<1>8. CASE ContextEnds
  BY <1>8, FailedStep, BudgetAfterFailure DEF ContextEnds
<1>9. CASE Backoff
  BY <1>9 DEF Backoff, Return
<1>10. CASE ChatAnswers
  BY <1>10 DEF ChatAnswers, Return
<1>11. CASE StreamOpens
  BY <1>11 DEF StreamOpens
<1>12. CASE Chunk
  BY <1>12, FailedStep, BudgetAfterFailure DEF Chunk
<1>13. CASE StreamEnds
  BY <1>13, FailedStep, BudgetAfterFailure DEF StreamEnds, Return
<1>14. CASE StreamBreaks
  BY <1>14, FailedStep, BudgetAfterFailure DEF StreamBreaks
<1>15. CASE PlainAnswer
  BY <1>15, FailedStep, BudgetAfterFailure DEF PlainAnswer, Return
<1>16. CASE Ping
  BY <1>16 DEF Ping, Return
<1>17. CASE PingEnds
  BY <1>17 DEF PingEnds
<1>18. CASE UNCHANGED vars
  BY <1>18
<1> QED
  BY <1>1, <1>2, <1>3, <1>4, <1>5, <1>6, <1>7, <1>8, <1>9, <1>10, <1>11, <1>12, <1>13, <1>14, <1>15, <1>16, <1>17, <1>18 DEF Next, Endpoint

(* Arithmetic: requests of earlier asks and of this one make up the quota. *)
LEMMA WithinQuota ==
  ASSUME NEW m \in Nat, NEW k \in Int, NEW n \in Nat, NEW l \in Nat, n <= m, l <= m * (k - 1) + n
  PROVE  l <= m * k
<1>1. m * (k - 1) \in Int /\ m * k = m * (k - 1) + m
  OBVIOUS
<1> QED
  BY <1>1

(* A call in progress has not used up more than its quota. *)
LEMMA CountInHand ==
  ASSUME TypeOK, CountInv, pc \in {"post", "waiting", "reading", "backoff"}
  PROVE  Len(sent) <= MaxAttempts * Asks
BY WithinQuota, LLMClientAssumption DEF TypeOK, CountInv, Asks

(* A failed attempt posts nothing. *)
LEMMA CountAfterFailure ==
  ASSUME TypeOK, PlaceInv, CountInv, pc \in {"post", "waiting", "reading"}, UNCHANGED <<call, sent>>,
         NEW err \in Errors \ {"none"}, NEW d \in BOOLEAN, Failed(err, d)
  PROVE  CountInv'
<1> DEFINE before == MaxAttempts * (Asks - 1)
<1>1. Asks \in Int /\ MaxAttempts \in Nat /\ attempt \in Nat /\ attempt <= MaxAttempts /\ Len(sent) \in Nat
  BY LLMClientAssumption DEF TypeOK, Asks
<1>2. before \in Int /\ MaxAttempts * Asks = before + MaxAttempts
  BY <1>1
<1>3. Len(sent) <= before + attempt
  BY <1>1, <1>2 DEF CountInv
<1>4. UNCHANGED <<attempt, Asks, Len(sent), before>>
  BY FailedStep DEF Asks
<1>5. pc' = "idle" \/ (pc' = "backoff" /\ attempt < MaxAttempts)
  BY FailedStep
<1> HIDE DEF before
<1>6. Len(sent) <= MaxAttempts * Asks
  BY <1>1, <1>2, <1>3
<1> QED
  BY <1>1, <1>3, <1>4, <1>5, <1>6 DEF CountInv, before

(* Every action keeps the number of requests. *)
LEMMA CountNext == TypeOK /\ PlaceInv /\ CountInv /\ [Next]_vars => CountInv'
<1> SUFFICES ASSUME TypeOK /\ PlaceInv /\ CountInv, [Next]_vars PROVE CountInv'
  OBVIOUS
<1> USE LLMClientAssumption DEF vars, inputs, loop, seen, TypeOK, PlaceInv, CountInv, Asks, Kinds, Errors, Retrying
<1>1. CASE Invoke
  BY <1>1 DEF Invoke, Begin, FirstStep
<1>2. CASE Cancel
  BY <1>2 DEF Cancel
<1>3. CASE Expire
  BY <1>3 DEF Expire
<1>4. CASE AskJSON
  BY <1>4, AtLeastType DEF AskJSON, Begin
<1>5. CASE Post
  <2>1. CASE ctx = "live"
    <3>1. sent' = Append(sent, [tokens |-> Body(asking.tokens), told |-> asking.told])
      BY <1>5, <2>1 DEF Post
    <3>2. Len(sent') = Len(sent) + 1
      BY <3>1
    <3>3. pc = "post" /\ pc' = "waiting" /\ UNCHANGED <<attempt, ask, call>>
      BY <1>5, <2>1 DEF Post
    <3> QED
      BY <3>2, <3>3
  <2>2. CASE ctx # "live"
    BY <1>5, <2>2, CountAfterFailure DEF Post
  <2> QED
    BY <2>1, <2>2
<1>6. CASE AttemptFails
  BY <1>6, FailedStep, CountAfterFailure DEF AttemptFails
<1>7. CASE AttemptTimer
  BY <1>7, FailedStep, CountAfterFailure DEF AttemptTimer
<1>8. CASE ContextEnds
  BY <1>8, FailedStep, CountAfterFailure DEF ContextEnds
<1>9. CASE Backoff
  BY <1>9 DEF Backoff, Return
<1>10. CASE ChatAnswers
  BY <1>10 DEF ChatAnswers, Return
<1>11. CASE StreamOpens
  BY <1>11 DEF StreamOpens
<1>12. CASE Chunk
  BY <1>12, FailedStep, CountAfterFailure DEF Chunk
<1>13. CASE StreamEnds
  <2>1. CASE ~delivered
    BY <1>13, <2>1, CountAfterFailure DEF StreamEnds
  <2>2. CASE Return("ok") /\ UNCHANGED loop
    BY <1>13, <2>2, CountInHand DEF StreamEnds, Return
  <2>3. CASE Failed("abort", TRUE)
    BY <1>13, <2>3, CountAfterFailure DEF StreamEnds
  <2> QED
    BY <1>13, <2>1, <2>2, <2>3 DEF StreamEnds
<1>14. CASE StreamBreaks
  BY <1>14, FailedStep, CountAfterFailure DEF StreamBreaks
<1>15. CASE PlainAnswer
  <2>1. CASE Return("ok") /\ UNCHANGED loop
    BY <1>15, <2>1, CountInHand DEF PlainAnswer, Return
  <2>2. CASE \E d \in BOOLEAN : Failed("abort", d)
    BY <1>15, <2>2, CountAfterFailure DEF PlainAnswer
  <2> QED
    BY <1>15, <2>1, <2>2 DEF PlainAnswer
<1>16. CASE Ping
  BY <1>16 DEF Ping, Return
<1>17. CASE PingEnds
  BY <1>17 DEF PingEnds
<1>18. CASE UNCHANGED vars
  BY <1>18
<1> QED
  BY <1>1, <1>2, <1>3, <1>4, <1>5, <1>6, <1>7, <1>8, <1>9, <1>10, <1>11, <1>12, <1>13, <1>14, <1>15, <1>16, <1>17, <1>18 DEF Next, Endpoint

(* Every request that leaves is sound, and there are not too many. *)
LEMMA SoundNext ==
  TypeOK /\ BudgetInv /\ PlaceInv /\ CountInv /\ RequestsAreSound /\ TypeOK' /\ CountInv' /\ PlaceInv' /\ [Next]_vars
    => RequestsAreSound'
<1> SUFFICES ASSUME TypeOK, BudgetInv, PlaceInv, CountInv, RequestsAreSound, TypeOK', CountInv', PlaceInv',
                    [Next]_vars
             PROVE  RequestsAreSound'
  OBVIOUS
<1>1. Len(sent') <= MaxAttempts * Asks'
  <2>1. CASE pc' = "idle"
    BY <2>1 DEF CountInv
  <2>2. CASE pc' = "ping"
    <3>1. Asks' = 1 /\ Len(sent') = 0 /\ MaxAttempts * 1 = MaxAttempts /\ MaxAttempts >= 0
      BY <2>2, LLMClientAssumption DEF CountInv, PlaceInv, Asks
    <3> QED
      BY <3>1
  <2>3. CASE pc' = "ask"
    BY <2>3 DEF CountInv, PlaceInv, Asks
  <2>4. CASE pc' \in {"post", "waiting", "reading", "backoff"}
    <3>1. /\ MaxAttempts \in Nat /\ Asks' \in Int /\ attempt' \in Nat /\ attempt' <= MaxAttempts
          /\ Len(sent') \in Nat
      BY LLMClientAssumption DEF TypeOK, Asks
    <3>2. Len(sent') <= MaxAttempts * (Asks' - 1) + attempt'
      <4>1. MaxAttempts * (Asks' - 1) \in Int
        BY <3>1
      <4> QED
        BY <2>4, <3>1, <4>1 DEF CountInv
    <3> QED
      BY <3>1, <3>2, WithinQuota
  <2> QED
    BY <2>1, <2>2, <2>3, <2>4 DEF TypeOK
<1>2. CASE sent' = sent /\ UNCHANGED call
  BY <1>1, <1>2 DEF RequestsAreSound, Asks
<1>3. CASE sent' = <<>>
  BY <1>1, <1>3 DEF RequestsAreSound, Asks
<1>4. CASE Post /\ ctx = "live"
  <2> DEFINE r == [tokens |-> Body(asking.tokens), told |-> asking.told]
  <2>1. /\ sent' = Append(sent, r) /\ UNCHANGED call /\ pc = "post"
    BY <1>4 DEF Post, inputs
  <2>2. asking.tokens \in Nat /\ call.tokens \in Nat /\ sent \in Seq(Request) /\ r \in Request
    BY BodyType, LLMClientAssumption DEF TypeOK, Request
  <2>3. r.tokens >= Floor /\ r.tokens <= AtLeast(AtLeast(Cap, Floor), Budget(call.tokens))
    <3>1. Budget(asking.tokens) <= AtLeast(Cap, Budget(call.tokens))
      BY <2>1 DEF BudgetInv
    <3>2. Budget(asking.tokens) \in Nat /\ Budget(call.tokens) \in Nat
      BY <2>2, BudgetType
    <3>3. r.tokens = AtLeast(Budget(asking.tokens), Floor)
      BY DEF Body
    <3> HIDE DEF r
    <3> QED
      BY <3>1, <3>2, <3>3, LLMClientAssumption DEF AtLeast
  <2>4. /\ call.kind = "json" => r.tokens >= JsonFloor
        /\ r.told = IF call.kind = "json" THEN 1 ELSE 0
    BY <2>1, <2>2, BudgetType, LLMClientAssumption DEF BudgetInv, Retrying, Body, AtLeast, Budget
  <2>5. \A i \in DOMAIN sent' : sent'[i] = r \/ (i \in DOMAIN sent /\ sent'[i] = sent[i])
    BY <2>1, <2>2
  <2> HIDE DEF r
  <2> QED
    BY <1>1, <2>1, <2>3, <2>4, <2>5 DEF RequestsAreSound, Asks
<1> QED
  BY <1>2, <1>3, <1>4 DEF Next, Endpoint, vars, inputs, loop, seen, Invoke, Cancel, Expire, AskJSON, Post,
     Backoff, AttemptTimer, ContextEnds, PingEnds, AttemptFails, ChatAnswers, StreamOpens, Chunk,
     StreamEnds, StreamBreaks, PlainAnswer, Ping

(* What a failed attempt remembers of the request it posted. *)
LEMMA RoomAfterFailure ==
  ASSUME TypeOK, BudgetInv, PlaceInv, RoomInv, pc \in {"waiting", "reading"}, UNCHANGED <<call, sent, ctx>>,
         NEW err \in Errors \ {"none"}, NEW d \in BOOLEAN, Failed(err, d)
  PROVE  RoomInv'
<1>1. sent # <<>> /\ sent[Len(sent)].tokens = Body(asking.tokens)
  BY DEF RoomInv
<1>2. /\ lastErr' = err /\ pc' \in {"idle", "backoff"}
      /\ asking'.tokens = IF err = "empty" THEN WithDoubledBudget(asking.tokens) ELSE asking.tokens
  BY FailedStep
<1>3. asking.tokens \in Nat
  BY DEF TypeOK, Request
<1>4. Budget(asking.tokens) >= Budget(call.tokens) \/ Budget(asking.tokens) >= Floor
  BY DEF BudgetInv, Retrying
<1>5. CASE err = "empty"
  BY <1>1, <1>2, <1>3, <1>4, <1>5 DEF RoomInv
<1>6. CASE err # "empty"
  BY <1>1, <1>2, <1>6 DEF RoomInv, Errors
<1> QED
  BY <1>5, <1>6

(* Every action keeps what the last request was. *)
LEMMA RoomNext == TypeOK /\ PlaceInv /\ BudgetInv /\ RoomInv /\ [Next]_vars => RoomInv'
<1> SUFFICES ASSUME TypeOK /\ PlaceInv /\ BudgetInv /\ RoomInv, [Next]_vars PROVE RoomInv'
  OBVIOUS
<1> USE LLMClientAssumption DEF vars, inputs, loop, seen, TypeOK, PlaceInv, RoomInv, Kinds, Errors, Retrying
<1>1. CASE Invoke
  BY <1>1 DEF Invoke, Begin, FirstStep
<1>2. CASE Cancel
  BY <1>2 DEF Cancel
<1>3. CASE Expire
  BY <1>3 DEF Expire
<1>4. CASE AskJSON
  BY <1>4, AtLeastType DEF AskJSON, Begin
<1>5. CASE Post
  <2>1. CASE ctx = "live"
    <3>1. /\ sent' = Append(sent, [tokens |-> Body(asking.tokens), told |-> asking.told])
          /\ pc' = "waiting" /\ UNCHANGED <<asking, lastErr, attempt>>
      BY <1>5, <2>1 DEF Post
    <3>2. sent' # <<>> /\ sent'[Len(sent')].tokens = Body(asking.tokens)
      BY <3>1
    <3> QED
      BY <3>1, <3>2
  <2>2. CASE ctx # "live"
    BY <1>5, <2>2, FailedStep DEF Post
  <2> QED
    BY <2>1, <2>2
<1>6. CASE AttemptFails
  BY <1>6, FailedStep, RoomAfterFailure DEF AttemptFails
<1>7. CASE AttemptTimer
  BY <1>7, FailedStep, RoomAfterFailure DEF AttemptTimer
<1>8. CASE ContextEnds
  BY <1>8, FailedStep, RoomAfterFailure DEF ContextEnds
<1>9. CASE Backoff
  BY <1>9 DEF Backoff, Return
<1>10. CASE ChatAnswers
  BY <1>10 DEF ChatAnswers, Return
<1>11. CASE StreamOpens
  BY <1>11 DEF StreamOpens
<1>12. CASE Chunk
  BY <1>12, FailedStep, RoomAfterFailure DEF Chunk
<1>13. CASE StreamEnds
  BY <1>13, FailedStep, RoomAfterFailure DEF StreamEnds, Return
<1>14. CASE StreamBreaks
  BY <1>14, FailedStep, RoomAfterFailure DEF StreamBreaks
<1>15. CASE PlainAnswer
  BY <1>15, FailedStep, RoomAfterFailure DEF PlainAnswer, Return
<1>16. CASE Ping
  BY <1>16 DEF Ping, Return
<1>17. CASE PingEnds
  BY <1>17 DEF PingEnds
<1>18. CASE UNCHANGED vars
  BY <1>18
<1> QED
  BY <1>1, <1>2, <1>3, <1>4, <1>5, <1>6, <1>7, <1>8, <1>9, <1>10, <1>11, <1>12, <1>13, <1>14, <1>15, <1>16, <1>17, <1>18 DEF Next, Endpoint

----------------------------------------------------------------------------
\* The theorems

(* The invariant holds before the first call, ... *)
LEMMA InvInit == Init => IInv
<1> SUFFICES ASSUME Init PROVE IInv
  OBVIOUS
<1>1. call \in Calls /\ call.tokens \in Nat
  BY LLMClientAssumption DEF Init
<1>2. TypeOK
  <2>1. asking \in Request /\ sent \in Seq(Request)
    BY DEF Init, Request
  <2>2. delivered \in BOOLEAN
    BY Zenon DEF Init
  <2>3. /\ attempt \in 1 .. MaxAttempts /\ ask \in 0 .. 2 /\ messages \in Nat
        /\ out \subseteq 1 .. 2 /\ heard \subseteq 1 .. MaxAttempts /\ dones \in 0 .. 1
    BY LLMClientAssumption DEF Init
  <2> QED
    BY <2>1, <2>2, <2>3 DEF Init, TypeOK, Errors
<1>3. PlaceInv /\ VoiceInv
  BY DEF Init, PlaceInv, VoiceInv, OneVoice, Retrying
<1>4. BudgetInv
  BY DEF Init, BudgetInv, Retrying
<1>5. CountInv /\ RequestsAreSound
  BY LLMClientAssumption DEF Init, CountInv, RequestsAreSound, Asks, Kinds
<1>6. RoomInv
  BY DEF Init, RoomInv
<1> QED
  BY <1>2, <1>3, <1>4, <1>5, <1>6 DEF IInv

(* ... every step keeps it, ... *)
LEMMA InvNext == IInv /\ [Next]_vars => IInv'
<1> SUFFICES ASSUME IInv, [Next]_vars PROVE IInv'
  OBVIOUS
<1>1. TypeOK' /\ PlaceInv' /\ VoiceInv' /\ BudgetInv' /\ CountInv' /\ RoomInv'
  BY TypeNext, PlaceNext, VoiceNext, BudgetNext, CountNext, RoomNext DEF IInv
<1> QED
  BY <1>1, SoundNext DEF IInv

(* ... and so it always holds. *)
LEMMA Invariant == Spec => []IInv
BY InvInit, InvNext, PTL DEF Spec

(* The type invariant, for every set of callers and every bound. *)
THEOREM TypeCorrect == Spec => []TypeOK
BY Invariant, PTL DEF IInv

(* Content reaches the caller from one attempt only, completion is told once,
   and a call is over once it was told or its caller refused something. *)
THEOREM HeardOnce == Spec => []OneVoice
<1>1. IInv => OneVoice
  BY DEF IInv, VoiceInv
<1> QED
  BY <1>1, Invariant, PTL

(* No request leaves below the floor, none above the cap unless its caller
   asked for more than that, no question for JSON without the instruction or
   with two of them, and no call posts more than its quota. *)
THEOREM RequestsWithinBounds == Spec => []RequestsAreSound
<1>1. IInv => RequestsAreSound
  BY DEF IInv
<1> QED
  BY <1>1, Invariant, PTL

(* Only Post adds a request, and the last one tells what it follows. *)
LEMMA RoomStep ==
  ASSUME IInv, [Next]_vars, sent' # sent, sent' # <<>>, attempt > 1
  PROVE  IF lastErr = "empty"
           THEN \/ sent'[Len(sent')].tokens > sent[Len(sent)].tokens
                \/ sent'[Len(sent')].tokens >= Cap
                \/ sent'[Len(sent')].tokens = Floor /\ 2 * Budget(call.tokens) <= Floor
           ELSE sent'[Len(sent')].tokens = sent[Len(sent)].tokens
<1> DEFINE r == [tokens |-> Body(asking.tokens), told |-> asking.told]
<1>1. pc = "post" /\ ctx = "live" /\ sent' = Append(sent, r)
  BY DEF Next, Endpoint, vars, inputs, loop, seen, Invoke, Cancel, Expire, AskJSON, Post,
     Backoff, AttemptTimer, ContextEnds, PingEnds, AttemptFails, ChatAnswers, StreamOpens, Chunk,
     StreamEnds, StreamBreaks, PlainAnswer, Ping
<1>2. sent \in Seq(Request) /\ r \in Request /\ asking.tokens \in Nat /\ call.tokens \in Nat
  BY BodyType, LLMClientAssumption DEF IInv, TypeOK, Request
<1>3. sent'[Len(sent')] = r
  BY <1>1, <1>2
<1>4. CASE lastErr = "empty"
  <2>1. PICK t \in Nat : /\ asking.tokens = WithDoubledBudget(t)
                         /\ sent[Len(sent)].tokens = Body(t)
                         /\ Budget(t) >= Budget(call.tokens) \/ Budget(t) >= Floor
    BY <1>1, <1>4 DEF IInv, RoomInv
  <2>2. Budget(asking.tokens) > Budget(t) \/ Budget(asking.tokens) >= Cap
    BY <2>1, Doubling
  <2>3. Budget(t) \in Nat /\ Budget(asking.tokens) \in Nat /\ Budget(asking.tokens) >= Budget(t)
    BY <1>2, <2>1, BudgetType, Doubling
  <2>4. Budget(call.tokens) \in Nat /\ Floor \in Nat /\ Cap \in Nat /\ Floor <= Cap
    BY <1>2, BudgetType, LLMClientAssumption
  <2>5. r.tokens = AtLeast(Budget(asking.tokens), Floor) /\ sent[Len(sent)].tokens = AtLeast(Budget(t), Floor)
    BY <2>1 DEF Body
  <2>6. CASE Budget(asking.tokens) >= Cap
    BY <1>3, <1>4, <2>3, <2>4, <2>5, <2>6 DEF AtLeast
  <2>7. CASE Budget(asking.tokens) > Floor /\ Budget(asking.tokens) > Budget(t)
    BY <1>3, <1>4, <2>3, <2>4, <2>5, <2>7 DEF AtLeast
  <2>8. CASE Budget(asking.tokens) <= Floor /\ Budget(asking.tokens) < Cap
    <3>1. Budget(asking.tokens) = 2 * Budget(t)
      BY <2>1, <2>3, <2>8, DoubledBelow
    <3>2. 2 * Budget(call.tokens) <= Floor
      BY <2>1, <2>2, <2>3, <2>4, <2>8, <3>1
    <3> QED
      BY <1>3, <1>4, <2>3, <2>4, <2>5, <2>8, <3>2 DEF AtLeast
  <2> QED
    BY <2>2, <2>3, <2>4, <2>6, <2>7, <2>8
<1>5. CASE lastErr # "empty"
  BY <1>1, <1>3, <1>5 DEF IInv, RoomInv
<1> QED
  BY <1>4, <1>5

(* After an empty answer the next request has more room than the last one,
   unless it is at the cap, or still at the floor because its caller asked for
   no more than half of that; after any other failure it is the same request. *)
THEOREM RoomGrows == Spec => RoomToAnswer
<1>1. IInv /\ [Next]_vars =>
        [LET old == sent[Len(sent)].tokens
             new == sent'[Len(sent')].tokens
         IN sent' # sent /\ sent' # <<>> /\ attempt > 1 =>
              IF lastErr = "empty"
                THEN new > old \/ new >= Cap \/ (new = Floor /\ 2 * Budget(call.tokens) <= Floor)
                ELSE new = old]_vars
  BY RoomStep
<1> QED
  BY <1>1, Invariant, PTL DEF Spec, RoomToAnswer
=============================================================================

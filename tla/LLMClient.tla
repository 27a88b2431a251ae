----------------------------- MODULE LLMClient -----------------------------
(***************************************************************************)
(* One call of the language-model client (internal/llm): a blocking chat,  *)
(* a stream, a JSON question or a health check.                             *)
(*                                                                         *)
(* The endpoint may refuse, fail, answer with nothing, break off in the    *)
(* middle of a stream or never answer; the caller may cancel, run out of   *)
(* time, or refuse what a stream hands it.  The client tries again up to   *)
(* three times, with more room when the answer was empty, and never when   *)
(* the caller has heard something of the answer already.                    *)
(***************************************************************************)
EXTENDS Naturals, Sequences

CONSTANTS
  Calls,        \* what callers ask: kind, tokens (0: not given) and whether a deadline is set
  Configured,   \* Config.MaxTokens, 0 when it is not set
  Default,      \* DefaultMaxTokens, 1024
  Cap,          \* maxTokenBudget, 4096
  Floor,        \* the least a request is sent with, 512
  JsonFloor,    \* the least a JSON question is sent with, 1536
  MaxAttempts   \* maxAttempts, 3

Kinds == {"chat", "stream", "json", "health"}

ASSUME LLMClientAssumption ==
  /\ Calls \subseteq [kind : Kinds, tokens : Nat, deadline : BOOLEAN]
  /\ \A c \in Calls : c.kind = "health" => c.deadline
  /\ Configured \in Nat /\ Default \in Nat \ {0} /\ Cap \in Nat
  /\ Floor \in Nat /\ JsonFloor \in Nat /\ Floor <= JsonFloor /\ JsonFloor <= Cap
  /\ MaxAttempts \in Nat \ {0}

VARIABLES
  call,       \* the call in progress, or the last one
  pc,         \* its next step
  ctx,        \* its context: "live", "cancelled" or "expired"
  messages,   \* how often the caller's own messages hold the JSON instruction
  ask,        \* askJSON calls so far
  asking,     \* the request Chat or Stream holds: token budget and instructions
  attempt,    \* 1 .. MaxAttempts
  delivered,  \* this attempt handed content to the caller
  lastErr,    \* how the last attempt of this Chat or Stream failed
  out,        \* the asks whose answer wrote to the caller's value
  sent,       \* the requests posted, in order
  heard,      \* the attempts whose content the caller was handed
  dones,      \* how often it was told that the answer is complete
  result      \* what the call returned

inputs == <<call, messages>>
loop   == <<ask, asking, attempt, lastErr>>
seen   == <<heard, dones>>
vars   == <<inputs, loop, seen, pc, ctx, delivered, out, sent, result>>

----------------------------------------------------------------------------
\* The budget and the errors

AtLeast(a, b) == IF a < b THEN b ELSE a

(* New: what a request that names no budget gets. *)
Fallback == IF Configured = 0 THEN Default ELSE Configured

Budget(tokens) == IF tokens = 0 THEN Fallback ELSE tokens

(* body: the budget a request is sent with. *)
Body(tokens) == AtLeast(Budget(tokens), Floor)

(* Mutant of WithDoubledBudget: a budget that would pass the cap stays as it is. *)
DoubledBelowCap(tokens) ==
  IF 2 * Budget(tokens) <= Cap THEN 2 * Budget(tokens) ELSE tokens

WithDoubledBudget(tokens) ==
  IF Budget(tokens) < Cap
    THEN IF 2 * Budget(tokens) < Cap THEN 2 * Budget(tokens) ELSE Cap
    ELSE tokens

WithMoreRoom(r) == [tokens |-> WithDoubledBudget(r.tokens), told |-> r.told]

Errors == {"none", "empty", "abort", "cancelled", "expired", "status4xx", "status5xx", "failed"}

IsRetryable(err) == err \notin {"abort", "cancelled", "status4xx"}

----------------------------------------------------------------------------
\* Returning and retrying

Return(res) == /\ result' = res
               /\ pc' = "idle"

(* Mutant of Failed: the last attempt is counted one too late. *)
FailedOnceMore(err, d) ==
  /\ lastErr' = err
  /\ asking' = IF err = "empty" THEN WithMoreRoom(asking) ELSE asking
  /\ IF d \/ ~IsRetryable(err) \/ attempt > MaxAttempts
       THEN Return("error")
       ELSE /\ pc' = "backoff"
            /\ UNCHANGED result
  /\ UNCHANGED <<ask, attempt>>

(* An attempt failed after it delivered d: retry, or return the error.  An *)
(* empty answer doubles the budget either way.                              *)
Failed(err, d) ==
  /\ lastErr' = err
  /\ asking' = IF err = "empty" THEN WithMoreRoom(asking) ELSE asking
  /\ IF d \/ ~IsRetryable(err) \/ attempt = MaxAttempts
       THEN Return("error")
       ELSE /\ pc' = "backoff"
            /\ UNCHANGED result
  /\ UNCHANGED <<ask, attempt>>

(* A Chat or Stream begins with the request r. *)
Begin(r) == /\ asking' = r
            /\ attempt' = 1
            /\ lastErr' = "none"

FirstStep == [chat |-> "post", stream |-> "post", json |-> "ask", health |-> "ping"]

Init ==
  /\ call \in Calls
  /\ pc = "idle" /\ ctx = "live" /\ messages = 0
  /\ ask = 0 /\ asking = [tokens |-> 0, told |-> 0] /\ attempt = 1
  /\ delivered = FALSE /\ lastErr = "none" /\ out = {}
  /\ sent = <<>> /\ heard = {} /\ dones = 0 /\ result = "none"

Invoke ==
  /\ pc = "idle"
  /\ \E c \in Calls :
       /\ call' = c
       /\ pc' = FirstStep[c.kind]
       /\ Begin([tokens |-> c.tokens, told |-> 0])
  /\ ctx' = "live" /\ messages' = 0 /\ ask' = 0 /\ delivered' = FALSE
  /\ out' = {} /\ sent' = <<>> /\ heard' = {} /\ dones' = 0 /\ result' = "none"

----------------------------------------------------------------------------
\* The context

(* The caller hangs up. *)
Cancel ==
  /\ pc # "idle" /\ ctx = "live"
  /\ ctx' = "cancelled"
  /\ UNCHANGED <<inputs, loop, seen, pc, delivered, out, sent, result>>

(* The deadline the caller set passes. *)
Expire ==
  /\ pc # "idle" /\ ctx = "live" /\ call.deadline
  /\ ctx' = "expired"
  /\ UNCHANGED <<inputs, loop, seen, pc, delivered, out, sent, result>>

----------------------------------------------------------------------------
\* One attempt

(* Mutant of AskJSON: the instruction is written into the caller's messages. *)
AskJSONInPlace ==
  /\ pc = "ask"
  /\ ask' = ask + 1
  /\ messages' = messages + 1
  /\ Begin([tokens |-> AtLeast(call.tokens, JsonFloor), told |-> messages'])
  /\ pc' = "post"
  /\ UNCHANGED <<call, seen, ctx, delivered, out, sent, result>>

(* askJSON copies the messages and the request, so the second ask starts   *)
(* from the caller's own words and budget again.                            *)
AskJSON ==
  /\ pc = "ask"
  /\ ask' = ask + 1
  /\ Begin([tokens |-> AtLeast(call.tokens, JsonFloor), told |-> messages + 1])
  /\ pc' = "post"
  /\ UNCHANGED <<inputs, seen, ctx, delivered, out, sent, result>>

(* post: a context that is done keeps the request from leaving. *)
Post ==
  /\ pc = "post"
  /\ delivered' = FALSE
  /\ IF ctx = "live"
       THEN /\ sent' = Append(sent, [tokens |-> Body(asking.tokens), told |-> asking.told])
            /\ pc' = "waiting"
            /\ UNCHANGED <<loop, result>>
       ELSE /\ Failed(ctx, FALSE)
            /\ UNCHANGED sent
  /\ UNCHANGED <<inputs, seen, ctx, out>>

(* No connection, an HTTP error, a body that does not decode or reports an *)
(* error, no choices; an answer without content.                            *)
AttemptFails ==
  /\ pc = "waiting"
  /\ \E err \in {"failed", "status4xx", "status5xx", "empty"} : Failed(err, FALSE)
  /\ UNCHANGED <<inputs, seen, ctx, delivered, out, sent>>

(* Mutant of AttemptTimer: the client leaves the timing to its callers. *)
NoAttemptTimer == FALSE /\ UNCHANGED vars

(* ensureDeadline: without a deadline of the caller's an attempt has its own. *)
AttemptTimer ==
  /\ pc \in {"waiting", "reading"} /\ ~call.deadline
  /\ Failed("expired", delivered)
  /\ UNCHANGED <<inputs, seen, ctx, delivered, out, sent>>

(* The attempt notices that its context is done. *)
ContextEnds ==
  /\ pc \in {"waiting", "reading"} /\ ctx # "live"
  /\ Failed(ctx, delivered)
  /\ UNCHANGED <<inputs, seen, ctx, delivered, out, sent>>

(* sleepBackoff: when the timer and the context are both done, either wins. *)
Backoff ==
  /\ pc = "backoff"
  /\ \/ /\ attempt' = attempt + 1
        /\ pc' = "post"
        /\ UNCHANGED result
     \/ /\ ctx # "live"
        /\ Return("error")
        /\ UNCHANGED attempt
  /\ UNCHANGED <<inputs, ask, asking, lastErr, seen, ctx, delivered, out, sent>>

(* Chat has its answer.  JSON looks for a JSON value in it and decodes it  *)
(* into the caller's value, which a value of the wrong shape fills in part; *)
(* it asks once more when that fails.                                       *)
ChatAnswers ==
  /\ pc = "waiting" /\ call.kind # "stream"
  /\ \E content \in {"json", "misshapen", "prose"} :
       IF call.kind # "json"
         THEN /\ Return("ok")
              /\ UNCHANGED out
         ELSE /\ out' = IF content = "prose" THEN out ELSE out \cup {ask}
              /\ IF content = "json" THEN Return("ok")
                 ELSE IF ask = 2 THEN Return("error")
                 ELSE /\ pc' = "ask"
                      /\ UNCHANGED result
  /\ UNCHANGED <<inputs, loop, seen, ctx, delivered, sent>>

----------------------------------------------------------------------------
\* Streams

StreamOpens ==
  /\ pc = "waiting" /\ call.kind = "stream"
  /\ pc' = "reading"
  /\ UNCHANGED <<inputs, loop, seen, ctx, delivered, out, sent, result>>

(* A chunk reaches the caller's function, which takes it or refuses it.    *)
(* Reasoning alone is handed over too, and does not count as delivered.     *)
Chunk ==
  /\ pc = "reading"
  /\ \E content, taken \in BOOLEAN :
       /\ delivered' = (delivered \/ content)
       /\ heard' = IF content THEN heard \cup {attempt} ELSE heard
       /\ IF taken THEN UNCHANGED <<loop, pc, result>> ELSE Failed("abort", delivered')
  /\ UNCHANGED <<inputs, dones, ctx, out, sent>>

(* finish, at [DONE] or where the stream ends: an answer without content   *)
(* is the empty answer, any other is announced as complete.                 *)
StreamEnds ==
  /\ pc = "reading"
  /\ IF ~delivered
       THEN /\ Failed("empty", FALSE)
            /\ UNCHANGED dones
       ELSE /\ dones' = dones + 1
            /\ \/ Return("ok") /\ UNCHANGED loop
               \/ Failed("abort", TRUE)
  /\ UNCHANGED <<inputs, heard, ctx, delivered, out, sent>>

(* Mutant of StreamBreaks: a broken stream is always tried again. *)
StreamBreaksUnheard ==
  /\ pc = "reading"
  /\ Failed("failed", FALSE)
  /\ UNCHANGED <<inputs, seen, ctx, delivered, out, sent>>

StreamBreaks ==
  /\ pc = "reading"
  /\ Failed("failed", delivered)
  /\ UNCHANGED <<inputs, seen, ctx, delivered, out, sent>>

(* streamFallback: a server that does not stream answers in one piece.     *)
(* The piece may be blank, when the model says it was not cut short.        *)
PlainAnswer ==
  /\ pc = "waiting" /\ call.kind = "stream"
  /\ \E content \in BOOLEAN :
       /\ heard' = IF content THEN heard \cup {attempt} ELSE heard
       /\ \/ Failed("abort", FALSE) /\ UNCHANGED dones
          \/ Failed("abort", TRUE) /\ dones' = dones + 1
          \/ Return("ok") /\ dones' = dones + 1 /\ UNCHANGED loop
  /\ UNCHANGED <<inputs, ctx, delivered, out, sent>>

----------------------------------------------------------------------------
\* Health checks

(* pingModels is answered: done, or a chat is tried instead. *)
Ping ==
  /\ pc = "ping"
  /\ \/ Return("ok")
     \/ pc' = "post" /\ UNCHANGED result
  /\ UNCHANGED <<inputs, loop, seen, ctx, delivered, out, sent>>

PingEnds ==
  /\ pc = "ping" /\ ctx # "live"
  /\ pc' = "post"
  /\ UNCHANGED <<inputs, loop, seen, ctx, delivered, out, sent, result>>

Endpoint == AttemptFails \/ ChatAnswers \/ StreamOpens \/ Chunk \/ StreamEnds
              \/ StreamBreaks \/ PlainAnswer \/ Ping

Next == \/ Invoke \/ Cancel \/ Expire
        \/ AskJSON \/ Post \/ Backoff \/ AttemptTimer \/ ContextEnds \/ PingEnds
        \/ Endpoint

(* What the program does by itself, and the clocks.  The endpoint may stay *)
(* silent for ever, or stream for ever.                                     *)
Fairness == /\ WF_vars(AskJSON) /\ WF_vars(Post) /\ WF_vars(Backoff)
            /\ WF_vars(AttemptTimer) /\ WF_vars(Expire)
            /\ WF_vars(ContextEnds) /\ WF_vars(PingEnds)

Spec == Init /\ [][Next]_vars
FairSpec == Spec /\ Fairness

----------------------------------------------------------------------------
\* Properties

Request == [tokens : Nat, told : Nat]

(* Types of the client's state. *)
TypeOK ==
  /\ call \in Calls
  /\ pc \in {"idle", "ask", "ping", "post", "waiting", "reading", "backoff"}
  /\ ctx \in {"live", "cancelled", "expired"}
  /\ messages \in Nat /\ asking \in Request /\ sent \in Seq(Request)
  /\ ask \in 0 .. 2 /\ attempt \in 1 .. MaxAttempts
  /\ delivered \in BOOLEAN /\ lastErr \in Errors
  /\ out \subseteq 1 .. 2 /\ heard \subseteq 1 .. MaxAttempts /\ dones \in 0 .. 1
  /\ result \in {"none", "ok", "error"}

(* Whatever fails, and wherever in a stream, the caller hears the content  *)
(* of one attempt only, and is told at most once that it is complete; once *)
(* it has been told, or has refused something, the call is over, and a     *)
(* stream that succeeds has told it.                                        *)
OneVoice ==
  /\ heard \subseteq {attempt}
  /\ dones <= 1
  /\ dones = 1 \/ lastErr = "abort" => pc = "idle"
  /\ call.kind = "stream" /\ result = "ok" => dones = 1

(* Every request that leaves has room for the hidden reasoning and stays   *)
(* under the cap unless its caller asked for more; a JSON question carries *)
(* its instruction exactly once, whichever attempt or ask it is; and no    *)
(* call posts more than three requests for each time it asks.               *)
RequestsAreSound ==
  /\ \A i \in DOMAIN sent :
       /\ sent[i].tokens >= Floor
       /\ sent[i].tokens <= AtLeast(AtLeast(Cap, Floor), Budget(call.tokens))
       /\ call.kind = "json" => sent[i].tokens >= JsonFloor
       /\ sent[i].told = IF call.kind = "json" THEN 1 ELSE 0
  /\ Len(sent) <= MaxAttempts * (IF call.kind = "json" THEN ask ELSE 1)

(* An attempt after an empty answer has more room than the one before it,  *)
(* unless it is at the cap, or both are at the floor because the caller    *)
(* asked for no more than half of that (256 is sent as 512, and its double *)
(* as 512 again); after any other failure it is the same request again.     *)
RoomToAnswer ==
  [][LET old == sent[Len(sent)].tokens
         new == sent'[Len(sent')].tokens
     IN sent' # sent /\ sent' # <<>> /\ attempt > 1 =>
          IF lastErr = "empty"
            THEN new > old \/ new >= Cap \/ (new = Floor /\ 2 * Budget(call.tokens) <= Floor)
            ELSE new = old]_vars

(* Every call comes back, however long the endpoint is silent, because an  *)
(* attempt has a time limit even where the caller set none.                 *)
EveryCallEnds == pc # "idle" ~> pc = "idle"
=============================================================================

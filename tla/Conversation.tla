---------------------------- MODULE Conversation ----------------------------
(***************************************************************************)
(* One visitor's conversation with the assistant (internal/assistant), and *)
(* the feedback mined from it.                                              *)
(*                                                                         *)
(* A turn stores the visitor's message and answers with a bubble whose     *)
(* EventSource asks for the answer in a second request; an answer that is  *)
(* stored starts a goroutine that mines the conversation for feedback.     *)
(* An exchange is one such request and the goroutine it starts.  Nothing   *)
(* orders exchanges: tabs are used side by side, the EventSource connects  *)
(* again when its connection drops, and a mining pass takes long enough    *)
(* for the next one to start.                                               *)
(***************************************************************************)
EXTENDS Naturals, FiniteSets, Sequences

CONSTANTS
  Tabs,            \* browser tabs that show the conversation
  Complaints,      \* dedup keys: kind, theme and normalised verbatim
  Backend,         \* the store main opened: "sqlite" or "memory"
  TranscriptSize,  \* messages a mining pass reads (1200 tokens in the code)
  FeedbackLimit,   \* feedback rows it compares with (200 in the code)
  MaxExchanges, MaxTurns, MaxBatch, MaxOthers, MaxMishaps  \* bounds of the model

Silent == "nothing"   \* what a message says that holds no complaint

ASSUME ConversationAssumption ==
  /\ Silent \notin Complaints
  /\ Backend \in {"sqlite", "memory"}
  /\ TranscriptSize \in Nat \ {0} /\ FeedbackLimit \in Nat \ {0}
  /\ MaxExchanges \in Nat /\ MaxTurns \in Nat /\ MaxBatch \in Nat /\ MaxOthers \in Nat
  /\ MaxMishaps \in Nat

Exchanges == 1 .. MaxExchanges

VARIABLES
  messages,   \* the conversation's rows of the messages table
  feedback,   \* the feedback table, in creation order
  tab,        \* "idle", "bubble" (about to connect) or "waiting" for an answer
  pc,         \* the next step of each exchange
  client,     \* the tab that waits for an exchange; none, its context is cancelled
  transcript, \* the complaints a mining pass read
  batch,      \* what the model extracted and the pass has still to go through
  known,      \* the keys it takes for logged already
  base,       \* how many feedback rows there were when it listed them; none if that failed
  turns, others,  \* counters of the model's bounds
  mishaps     \* lost connections, failures of the model and restarts, so far

tables == <<messages, feedback>>
mining == <<transcript, batch, known, base>>
bounds == <<turns, others, mishaps>>
vars   == <<tables, tab, pc, client, mining, bounds>>

----------------------------------------------------------------------------
\* Values

(* A message: who wrote it, the complaint it holds, the exchange it answers *)
(* in (0 for the visitor's).                                                *)
Message == [role : {"user", "assistant"}, says : Complaints \cup {Silent},
            by : Exchanges \cup {0}]

(* A feedback row: its key, whether it is this conversation's, and, when a  *)
(* pass mined it, the exchange and the rows that exchange could have seen.  *)
Row == [key : Complaints, own : BOOLEAN, by : Exchanges \cup {0}, base : Nat]

(* trimHistory: the newest messages that fit; messages weigh the same here. *)
Recent(msgs) ==
  {msgs[i].says : i \in {k \in DOMAIN msgs : k + TranscriptSize > Len(msgs)}} \ {Silent}

(* ListFeedback with its limit, and the keys this conversation has in it. *)
KnownKeys(rows) ==
  {rows[i].key : i \in {k \in DOMAIN rows : k + FeedbackLimit > Len(rows) /\ rows[k].own}}

(* Mutant of Batches: an entry with a blank verbatim is not skipped. *)
BatchesWithBlanks == UNION {[1 .. n -> Complaints \cup {Silent}] : n \in 0 .. MaxBatch}

(* What the model may extract and Extract does not skip: complaints in any  *)
(* order, repeated, or invented.                                            *)
Batches == UNION {[1 .. n -> Complaints] : n \in 0 .. MaxBatch}

Init ==
  /\ messages = <<>> /\ feedback = <<>>
  /\ tab        = [t \in Tabs |-> "idle"]
  /\ pc         = [n \in Exchanges |-> "unused"]
  /\ client     = [n \in Exchanges |-> {}]
  /\ transcript = [n \in Exchanges |-> {}]
  /\ batch      = [n \in Exchanges |-> <<>>]
  /\ known      = [n \in Exchanges |-> {}]
  /\ base       = [n \in Exchanges |-> 0]
  /\ turns = 0 /\ others = 0 /\ mishaps = 0

Goto(n, label) == pc' = [pc EXCEPT ![n] = label]

Gone(n) == client[n] = {}

(* An exchange is over; what its goroutine held goes with it. *)
End(n) ==
  /\ Goto(n, "ended")
  /\ transcript' = [transcript EXCEPT ![n] = {}]
  /\ batch'      = [batch EXCEPT ![n] = <<>>]
  /\ known'      = [known EXCEPT ![n] = {}]
  /\ base'       = [base EXCEPT ![n] = 0]

(* A request begins: exchanges are numbered as they do. *)
Begin(t, label) ==
  \E n \in Exchanges :
    /\ pc[n] = "unused" /\ \A k \in Exchanges : k < n => pc[k] # "unused"
    /\ Goto(n, label)
    /\ client' = [client EXCEPT ![n] = {t}]
    /\ tab' = [tab EXCEPT ![t] = "waiting"]

(* It ends: "done" closes the EventSource, a posted message has its page. *)
Done(n) ==
  /\ tab' = [t \in Tabs |-> IF t \in client[n] THEN "idle" ELSE tab[t]]
  /\ client' = [client EXCEPT ![n] = {}]

Say(role, what, n) == messages' = Append(messages, [role |-> role, says |-> what, by |-> n])

----------------------------------------------------------------------------
\* The visitor

(* turn: the message is stored, the bubble is on the page. *)
Turn(t, what) ==
  /\ tab[t] = "idle" /\ turns < MaxTurns
  /\ Say("user", what, 0)
  /\ tab' = [tab EXCEPT ![t] = "bubble"]
  /\ turns' = turns + 1
  /\ UNCHANGED <<feedback, pc, client, mining, others, mishaps>>

(* The EventSource of a bubble connects: a request for stream begins. *)
Connect(t) ==
  /\ tab[t] = "bubble"
  /\ Begin(t, "stream")
  /\ UNCHANGED <<tables, mining, bounds>>

(* message, up to its call of the model: the fallback without streaming. *)
PostMessage(t, what) ==
  /\ tab[t] = "idle" /\ turns < MaxTurns
  /\ Begin(t, "chat")
  /\ Say("user", what, 0)
  /\ turns' = turns + 1
  /\ UNCHANGED <<feedback, mining, others, mishaps>>

(* The connection of an exchange is lost.  An EventSource tries again; a    *)
(* closed page, or a posted message, does not.                              *)
Drop(t) ==
  /\ mishaps < MaxMishaps
  /\ \E n \in Exchanges :
       /\ t \in client[n]
       /\ client' = [client EXCEPT ![n] = {}]
       /\ \/ tab' = [tab EXCEPT ![t] = "idle"]
          \/ pc[n] \in {"stream", "keep"} /\ tab' = [tab EXCEPT ![t] = "bubble"]
  /\ mishaps' = mishaps + 1
  /\ UNCHANGED <<tables, pc, mining, turns, others>>

(* feedback: the widget stores a row of this conversation as it is. *)
Widget(key) ==
  /\ others < MaxOthers
  /\ feedback' = Append(feedback, [key |-> key, own |-> TRUE, by |-> 0, base |-> 0])
  /\ others' = others + 1
  /\ UNCHANGED <<messages, tab, pc, client, mining, turns, mishaps>>

(* Another conversation logs feedback. *)
Elsewhere(key) ==
  /\ others < MaxOthers
  /\ feedback' = Append(feedback, [key |-> key, own |-> FALSE, by |-> 0, base |-> 0])
  /\ others' = others + 1
  /\ UNCHANGED <<messages, tab, pc, client, mining, turns, mishaps>>

----------------------------------------------------------------------------
\* The answer

(* The model answers; a stream that breaks off leaves what was said so far. *)
Answer(n) ==
  /\ \/ pc[n] = "stream" /\ Goto(n, "keep")
     \/ pc[n] = "chat" /\ ~Gone(n) /\ Goto(n, "keepChat")
  /\ UNCHANGED <<tables, tab, client, mining, bounds>>

(* No word of an answer: the client left, or the model failed and the page  *)
(* says so.                                                                 *)
NoAnswer(n) ==
  /\ pc[n] \in {"stream", "chat"}
  /\ \/ Gone(n) /\ UNCHANGED mishaps
     \/ mishaps < MaxMishaps /\ mishaps' = mishaps + 1
  /\ Goto(n, "ended")
  /\ Done(n)
  /\ UNCHANGED <<tables, mining, turns, others>>

(* Mutant of Keep: the answer is stored under the request's own context. *)
KeepWhileConnected(n) ==
  /\ pc[n] = "keep"
  /\ IF Gone(n) /\ Backend = "sqlite"
     THEN Goto(n, "ended") /\ UNCHANGED messages
     ELSE Goto(n, "mine") /\ Say("assistant", Silent, n)
  /\ Done(n)
  /\ UNCHANGED <<feedback, mining, bounds>>

(* The end of stream: stored under a detached context, mined in background. *)
Keep(n) ==
  /\ pc[n] = "keep"
  /\ Say("assistant", Silent, n)
  /\ Goto(n, "mine")
  /\ Done(n)
  /\ UNCHANGED <<feedback, mining, bounds>>

(* The end of message: stored under the request's context, which SQLite     *)
(* refuses once it is cancelled; then there is nothing to mine.             *)
KeepChat(n) ==
  /\ pc[n] = "keepChat"
  /\ IF Gone(n) /\ Backend = "sqlite"
     THEN Goto(n, "ended") /\ UNCHANGED messages
     ELSE Goto(n, "mine") /\ Say("assistant", Silent, n)
  /\ Done(n)
  /\ UNCHANGED <<feedback, mining, bounds>>

----------------------------------------------------------------------------
\* Extract, one action per call

ReadTurns(n) ==
  /\ pc[n] = "mine"
  /\ transcript' = [transcript EXCEPT ![n] = Recent(messages)]
  /\ Goto(n, "extract")
  /\ UNCHANGED <<tables, tab, client, batch, known, base, bounds>>

(* The model names what it finds; leaving out a complaint is a failure. *)
AskModel(n) ==
  /\ pc[n] = "extract"
  /\ \E b \in Batches :
       /\ IF \A c \in transcript[n] : \E k \in DOMAIN b : b[k] = c
          THEN UNCHANGED mishaps
          ELSE mishaps < MaxMishaps /\ mishaps' = mishaps + 1
       /\ IF b = <<>> THEN End(n)
          ELSE /\ Goto(n, "compare")
               /\ batch' = [batch EXCEPT ![n] = b]
               /\ UNCHANGED <<transcript, known, base>>
  /\ UNCHANGED <<tables, tab, client, turns, others>>

ListExisting(n) ==
  /\ pc[n] = "compare"
  /\ known' = [known EXCEPT ![n] = KnownKeys(feedback)]
  /\ base'  = [base EXCEPT ![n] = Len(feedback)]
  /\ Goto(n, "log")
  /\ UNCHANGED <<tables, tab, client, transcript, batch, bounds>>

(* The listing fails, which Extract does not look at: it knows of nothing. *)
ListingFails(n) ==
  /\ pc[n] = "compare" /\ Backend = "sqlite"
  /\ mishaps < MaxMishaps
  /\ mishaps' = mishaps + 1
  /\ known' = [known EXCEPT ![n] = {}] /\ base' = [base EXCEPT ![n] = 0]
  /\ Goto(n, "log")
  /\ UNCHANGED <<tables, tab, client, transcript, batch, turns, others>>

(* Mutant of Log: a key it stores is not remembered. *)
LogForgetful(n) ==
  /\ pc[n] = "log"
  /\ IF batch[n] = <<>> THEN End(n) /\ UNCHANGED feedback
     ELSE LET key == Head(batch[n])
          IN  /\ batch' = [batch EXCEPT ![n] = Tail(@)]
              /\ UNCHANGED <<pc, transcript, known, base>>
              /\ IF key \in known[n] THEN UNCHANGED feedback
                 ELSE feedback' = Append(feedback, [key |-> key, own |-> TRUE, by |-> n,
                                                    base |-> base[n]])
  /\ UNCHANGED <<messages, tab, client, bounds>>

(* Mutant of Log: the first known key ends the pass. *)
LogStopsAtKnown(n) ==
  /\ pc[n] = "log"
  /\ IF batch[n] = <<>> \/ Head(batch[n]) \in known[n] THEN End(n) /\ UNCHANGED feedback
     ELSE LET key == Head(batch[n])
          IN  /\ batch' = [batch EXCEPT ![n] = Tail(@)]
              /\ known' = [known EXCEPT ![n] = @ \cup {key}]
              /\ UNCHANGED <<pc, transcript, base>>
              /\ feedback' = Append(feedback, [key |-> key, own |-> TRUE, by |-> n,
                                               base |-> base[n]])
  /\ UNCHANGED <<messages, tab, client, bounds>>

(* One CreateFeedback of Extract's loop, unless the key is known. *)
Log(n) ==
  /\ pc[n] = "log"
  /\ IF batch[n] = <<>> THEN End(n) /\ UNCHANGED feedback
     ELSE LET key == Head(batch[n])
          IN  /\ batch' = [batch EXCEPT ![n] = Tail(@)]
              /\ known' = [known EXCEPT ![n] = @ \cup {key}]
              /\ UNCHANGED <<pc, transcript, base>>
              /\ IF key \in known[n] THEN UNCHANGED feedback
                 ELSE feedback' = Append(feedback, [key |-> key, own |-> TRUE, by |-> n,
                                                    base |-> base[n]])
  /\ UNCHANGED <<messages, tab, client, bounds>>

(* A pass gives up: the model fails, or its 45 seconds are over, which      *)
(* Memory does not notice.                                                  *)
GiveUp(n) ==
  /\ pc[n] \in IF Backend = "sqlite" THEN {"mine", "extract", "compare", "log"} ELSE {"extract"}
  /\ mishaps < MaxMishaps
  /\ mishaps' = mishaps + 1
  /\ End(n)
  /\ UNCHANGED <<tables, tab, client, turns, others>>

(* The process dies and starts again; pages that wait connect again. *)
Crash ==
  /\ mishaps < MaxMishaps
  /\ mishaps' = mishaps + 1
  /\ messages' = IF Backend = "memory" THEN <<>> ELSE messages
  /\ feedback' = IF Backend = "memory" THEN <<>> ELSE feedback
  /\ pc' = [n \in Exchanges |-> IF pc[n] = "unused" THEN "unused" ELSE "ended"]
  /\ transcript' = [n \in Exchanges |-> {}] /\ batch' = [n \in Exchanges |-> <<>>]
  /\ known' = [n \in Exchanges |-> {}] /\ base' = [n \in Exchanges |-> 0]
  /\ client' = [n \in Exchanges |-> {}]
  /\ tab' = [t \in Tabs |->
               IF \E n \in Exchanges : t \in client[n] /\ pc[n] \in {"stream", "keep"}
               THEN "bubble"
               ELSE IF tab[t] = "waiting" THEN "idle" ELSE tab[t]]
  /\ UNCHANGED <<turns, others>>

----------------------------------------------------------------------------
\* Specification

Step(n) ==
  \/ Answer(n) \/ NoAnswer(n) \/ Keep(n) \/ KeepChat(n)
  \/ ReadTurns(n) \/ AskModel(n) \/ ListExisting(n) \/ ListingFails(n)
  \/ Log(n) \/ GiveUp(n)

Next ==
  \/ \E t \in Tabs : Connect(t) \/ Drop(t)
  \/ \E t \in Tabs, what \in Complaints \cup {Silent} : Turn(t, what) \/ PostMessage(t, what)
  \/ \E key \in Complaints : Widget(key) \/ Elsewhere(key)
  \/ \E n \in Exchanges : Step(n)
  \/ Crash

Spec == Init /\ [][Next]_vars

(* Goroutines are scheduled, the model answers or times out, and a page     *)
(* that stays open connects its EventSource.                                *)
Fairness ==
  /\ \A n \in Exchanges : WF_vars(Step(n))
  /\ \A t \in Tabs : WF_vars(Connect(t))

FairSpec == Spec /\ Fairness

----------------------------------------------------------------------------
\* Properties

TypeOK ==
  /\ messages \in Seq(Message) /\ feedback \in Seq(Row)
  /\ tab \in [Tabs -> {"idle", "bubble", "waiting"}]
  /\ pc \in [Exchanges -> {"unused", "stream", "chat", "keep", "keepChat", "mine", "extract",
                           "compare", "log", "ended"}]
  /\ client \in [Exchanges -> SUBSET Tabs]
  /\ transcript \in [Exchanges -> SUBSET Complaints]
  /\ batch \in [Exchanges -> Seq(Complaints)]
  /\ known \in [Exchanges -> SUBSET Complaints]
  /\ base \in [Exchanges -> Nat]
  /\ turns \in Nat /\ others \in Nat /\ mishaps \in Nat

(* "skips anything that duplicates feedback already logged for this         *)
(* conversation": a mined row repeats no row of the conversation.           *)
NoDuplicates ==
  \A i, j \in DOMAIN feedback :
    i < j /\ feedback[i].own /\ feedback[j].by # 0 => feedback[i].key # feedback[j].key

(* As far as that goes: a mined row repeats only rows of somebody else that *)
(* were logged after its pass looked, or that lay beyond the limit; or its  *)
(* pass could not look.                                                     *)
DuplicatesWereOutOfSight ==
  \A i, j \in DOMAIN feedback :
    i < j /\ feedback[i].own /\ feedback[j].by # 0 /\ feedback[i].key = feedback[j].key =>
      \/ i > feedback[j].base /\ feedback[i].by # feedback[j].by
      \/ i + FeedbackLimit <= feedback[j].base

(* "the client may already be gone, but the answer we just generated is     *)
(* still worth keeping": unless the process dies, it is kept.               *)
AnswerIsKept ==
  \A n \in Exchanges :
    (pc[n] = "keep" /\ mishaps = MaxMishaps)
      ~> (\E i \in DOMAIN messages : messages[i].by = n)

(* A complaint a mining pass has read is logged in the end, whatever else   *)
(* the model makes up or others log, if nothing fails from then on.         *)
Logged(c) == \E i \in DOMAIN feedback : feedback[i].key = c /\ feedback[i].own
MinedComplaintIsLogged ==
  \A n \in Exchanges, c \in Complaints :
    (c \in transcript[n] /\ pc[n] = "extract" /\ mishaps = MaxMishaps) ~> Logged(c)
============================================================================

------------------------- MODULE ConversationProofs -------------------------
(***************************************************************************)
(* For every number of tabs, complaints, exchanges and mishaps, and for    *)
(* either store: a conversation keeps its types, and a mining pass repeats *)
(* a logged complaint only where it could not have seen it.                 *)
(***************************************************************************)
EXTENDS Conversation, SequenceTheorems, TLAPS

----------------------------------------------------------------------------
\* Values

(* What a pass reads of a conversation is complaints. *)
LEMMA RecentType ==
  ASSUME NEW msgs \in Seq(Message)
  PROVE  Recent(msgs) \subseteq Complaints
<1>1. \A i \in DOMAIN msgs : msgs[i] \in Message
  OBVIOUS
<1>2. \A i \in DOMAIN msgs : msgs[i].says \in Complaints \cup {Silent}
  BY <1>1 DEF Message
<1> QED
  BY <1>2 DEF Recent

(* What it compares with is complaints, among them those of all the        *)
(* conversation's rows within the limit.                                    *)
LEMMA KnownKeysType ==
  ASSUME NEW rows \in Seq(Row)
  PROVE  /\ KnownKeys(rows) \subseteq Complaints
         /\ \A i \in DOMAIN rows :
              rows[i].own /\ i + FeedbackLimit > Len(rows) => rows[i].key \in KnownKeys(rows)
<1>1. \A i \in DOMAIN rows : rows[i] \in Row
  OBVIOUS
<1>2. \A i \in DOMAIN rows : rows[i].key \in Complaints
  BY <1>1 DEF Row
<1> QED
  BY <1>2 DEF KnownKeys

(* What the model extracts is a sequence of complaints. *)
LEMMA BatchesType ==
  ASSUME NEW b \in Batches
  PROVE  b \in Seq(Complaints)
<1>1. PICK n \in 0 .. MaxBatch : b \in [1 .. n -> Complaints]
  BY DEF Batches
<1> QED
  BY <1>1, ConversationAssumption

(* A message that is stored comes last. *)
LEMMA SayType ==
  ASSUME messages \in Seq(Message), NEW role \in {"user", "assistant"},
         NEW what \in Complaints \cup {Silent}, NEW n \in Exchanges \cup {0}, Say(role, what, n)
  PROVE  messages' \in Seq(Message)
<1>1. [role |-> role, says |-> what, by |-> n] \in Message
  BY DEF Message
<1> QED
  BY <1>1, AppendProperties DEF Say

(* So does a row of feedback. *)
LEMMA RowType ==
  ASSUME feedback \in Seq(Row), NEW row \in Row, feedback' = Append(feedback, row)
  PROVE  /\ feedback' \in Seq(Row) /\ Len(feedback') = Len(feedback) + 1
         /\ \A i \in DOMAIN feedback : i \in DOMAIN feedback' /\ feedback'[i] = feedback[i]
         /\ feedback'[Len(feedback')] = row
         /\ \A i \in DOMAIN feedback' : i \in DOMAIN feedback \/ i = Len(feedback')
BY AppendProperties

----------------------------------------------------------------------------
\* Types

Labels == {"unused", "stream", "chat", "keep", "keepChat", "mine", "extract", "compare", "log", "ended"}

(* The types of an exchange's own variables. *)
MiningOK ==
  /\ transcript \in [Exchanges -> SUBSET Complaints] /\ batch \in [Exchanges -> Seq(Complaints)]
  /\ known \in [Exchanges -> SUBSET Complaints] /\ base \in [Exchanges -> Nat]

(* Moving on, and the end of an exchange, keep types. *)
LEMMA GotoType ==
  ASSUME TypeOK, NEW n \in Exchanges, NEW label \in Labels, Goto(n, label)
  PROVE  pc' \in [Exchanges -> Labels]
BY DEF TypeOK, Goto, Labels

LEMMA EndType ==
  ASSUME TypeOK, NEW n \in Exchanges, End(n)
  PROVE  pc' \in [Exchanges -> Labels] /\ MiningOK'
BY GotoType DEF TypeOK, End, MiningOK, Labels

LEMMA DoneType ==
  ASSUME TypeOK, NEW n \in Exchanges, Done(n)
  PROVE  tab' \in [Tabs -> {"idle", "bubble", "waiting"}] /\ client' \in [Exchanges -> SUBSET Tabs]
BY DEF TypeOK, Done

LEMMA BeginType ==
  ASSUME TypeOK, NEW t \in Tabs, NEW label \in Labels, Begin(t, label)
  PROVE  /\ tab' \in [Tabs -> {"idle", "bubble", "waiting"}] /\ client' \in [Exchanges -> SUBSET Tabs]
         /\ pc' \in [Exchanges -> Labels]
<1>1. PICK n \in Exchanges : /\ Goto(n, label) /\ client' = [client EXCEPT ![n] = {t}]
                             /\ tab' = [tab EXCEPT ![t] = "waiting"]
  BY DEF Begin
<1> QED
  BY <1>1, GotoType DEF TypeOK

----------------------------------------------------------------------------
\* What a pass remembers

(* A pass that has not listed the feedback yet has logged nothing; once it *)
(* has, it knows what it saw of the conversation, and all that it logged.   *)
Remembers ==
  \A n \in Exchanges :
    /\ pc[n] \notin {"log", "ended"} => \A i \in DOMAIN feedback : feedback[i].by # n
    /\ pc[n] = "log" =>
         /\ base[n] <= Len(feedback)
         /\ \A i \in DOMAIN feedback :
              \/ feedback[i].by = n
              \/ feedback[i].own /\ i <= base[n] /\ i + FeedbackLimit > base[n]
              => feedback[i].key \in known[n]

(* The inductive invariant. *)
IInv == TypeOK /\ Remembers /\ DuplicatesWereOutOfSight

(* Nothing is logged, and a pass that is not at its loop stays outside it, *)
(* or ends.                                                                 *)
LEMMA NothingLogged ==
  ASSUME Remembers, DuplicatesWereOutOfSight, UNCHANGED feedback,
         \A n \in Exchanges :
           \/ pc'[n] = "ended"
           \/ pc[n] = pc'[n] /\ UNCHANGED <<known[n], base[n]>>
           \/ pc[n] \notin {"log", "ended"} /\ pc'[n] # "log"
  PROVE  Remembers' /\ DuplicatesWereOutOfSight'
<1>1. DuplicatesWereOutOfSight'
  BY DEF DuplicatesWereOutOfSight
<1>2. ASSUME NEW n \in Exchanges
      PROVE  /\ pc'[n] \notin {"log", "ended"} => \A i \in DOMAIN feedback : feedback[i].by # n
             /\ pc'[n] = "log" => pc[n] = "log" /\ UNCHANGED <<known[n], base[n]>>
  BY DEF Remembers
<1>3. Remembers'
  BY <1>2 DEF Remembers
<1> QED
  BY <1>1, <1>3

(* Somebody who is not a pass logs a row. *)
LEMMA OthersLog ==
  ASSUME TypeOK, Remembers, DuplicatesWereOutOfSight, NEW row \in Row, row.by = 0,
         feedback' = Append(feedback, row), UNCHANGED <<pc, known, base>>
  PROVE  feedback' \in Seq(Row) /\ Remembers' /\ DuplicatesWereOutOfSight'
<1>1. /\ feedback \in Seq(Row) /\ Len(feedback) \in Nat /\ base \in [Exchanges -> Nat]
  BY DEF TypeOK
<1>2. /\ feedback' \in Seq(Row) /\ Len(feedback') = Len(feedback) + 1
      /\ \A i \in DOMAIN feedback : i \in DOMAIN feedback' /\ feedback'[i] = feedback[i]
      /\ feedback'[Len(feedback')] = row
      /\ \A i \in DOMAIN feedback' : i \in DOMAIN feedback \/ i = Len(feedback')
  BY <1>1, RowType
<1>3. Remembers'
  <2>1. 0 \notin Exchanges
    BY ConversationAssumption DEF Exchanges
  <2> SUFFICES ASSUME NEW n \in Exchanges
               PROVE  /\ pc[n] \notin {"log", "ended"} => \A i \in DOMAIN feedback' : feedback'[i].by # n
                      /\ pc[n] = "log" =>
                           /\ base[n] <= Len(feedback')
                           /\ \A i \in DOMAIN feedback' :
                                \/ feedback'[i].by = n
                                \/ feedback'[i].own /\ i <= base[n] /\ i + FeedbackLimit > base[n]
                                => feedback'[i].key \in known[n]
    BY DEF Remembers
  <2>2. pc[n] \notin {"log", "ended"} => \A i \in DOMAIN feedback' : feedback'[i].by # n
    BY <1>2, <2>1 DEF Remembers
  <2>3. ASSUME pc[n] = "log"
        PROVE  /\ base[n] <= Len(feedback')
               /\ \A i \in DOMAIN feedback' :
                    \/ feedback'[i].by = n
                    \/ feedback'[i].own /\ i <= base[n] /\ i + FeedbackLimit > base[n]
                    => feedback'[i].key \in known[n]
    <3>1. base[n] <= Len(feedback) /\ base[n] \in Nat
      BY <1>1, <2>3 DEF Remembers
    <3>2. ASSUME NEW i \in DOMAIN feedback',
                 \/ feedback'[i].by = n
                 \/ feedback'[i].own /\ i <= base[n] /\ i + FeedbackLimit > base[n]
          PROVE  feedback'[i].key \in known[n]
      <4>1. i \in DOMAIN feedback
        BY <1>1, <1>2, <2>1, <3>1, <3>2
      <4> QED
        BY <1>2, <2>3, <3>2, <4>1 DEF Remembers
    <3> QED
      BY <1>1, <1>2, <3>1, <3>2
  <2> QED
    BY <2>2, <2>3
<1>4. DuplicatesWereOutOfSight'
  BY <1>1, <1>2 DEF DuplicatesWereOutOfSight
<1> QED
  BY <1>2, <1>3, <1>4

----------------------------------------------------------------------------
\* The visitor and others

LEMMA IInvInit == Init => IInv
BY ConversationAssumption DEF Init, IInv, TypeOK, Remembers, DuplicatesWereOutOfSight, Exchanges

(* The visitor's own steps log nothing through a pass. *)
LEMMA VisitorNext ==
  ASSUME IInv, NEW t \in Tabs, NEW what \in Complaints \cup {Silent},
         Turn(t, what) \/ PostMessage(t, what) \/ Connect(t) \/ Drop(t)
  PROVE  IInv'
<1> USE DEF IInv
<1>1. UNCHANGED <<feedback, mining>>
  BY DEF Turn, PostMessage, Connect, Drop, tables
<1>2. TypeOK'
  <2>1. CASE Turn(t, what)
    <3>1. messages' \in Seq(Message)
      BY <2>1, SayType DEF Turn, TypeOK
    <3> QED
      BY <1>1, <2>1, <3>1 DEF Turn, TypeOK, mining
  <2>2. CASE PostMessage(t, what)
    <3>1. messages' \in Seq(Message)
      BY <2>2, SayType DEF PostMessage, TypeOK
    <3> QED
      BY <1>1, <2>2, <3>1, BeginType DEF PostMessage, TypeOK, mining, Labels
  <2>3. CASE Connect(t)
    BY <1>1, <2>3, BeginType DEF Connect, TypeOK, tables, mining, bounds, Labels
  <2>4. CASE Drop(t)
    BY <1>1, <2>4 DEF Drop, TypeOK, tables, mining
  <2> QED
    BY <2>1, <2>2, <2>3, <2>4
<1>3. \A n \in Exchanges : \/ pc[n] = pc'[n]
                           \/ pc[n] = "unused" /\ pc'[n] # "log"
  BY DEF Turn, PostMessage, Connect, Drop, Begin, Goto, TypeOK
<1> QED
  BY <1>1, <1>2, <1>3, NothingLogged DEF mining

(* Rows of the widget and of other conversations are nobody's pass. *)
LEMMA OthersNext ==
  ASSUME IInv, NEW key \in Complaints, Widget(key) \/ Elsewhere(key)
  PROVE  IInv'
<1>1. PICK own \in BOOLEAN :
        feedback' = Append(feedback, [key |-> key, own |-> own, by |-> 0, base |-> 0])
  BY DEF Widget, Elsewhere
<1> DEFINE row == [key |-> key, own |-> own, by |-> 0, base |-> 0]
<1>2. row \in Row /\ row.by = 0
  BY DEF Row
<1>3. UNCHANGED <<messages, tab, pc, client, mining, turns, mishaps>> /\ others' = others + 1
  BY DEF Widget, Elsewhere
<1>4. feedback' \in Seq(Row) /\ Remembers' /\ DuplicatesWereOutOfSight'
  BY <1>1, <1>2, <1>3, OthersLog DEF IInv, mining
<1>5. TypeOK'
  BY <1>3, <1>4 DEF IInv, TypeOK, mining
<1> QED
  BY <1>4, <1>5 DEF IInv

----------------------------------------------------------------------------
\* Exchanges

(* An answer, or none, and what is stored of it. *)
LEMMA AnswerNext ==
  ASSUME IInv, NEW n \in Exchanges, Answer(n) \/ NoAnswer(n) \/ Keep(n) \/ KeepChat(n)
  PROVE  IInv'
<1> USE DEF IInv
<1>1. UNCHANGED <<feedback, mining>>
  BY DEF Answer, NoAnswer, Keep, KeepChat, tables
<1>2. TypeOK'
  <2>1. CASE Answer(n)
    BY <1>1, <2>1, GotoType DEF Answer, TypeOK, tables, mining, bounds, Labels
  <2>2. CASE NoAnswer(n)
    BY <1>1, <2>2, GotoType, DoneType DEF NoAnswer, TypeOK, tables, mining, Labels
  <2>3. CASE Keep(n)
    <3>1. messages' \in Seq(Message)
      BY <2>3, SayType DEF Keep, TypeOK
    <3> QED
      BY <1>1, <2>3, <3>1, GotoType, DoneType DEF Keep, TypeOK, mining, bounds, Labels
  <2>4. CASE KeepChat(n)
    <3>1. messages' \in Seq(Message)
      BY <2>4, SayType DEF KeepChat, TypeOK
    <3> QED
      BY <1>1, <2>4, <3>1, GotoType, DoneType DEF KeepChat, TypeOK, mining, bounds, Labels
  <2> QED
    BY <2>1, <2>2, <2>3, <2>4
<1>3. \A k \in Exchanges : \/ pc[k] = pc'[k]
                           \/ pc[k] \notin {"log", "ended"} /\ pc'[k] # "log"
  BY DEF Answer, NoAnswer, Keep, KeepChat, Goto, TypeOK
<1> QED
  BY <1>1, <1>2, <1>3, NothingLogged DEF mining

(* Extract, until it lists what is logged, and when it gives up. *)
LEMMA ReadingNext ==
  ASSUME IInv, NEW n \in Exchanges, ReadTurns(n) \/ AskModel(n) \/ GiveUp(n)
  PROVE  IInv'
<1> USE DEF IInv
<1>1. UNCHANGED <<messages, feedback, tab, client, turns, others>> /\ mishaps' \in Nat
  BY DEF ReadTurns, AskModel, GiveUp, TypeOK, tables, bounds
<1>2. pc' \in [Exchanges -> Labels] /\ MiningOK'
  <2>1. CASE ReadTurns(n)
    <3>1. Recent(messages) \subseteq Complaints
      BY RecentType DEF TypeOK
    <3> QED
      BY <2>1, <3>1, GotoType DEF ReadTurns, TypeOK, MiningOK, Labels
  <2>2. CASE AskModel(n)
    <3>1. PICK b \in Batches :
            \/ End(n)
            \/ /\ Goto(n, "compare") /\ batch' = [batch EXCEPT ![n] = b]
               /\ UNCHANGED <<transcript, known, base>>
      BY <2>2 DEF AskModel
    <3>2. CASE End(n)
      BY <3>2, EndType
    <3>3. CASE /\ Goto(n, "compare") /\ batch' = [batch EXCEPT ![n] = b]
               /\ UNCHANGED <<transcript, known, base>>
      BY <3>3, GotoType, BatchesType DEF TypeOK, MiningOK, Labels
    <3> QED
      BY <3>1, <3>2, <3>3
  <2>3. CASE GiveUp(n)
    BY <2>3, EndType DEF GiveUp
  <2> QED
    BY <2>1, <2>2, <2>3
<1>3. TypeOK'
  BY <1>1, <1>2 DEF TypeOK, MiningOK, Labels
<1>4. ASSUME NEW k \in Exchanges
      PROVE  \/ pc'[k] = "ended"
             \/ pc[k] = pc'[k] /\ UNCHANGED <<known[k], base[k]>>
             \/ pc[k] \notin {"log", "ended"} /\ pc'[k] # "log"
  <2>1. CASE ReadTurns(n)
    BY <2>1 DEF ReadTurns, Goto, TypeOK
  <2>2. CASE AskModel(n)
    BY <2>2 DEF AskModel, Goto, End, TypeOK
  <2>3. CASE GiveUp(n)
    BY <2>3 DEF GiveUp, Goto, End, TypeOK
  <2> QED
    BY <2>1, <2>2, <2>3
<1> QED
  BY <1>1, <1>3, <1>4, NothingLogged

(* A pass lists what is logged and knows what it sees, or cannot list it   *)
(* and knows of nothing.                                                    *)
LEMMA ListNext ==
  ASSUME IInv, NEW n \in Exchanges, ListExisting(n) \/ ListingFails(n)
  PROVE  IInv'
<1> USE DEF IInv
<1>1. /\ UNCHANGED <<tables, tab, client, transcript, batch, turns, others>>
      /\ mishaps' \in Nat
      /\ pc[n] = "compare" /\ pc' = [pc EXCEPT ![n] = "log"]
  BY DEF ListExisting, ListingFails, Goto, bounds, TypeOK
<1>2. /\ feedback \in Seq(Row) /\ Len(feedback) \in Nat /\ KnownKeys(feedback) \subseteq Complaints
      /\ \A i \in DOMAIN feedback :
           feedback[i].own /\ i + FeedbackLimit > Len(feedback) => feedback[i].key \in KnownKeys(feedback)
  BY KnownKeysType DEF TypeOK
<1>3. PICK keys \in SUBSET Complaints, seen \in 0 .. Len(feedback) :
        /\ known' = [known EXCEPT ![n] = keys] /\ base' = [base EXCEPT ![n] = seen]
        /\ \A i \in DOMAIN feedback :
             feedback[i].own /\ i <= seen /\ i + FeedbackLimit > seen => feedback[i].key \in keys
  <2>1. CASE ListExisting(n)
    <3>1. KnownKeys(feedback) \in SUBSET Complaints /\ Len(feedback) \in 0 .. Len(feedback)
      BY <1>2
    <3>2. /\ known' = [known EXCEPT ![n] = KnownKeys(feedback)]
          /\ base' = [base EXCEPT ![n] = Len(feedback)]
      BY <2>1 DEF ListExisting
    <3> QED
      BY <1>2, <3>1, <3>2
  <2>2. CASE ListingFails(n)
    <3>1. {} \in SUBSET Complaints /\ 0 \in 0 .. Len(feedback)
      BY <1>2
    <3>2. known' = [known EXCEPT ![n] = {}] /\ base' = [base EXCEPT ![n] = 0]
      BY <2>2 DEF ListingFails
    <3>3. \A i \in DOMAIN feedback : ~(i <= 0)
      BY <1>2
    <3> QED
      BY <3>1, <3>2, <3>3
  <2> QED
    BY <2>1, <2>2
<1>4. TypeOK'
  BY <1>1, <1>2, <1>3 DEF TypeOK, tables
<1>5. Remembers'
  <2>1. ASSUME NEW k \in Exchanges, k # n
        PROVE  UNCHANGED <<pc[k], known[k], base[k]>>
    BY <1>1, <1>3, <2>1 DEF TypeOK
  <2>2. pc'[n] = "log" /\ known'[n] = keys /\ base'[n] = seen
    BY <1>1, <1>3 DEF TypeOK
  <2>3. \A i \in DOMAIN feedback : feedback[i].by # n
    BY <1>1 DEF Remembers
  <2>4. UNCHANGED feedback
    BY <1>1 DEF tables
  <2> QED
    BY <1>2, <1>3, <2>1, <2>2, <2>3, <2>4 DEF Remembers
<1>6. DuplicatesWereOutOfSight'
  BY <1>1 DEF DuplicatesWereOutOfSight, tables
<1> QED
  BY <1>4, <1>5, <1>6

(* A pass logs what it does not know, and a row that it repeats is not     *)
(* among those it listed, nor its own.                                      *)
LEMMA LogNext ==
  ASSUME IInv, NEW n \in Exchanges, Log(n)
  PROVE  IInv'
<1> USE DEF IInv
<1>1. pc[n] = "log" /\ UNCHANGED <<messages, tab, client, bounds>>
  BY DEF Log
<1>2. CASE End(n) /\ UNCHANGED feedback
  <2>1. TypeOK'
    BY <1>1, <1>2, EndType DEF TypeOK, MiningOK, Labels, bounds
  <2>2. \A k \in Exchanges : pc'[k] = "ended" \/ (pc[k] = pc'[k] /\ UNCHANGED <<known[k], base[k]>>)
    BY <1>2 DEF End, Goto, TypeOK
  <2> QED
    BY <1>2, <2>1, <2>2, NothingLogged
<1>3. CASE batch[n] # <<>>
  <2> DEFINE key == Head(batch[n])
             row == [key |-> key, own |-> TRUE, by |-> n, base |-> base[n]]
  <2>1. /\ batch' = [batch EXCEPT ![n] = Tail(batch[n])]
        /\ known' = [known EXCEPT ![n] = known[n] \cup {key}]
        /\ UNCHANGED <<pc, transcript, base>>
        /\ IF key \in known[n] THEN UNCHANGED feedback ELSE feedback' = Append(feedback, row)
    BY <1>3 DEF Log
  <2>2. batch[n] \in Seq(Complaints)
    BY DEF TypeOK
  <2>3. key \in Complaints /\ Tail(batch[n]) \in Seq(Complaints)
    BY <1>3, <2>2, HeadTailProperties
  <2>4. row \in Row
    BY <2>3 DEF Row, TypeOK
  <2>5. /\ batch' \in [Exchanges -> Seq(Complaints)] /\ known' \in [Exchanges -> SUBSET Complaints]
        /\ \A k \in Exchanges : known'[k] = IF k = n THEN known[n] \cup {key} ELSE known[k]
    BY <2>1, <2>3 DEF TypeOK
  <2>6. feedback \in Seq(Row) /\ Len(feedback) \in Nat /\ base \in [Exchanges -> Nat]
    BY DEF TypeOK
  <2> HIDE DEF key
  <2>7. CASE key \in known[n]
    <3>1. UNCHANGED feedback
      BY <2>1, <2>7
    <3>2. TypeOK'
      BY <1>1, <2>1, <2>5, <3>1 DEF TypeOK, bounds
    <3>3. \A k \in Exchanges : UNCHANGED <<pc[k], known[k], base[k]>>
      BY <2>1, <2>5, <2>7
    <3> QED
      BY <3>1, <3>2, <3>3, NothingLogged
  <2>8. CASE key \notin known[n]
    <3>1. feedback' = Append(feedback, row)
      BY <2>1, <2>8
    <3> HIDE DEF row
    <3>2. /\ feedback' \in Seq(Row) /\ Len(feedback') = Len(feedback) + 1
          /\ \A i \in DOMAIN feedback : i \in DOMAIN feedback' /\ feedback'[i] = feedback[i]
          /\ feedback'[Len(feedback')] = row
          /\ \A i \in DOMAIN feedback' : i \in DOMAIN feedback \/ i = Len(feedback')
      BY <2>4, <2>6, <3>1, RowType
    <3>3. row.key = key /\ row.own = TRUE /\ row.by = n /\ row.base = base[n]
      BY DEF row
    <3>4. TypeOK'
      BY <1>1, <2>1, <2>5, <3>2 DEF TypeOK, bounds
    <3>5. ASSUME NEW i \in DOMAIN feedback, feedback[i].own, feedback[i].key = key
          PROVE  (i > base[n] /\ feedback[i].by # n) \/ i + FeedbackLimit <= base[n]
      <4>1. feedback[i].by # n /\ ~(i <= base[n] /\ i + FeedbackLimit > base[n])
        BY <1>1, <2>8, <3>5 DEF Remembers
      <4> QED
        BY <2>6, <4>1, ConversationAssumption
    <3>6. DuplicatesWereOutOfSight'
      BY <2>6, <3>2, <3>3, <3>5 DEF DuplicatesWereOutOfSight
    <3>7. ASSUME NEW k \in Exchanges
          PROVE  /\ pc[k] \notin {"log", "ended"} => \A i \in DOMAIN feedback' : feedback'[i].by # k
                 /\ pc[k] = "log" =>
                      /\ base[k] <= Len(feedback')
                      /\ \A i \in DOMAIN feedback' :
                           \/ feedback'[i].by = k
                           \/ feedback'[i].own /\ i <= base[k] /\ i + FeedbackLimit > base[k]
                           => feedback'[i].key \in known'[k]
      <4>1. pc[k] \notin {"log", "ended"} => \A i \in DOMAIN feedback' : feedback'[i].by # k
        BY <1>1, <3>2, <3>3 DEF Remembers
      <4>2. ASSUME pc[k] = "log" PROVE base[k] \in Nat /\ base[k] <= Len(feedback)
        BY <2>6, <4>2 DEF Remembers
      <4>3. ASSUME pc[k] = "log", NEW i \in DOMAIN feedback',
                   \/ feedback'[i].by = k
                   \/ feedback'[i].own /\ i <= base[k] /\ i + FeedbackLimit > base[k]
            PROVE  feedback'[i].key \in known'[k]
        <5>1. CASE i \in DOMAIN feedback
          <6>1. feedback[i].key \in known[k]
            BY <3>2, <4>3, <5>1 DEF Remembers
          <6> QED
            BY <2>5, <3>2, <5>1, <6>1
        <5>2. CASE i \notin DOMAIN feedback
          <6>1. i = Len(feedback) + 1 /\ feedback'[i] = row
            BY <3>2, <5>2
          <6>2. k = n
            BY <2>6, <3>3, <4>2, <4>3, <6>1
          <6> QED
            BY <2>5, <3>3, <6>1, <6>2
        <5> QED
          BY <5>1, <5>2
      <4> QED
        BY <2>6, <3>2, <4>1, <4>2, <4>3
    <3>8. Remembers'
      BY <2>1, <3>7 DEF Remembers
    <3> QED
      BY <3>4, <3>6, <3>8
  <2> QED
    BY <2>7, <2>8
<1> QED
  BY <1>2, <1>3 DEF Log

(* After a restart, every pass that was there has ended. *)
LEMMA CrashNext ==
  ASSUME IInv, Crash
  PROVE  IInv'
<1> USE DEF IInv
<1>1. messages' \in Seq(Message) /\ (feedback' = <<>> \/ UNCHANGED feedback)
  BY DEF Crash, TypeOK
<1>2. /\ pc' = [n \in Exchanges |-> IF pc[n] = "unused" THEN "unused" ELSE "ended"]
      /\ UNCHANGED <<turns, others>> /\ mishaps' = mishaps + 1
  BY DEF Crash
<1>3. TypeOK'
  BY <1>1, <1>2 DEF Crash, TypeOK
<1>4. \A n \in Exchanges : pc'[n] = "ended" \/ (pc[n] = "unused" /\ pc'[n] = "unused")
  BY <1>2
<1>5. CASE UNCHANGED feedback
  BY <1>3, <1>4, <1>5, NothingLogged
<1>6. CASE feedback' = <<>>
  BY <1>3, <1>4, <1>6 DEF Remembers, DuplicatesWereOutOfSight
<1> QED
  BY <1>1, <1>5, <1>6

----------------------------------------------------------------------------
\* The theorems

(* Every step keeps the invariant. *)
LEMMA IInvNext == IInv /\ [Next]_vars => IInv'
<1> SUFFICES ASSUME IInv, [Next]_vars PROVE IInv'
  OBVIOUS
<1>1. ASSUME NEW t \in Tabs, Connect(t) \/ Drop(t) PROVE IInv'
  BY <1>1, VisitorNext
<1>2. ASSUME NEW t \in Tabs, NEW what \in Complaints \cup {Silent}, Turn(t, what) \/ PostMessage(t, what)
      PROVE  IInv'
  BY <1>2, VisitorNext
<1>3. ASSUME NEW key \in Complaints, Widget(key) \/ Elsewhere(key) PROVE IInv'
  BY <1>3, OthersNext
<1>4. ASSUME NEW n \in Exchanges, Step(n) PROVE IInv'
  BY <1>4, AnswerNext, ReadingNext, ListNext, LogNext DEF Step
<1>5. CASE Crash
  BY <1>5, CrashNext
<1>6. CASE UNCHANGED vars
  BY <1>6 DEF IInv, vars, tables, mining, bounds, TypeOK, Remembers, DuplicatesWereOutOfSight
<1> QED
  BY <1>1, <1>2, <1>3, <1>4, <1>5, <1>6 DEF Next

(* The invariant holds of every behaviour. *)
LEMMA IInvHolds == Spec => []IInv
<1>1. Init => IInv
  BY IInvInit
<1>2. IInv /\ [Next]_vars => IInv'
  BY IInvNext
<1> QED
  BY <1>1, <1>2, PTL DEF Spec

(* The conversation, the feedback and every exchange keep their types. *)
THEOREM TypeCorrect == Spec => []TypeOK
<1>1. IInv => TypeOK
  BY DEF IInv
<1> QED
  BY <1>1, IInvHolds, PTL

(* Extract: with any number of passes that overlap, of rows logged between *)
(* a pass's reading and its writing, and of restarts, a pass repeats none  *)
(* of the rows it listed, and none of its own.                              *)
THEOREM RepeatsOnlyTheUnseen == Spec => []DuplicatesWereOutOfSight
<1>1. IInv => DuplicatesWereOutOfSight
  BY DEF IInv
<1> QED
  BY <1>1, IInvHolds, PTL
=============================================================================

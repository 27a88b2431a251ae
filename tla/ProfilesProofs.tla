--------------------------- MODULE ProfilesProofs ---------------------------
(***************************************************************************)
(* For every number of visitors, tabs, personas and facts, and of restarts, *)
(* requests and answers that are lost on the way: the profiles keep their   *)
(* types; what nobody asked to change changes only where two requests of    *)
(* one browser overlap; and for a visitor who has one request under way at a*)
(* time the cookies lead back to their own profile.                         *)
(***************************************************************************)
EXTENDS Profiles, TLAPS

----------------------------------------------------------------------------
\* The invariant of types

Values  == Ids \cup {None}
Answers == UNION {[C -> Values] : C \in SUBSET Cookies}
Labels  == Kinds \cup {"idle", "enter", "edit", "learn", "save", "note", "apply", "resetTurns", "answer"}

(* A persona is entered by name, who learns or edits has a profile, and the *)
(* rows of a file that is not in use are rows too.                          *)
TypeInv ==
  /\ TypeOK
  /\ \A i \in DOMAIN disk : disk[i] \in Row
  /\ \A t \in Tabs : pc[t] = "enter" => who[t] \in Personas
  /\ \A t \in Tabs : pc[t] \in {"learn", "save", "apply"} => who[t] \in DOMAIN profiles

----------------------------------------------------------------------------
\* Values

(* What an answer may set. *)
LEMMA AnswersAre ==
  /\ \A C \in SUBSET Cookies : \A f \in [C -> Values] : f \in Answers
  /\ \A f \in Answers : f \in [DOMAIN f -> Values] /\ DOMAIN f \subseteq Cookies
  /\ [c \in {} |-> None] \in Answers
<1>1. \A C \in SUBSET Cookies : \A f \in [C -> Values] : f \in Answers
  BY DEF Answers
<1>2. \A f \in Answers : f \in [DOMAIN f -> Values] /\ DOMAIN f \subseteq Cookies
  BY DEF Answers
<1>3. [c \in {} |-> None] \in [{} -> Values]
  BY DEF Values
<1> QED
  BY <1>1, <1>2, <1>3

(* With changes one entry. *)
LEMMA WithIs ==
  ASSUME NEW f, NEW x, NEW v
  PROVE  /\ DOMAIN With(f, x, v) = DOMAIN f \cup {x} /\ With(f, x, v)[x] = v
         /\ \A y \in DOMAIN f : y # x => With(f, x, v)[y] = f[y]
BY DEF With

(* A cookie for a profile, on top of what the answer sets. *)
LEMMA WithCookie ==
  ASSUME NEW f \in Answers, NEW v \in Values
  PROVE  With(f, "me", v) \in Answers
<1>1. With(f, "me", v) \in [DOMAIN f \cup {"me"} -> Values]
  BY AnswersAre DEF With
<1>2. DOMAIN f \cup {"me"} \in SUBSET Cookies
  BY AnswersAre DEF Cookies
<1> QED
  BY <1>1, <1>2, AnswersAre

(* No row is an own one and a persona's, nor is there one of no profile.    *)
LEMMA IdsDiffer ==
  /\ None \notin Own /\ None \notin Personas /\ Personas \cap Own = {}
  /\ Own \subseteq Values /\ Personas \subseteq Values /\ None \in Values /\ Own \cup Personas = Ids
  /\ MaxProfiles \in Nat
BY ProfilesAssumption DEF Ids, Values

(* A row has no two values of a field of one value. *)
LEMMA RowIs ==
  /\ {} \in Row /\ Example \in Row /\ \A f \in Facts : {f} \in Row
  /\ \A facts \in Row : /\ facts \in SUBSET Facts
                        /\ \A f, g \in facts : FieldOf[f] = FieldOf[g] /\ FieldOf[f] \in Single => f = g
BY ProfilesAssumption DEF Row

----------------------------------------------------------------------------
\* Every step keeps types

(* At the start there are no rows, and every tab is idle. *)
LEMMA TypeInit == Init => TypeInv
<1> SUFFICES ASSUME Init PROVE TypeInv
  OBVIOUS
<1>1. DOMAIN NoRows = {}
  BY DEF NoRows
<1>2. set \in [Tabs -> Answers]
  BY AnswersAre DEF Init
<1>3. \A b \in [Cookies -> {None}] : b \in Jar
  BY DEF Jar
<1>4. /\ jar \in [Browsers -> Jar] /\ sent \in [Tabs -> Jar] /\ who \in [Tabs -> Values]
      /\ home \in [Browsers -> Own \cup {None}]
  BY DEF Init, Jar, Values
<1>5. dated \in [Browsers -> BOOLEAN] /\ page \in [Tabs -> BOOLEAN]
  BY DEF Init
<1>6. created \in 0 .. MaxProfiles /\ skips \in [Ids -> 0 .. 2] /\ pc \in [Tabs -> Labels]
  BY IdsDiffer DEF Init, Labels
<1>7. /\ base \in [Tabs -> Row] /\ says \in [Tabs -> Row]
      /\ takes \in [Tabs -> SUBSET Facts] /\ late \in [Tabs -> SUBSET Facts]
  BY RowIs DEF Init
<1> QED
  BY <1>1, <1>2, <1>4, <1>5, <1>6, <1>7 DEF Init, TypeInv, TypeOK, Answers, Values, Labels

(* A request on its way through a tab. *)
Locals ==
  /\ pc \in [Tabs -> Labels] /\ sent \in [Tabs -> Jar] /\ set \in [Tabs -> Answers] /\ who \in [Tabs -> Values]
  /\ base \in [Tabs -> Row] /\ says \in [Tabs -> Row] /\ takes \in [Tabs -> SUBSET Facts] /\ late \in [Tabs -> SUBSET Facts]

(* The rows of the store. *)
Rows ==
  /\ DOMAIN profiles \subseteq Ids /\ \A i \in DOMAIN profiles : profiles[i] \in Row
  /\ created \in 0 .. MaxProfiles

(* What the browser keeps. *)
Client ==
  /\ jar \in [Browsers -> Jar] /\ dated \in [Browsers -> BOOLEAN]
  /\ home \in [Browsers -> Own \cup {None}] /\ page \in [Tabs -> BOOLEAN]

(* The types, in the parts that a step touches together. *)
LEMMA TypeParts ==
  TypeOK <=> /\ Locals /\ Rows /\ Client
             /\ backend \in {"sqlite", "memory"} /\ DOMAIN disk \subseteq Ids /\ skips \in [Ids -> 0 .. 2]
             /\ requests \in Nat /\ crashes \in Nat /\ expiries \in Nat
BY DEF TypeOK, Locals, Rows, Client, Answers, Values, Labels

(* Who works on which row. *)
Works ==
  /\ \A t \in Tabs : pc[t] = "enter" => who[t] \in Personas
  /\ \A t \in Tabs : pc[t] \in {"learn", "save", "apply"} => who[t] \in DOMAIN profiles

(* A step that keeps the parts keeps the whole. *)
LEMMA TypeKept ==
  ASSUME TypeInv, Locals', Rows', Client', skips' \in [Ids -> 0 .. 2], UNCHANGED store,
         requests' \in Nat, crashes' \in Nat, expiries' \in Nat, Works'
  PROVE  TypeInv'
<1>1. /\ backend' \in {"sqlite", "memory"} /\ DOMAIN disk' \subseteq Ids
      /\ \A i \in DOMAIN disk' : disk'[i] \in Row
  BY TypeParts DEF TypeInv, store
<1>2. TypeOK'
  BY <1>1 DEF TypeOK, Locals, Rows, Client, Answers, Values, Labels
<1> QED
  BY <1>1, <1>2 DEF TypeInv, Works

(* Sending a request. *)
LEMMA SendTypes ==
  ASSUME TypeInv, NEW t \in Tabs,
         \/ \E kind \in Kinds : Send(t, kind)
         \/ \E persona \in Personas : SendEnter(t, persona)
         \/ \E fact \in Facts, add \in BOOLEAN : SendEdit(t, fact, add)
  PROVE  TypeInv'
<1>1. /\ UNCHANGED <<store, tables, client, set, base, late, crashes, expiries>>
      /\ sent' = [sent EXCEPT ![t] = jar[BrowserOf[t]]]
      /\ requests' = requests + 1
  BY DEF Send, SendEnter, SendEdit, work
<1>2. PICK label \in Labels : pc' = [pc EXCEPT ![t] = label] /\ label \notin {"learn", "save", "apply"}
  BY DEF Send, SendEnter, SendEdit, Goto, Labels, Kinds
<1>3. sent' \in [Tabs -> Jar] /\ pc' \in [Tabs -> Labels]
  BY <1>1, <1>2, ProfilesAssumption, TypeParts DEF TypeInv, Locals, Client
<1>4. who' \in [Tabs -> Values] /\ says' \in [Tabs -> Row] /\ takes' \in [Tabs -> SUBSET Facts]
  <2>1. CASE \E kind \in Kinds : Send(t, kind)
    BY <2>1, TypeParts DEF TypeInv, Locals, Send, work
  <2>2. CASE \E persona \in Personas : SendEnter(t, persona)
    BY <2>2, TypeParts, IdsDiffer DEF TypeInv, Locals, SendEnter
  <2>3. CASE \E fact \in Facts, add \in BOOLEAN : SendEdit(t, fact, add)
    BY <2>3, TypeParts, RowIs DEF TypeInv, Locals, SendEdit
  <2> QED
    BY <2>1, <2>2, <2>3
<1>5. \A u \in Tabs : pc'[u] = "enter" => who'[u] \in Personas
  <2>1. CASE \E kind \in Kinds : Send(t, kind)
    BY <2>1, TypeParts DEF TypeInv, Locals, Send, work, Goto, Kinds
  <2>2. CASE \E persona \in Personas : SendEnter(t, persona)
    BY <2>2, TypeParts DEF TypeInv, Locals, SendEnter, Goto
  <2>3. CASE \E fact \in Facts, add \in BOOLEAN : SendEdit(t, fact, add)
    BY <2>3, TypeParts DEF TypeInv, Locals, SendEdit, Goto
  <2> QED
    BY <2>1, <2>2, <2>3
<1>6. \A u \in Tabs : pc'[u] \in {"learn", "save", "apply"} => who'[u] \in DOMAIN profiles'
  <2>1. \A u \in Tabs : pc'[u] \in {"learn", "save", "apply"} => u # t /\ pc'[u] = pc[u]
    BY <1>2, TypeParts DEF TypeInv, Locals
  <2>2. \A u \in Tabs : u # t => who'[u] = who[u]
    BY TypeParts DEF TypeInv, Locals, Send, SendEnter, SendEdit, work
  <2> QED
    BY <1>1, <2>1, <2>2 DEF TypeInv, tables
<1>7. Locals'
  BY <1>1, <1>3, <1>4, TypeParts DEF TypeInv, Locals
<1>8. Rows' /\ Client' /\ skips' \in [Ids -> 0 .. 2]
  BY <1>1, TypeParts DEF TypeInv, Rows, Client, tables, client
<1>9. requests' \in Nat /\ crashes' \in Nat /\ expiries' \in Nat /\ UNCHANGED store
  BY <1>1, TypeParts DEF TypeInv
<1> QED
  BY <1>5, <1>6, <1>7, <1>8, <1>9, TypeKept DEF Works

(* Finding the profile, or making one. *)
LEMMA EnsureTypes ==
  ASSUME TypeInv, NEW t \in Tabs, NEW next \in Labels \ {"enter"}, Ensure(t, next), UNCHANGED <<sent, says, takes, late>>
  PROVE  Locals' /\ Rows' /\ Works'
<1>1. Locals /\ Rows
  BY TypeParts DEF TypeInv
<1>2. pc' = [pc EXCEPT ![t] = next] /\ pc' \in [Tabs -> Labels]
  BY <1>1 DEF Ensure, Goto, Locals
<1>3. sent[t]["me"] \in Values
  BY <1>1 DEF Locals, Jar, Values, Cookies
<1>4. CASE sent[t]["me"] \in DOMAIN profiles
  <2>1. /\ who' = [who EXCEPT ![t] = sent[t]["me"]] /\ base' = [base EXCEPT ![t] = profiles[sent[t]["me"]]]
        /\ UNCHANGED <<profiles, created, set>>
    BY <1>4 DEF Ensure
  <2>2. Locals' /\ Rows'
    BY <1>1, <1>2, <1>3, <1>4, <2>1 DEF Locals, Rows
  <2>3. Works'
    BY <1>1, <1>2, <1>4, <2>1 DEF Works, TypeInv, Locals
  <2> QED
    BY <2>2, <2>3
<1>5. CASE sent[t]["me"] \notin DOMAIN profiles
  <2>1. /\ created < MaxProfiles /\ created' = created + 1 /\ who' = [who EXCEPT ![t] = created']
        /\ base' = [base EXCEPT ![t] = {}] /\ profiles' = With(profiles, created', {})
        /\ set' = [set EXCEPT ![t] = With(set[t], "me", created')]
    BY <1>1, <1>5 DEF Ensure, Locals
  <2>2. created' \in 0 .. MaxProfiles /\ created' \in Own /\ created' \in Values /\ created' \in Ids
    BY <1>1, <2>1, IdsDiffer DEF Rows, Own, Values, Ids
  <2>3. DOMAIN profiles' = DOMAIN profiles \cup {created'} /\ profiles'[created'] = {}
        /\ \A i \in DOMAIN profiles : i # created' => profiles'[i] = profiles[i]
    BY <2>1 DEF With
  <2>4. With(set[t], "me", created') \in Answers
    BY <1>1, <2>2, WithCookie DEF Locals
  <2>5. Rows'
    BY <1>1, <2>2, <2>3, RowIs DEF Rows
  <2>6. Locals'
    BY <1>1, <1>2, <2>1, <2>2, <2>4, RowIs DEF Locals
  <2>7. Works'
    BY <1>1, <1>2, <2>1, <2>3 DEF Works, TypeInv, Locals
  <2> QED
    BY <2>5, <2>6, <2>7
<1> QED
  BY <1>4, <1>5

(* The same, without making one. *)
LEMMA CurrentTypes ==
  ASSUME TypeInv, NEW t \in Tabs, NEW next \in Labels \ {"enter"}, Current(t, next),
         UNCHANGED <<tables, sent, set, says, takes, late>>
  PROVE  Locals' /\ Rows' /\ Works'
<1>1. Locals /\ Rows
  BY TypeParts DEF TypeInv
<1>2. Rows' /\ UNCHANGED profiles
  BY <1>1 DEF Rows, tables
<1>3. sent[t]["me"] \in Values
  BY <1>1 DEF Locals, Jar, Values, Cookies
<1>4. CASE sent[t]["me"] \in DOMAIN profiles
  <2>1. /\ who' = [who EXCEPT ![t] = sent[t]["me"]] /\ base' = [base EXCEPT ![t] = profiles[sent[t]["me"]]]
        /\ pc' = [pc EXCEPT ![t] = next]
    BY <1>4 DEF Current, Goto
  <2>2. Locals'
    BY <1>1, <1>3, <1>4, <2>1 DEF Locals, Rows
  <2>3. Works'
    BY <1>1, <1>2, <1>4, <2>1 DEF Works, TypeInv, Locals
  <2> QED
    BY <1>2, <2>2, <2>3
<1>5. CASE sent[t]["me"] \notin DOMAIN profiles
  <2>1. pc' = [pc EXCEPT ![t] = "answer"] /\ UNCHANGED <<who, base>>
    BY <1>5 DEF Current, Goto
  <2>2. Locals' /\ Works'
    BY <1>1, <1>2, <2>1 DEF Locals, Labels, Works, TypeInv
  <2> QED
    BY <1>2, <2>2
<1> QED
  BY <1>4, <1>5

(* Writing a row. *)
LEMMA WriteTypes ==
  ASSUME TypeInv, NEW t \in Tabs, who[t] \in Ids, NEW facts \in Row,
         profiles' = With(profiles, who[t], facts), NEW next \in Labels \ {"enter", "learn", "save", "apply"}, Goto(t, next),
         set' \in [Tabs -> Answers], late' \in [Tabs -> SUBSET Facts],
         UNCHANGED <<created, sent, who, base, says, takes>>
  PROVE  Locals' /\ Rows' /\ Works'
<1>1. Locals /\ Rows
  BY TypeParts DEF TypeInv
<1>2. DOMAIN profiles' = DOMAIN profiles \cup {who[t]} /\ profiles'[who[t]] = facts
      /\ \A i \in DOMAIN profiles : i # who[t] => profiles'[i] = profiles[i]
  BY DEF With
<1>3. Rows'
  BY <1>1, <1>2 DEF Rows
<1>4. pc' = [pc EXCEPT ![t] = next]
  BY DEF Goto
<1>5. Locals'
  BY <1>1, <1>4 DEF Locals
<1>6. Works'
  BY <1>1, <1>2, <1>4 DEF Works, TypeInv, Locals
<1> QED
  BY <1>3, <1>5, <1>6

(* A step that only moves on. *)
LEMMA MoveTypes ==
  ASSUME TypeInv, NEW t \in Tabs, NEW next \in Labels \ {"enter", "learn", "save", "apply"}, Goto(t, next),
         set' \in [Tabs -> Answers], UNCHANGED <<profiles, created, sent, work>>
  PROVE  Locals' /\ Rows' /\ Works'
BY TypeParts DEF TypeInv, Locals, Rows, Works, Goto, work

(* The end of a request. *)
LEMMA OverTypes ==
  ASSUME TypeInv, NEW t \in Tabs, Over(t), UNCHANGED tables
  PROVE  Locals' /\ Rows' /\ Works'
<1>1. Locals /\ Rows
  BY TypeParts DEF TypeInv
<1>2. [c \in Cookies |-> None] \in Jar /\ [c \in {} |-> None] \in Answers /\ None \in Values /\ "idle" \in Labels /\ {} \in Row
  BY AnswersAre, RowIs DEF Jar, Values, Labels
<1>3. Locals'
  BY <1>1, <1>2 DEF Locals, Over, Goto
<1>4. Rows' /\ UNCHANGED profiles
  BY <1>1 DEF Rows, tables
<1>5. Works'
  BY <1>1, <1>4 DEF Works, TypeInv, Locals, Over, Goto
<1> QED
  BY <1>3, <1>4, <1>5

(* What an answer, lost or not, makes of the browser. *)
LEMMA AnswerTypes ==
  ASSUME TypeInv, NEW t \in Tabs, Answer(t)
  PROVE  Client'
<1>1. Locals /\ Client /\ BrowserOf[t] \in Browsers
  BY TypeParts, ProfilesAssumption DEF TypeInv
<1> DEFINE b == BrowserOf[t]
           new == [c \in Cookies |-> IF c \in DOMAIN set[t] THEN set[t][c] ELSE jar[b][c]]
<1>2. set[t] \in [DOMAIN set[t] -> Values] /\ jar[b] \in [Cookies -> Values]
  BY <1>1, AnswersAre DEF Locals, Client, Jar, Values
<1>3. new \in Jar
  BY <1>2 DEF Jar, Values
<1>4. jar' = [jar EXCEPT ![b] = new] /\ page' = [page EXCEPT ![t] = new["me"] \in Personas]
  BY DEF Answer
<1>5. /\ dated' = [dated EXCEPT ![b] = IF "prev" \in DOMAIN set[t] THEN FALSE
                                       ELSE @ \/ "me" \in DOMAIN set[t]]
      /\ home' = [home EXCEPT ![b] = IF DOMAIN set[t] = {"me"} /\ new["me"] \notin Personas THEN new["me"] ELSE @]
  BY DEF Answer
<1>6. new["me"] \in Values
  BY <1>3 DEF Jar, Cookies, Values
<1> HIDE DEF new
<1>7. jar' \in [Browsers -> Jar]
  BY <1>1, <1>3, <1>4 DEF Client
<1>8. page' \in [Tabs -> BOOLEAN] /\ dated' \in [Browsers -> BOOLEAN]
  <2>1. dated[b] \in BOOLEAN /\ dated \in [Browsers -> BOOLEAN] /\ page \in [Tabs -> BOOLEAN]
    BY <1>1 DEF Client
  <2>2. (new["me"] \in Personas) \in BOOLEAN
    OBVIOUS
  <2>3. (IF "prev" \in DOMAIN set[t] THEN FALSE ELSE dated[b] \/ "me" \in DOMAIN set[t]) \in BOOLEAN
    BY <2>1, Zenon
  <2> DEFINE later == IF "prev" \in DOMAIN set[t] THEN FALSE ELSE dated[b] \/ "me" \in DOMAIN set[t]
             banner == new["me"] \in Personas
  <2>4. page' = [page EXCEPT ![t] = banner] /\ dated' = [dated EXCEPT ![b] = later]
    BY <1>4, <1>5, <2>1, Zenon
  <2> HIDE DEF later, banner
  <2>5. later \in BOOLEAN /\ banner \in BOOLEAN
    BY <2>2, <2>3 DEF later, banner
  <2> QED
    BY <1>1, <2>1, <2>4, <2>5
<1>9. home' \in [Browsers -> Own \cup {None}]
  BY <1>1, <1>5, <1>6 DEF Client, Values, Ids
<1> QED
  BY <1>7, <1>8, <1>9 DEF Client

(* A row with what was said in place of what it replaces is a row. *)
LEMMA MergedFacts ==
  ASSUME TypeInv, NEW t \in Tabs
  PROVE  Merged(t) \in Row
<1>1. base[t] \in Row /\ says[t] \in Row /\ takes[t] \in SUBSET Facts
  BY TypeParts DEF TypeInv, Locals
<1>2. Merged(t) \in SUBSET Facts
  BY <1>1, RowIs DEF Merged
<1>3. ASSUME NEW f \in Merged(t), NEW g \in Merged(t), FieldOf[f] = FieldOf[g], FieldOf[f] \in Single
      PROVE  f = g
  <2>1. CASE f \in says[t] /\ g \in says[t]
    BY <1>1, <1>3, <2>1, RowIs
  <2>2. CASE f \notin says[t] /\ g \notin says[t]
    BY <1>1, <1>3, <2>2, RowIs DEF Merged
  <2>3. CASE f \in says[t] /\ g \notin says[t]
    BY <1>2, <1>3, <2>3 DEF Merged, Replaced
  <2>4. CASE f \notin says[t] /\ g \in says[t]
    BY <1>2, <1>3, <2>4 DEF Merged, Replaced
  <2> QED
    BY <2>1, <2>2, <2>3, <2>4
<1> QED
  BY <1>2, <1>3 DEF Row

(* Writing a row tells the requests it overtakes. *)
LEMMA UpsertTypes ==
  ASSUME TypeInv, NEW t \in Tabs, who[t] \in DOMAIN profiles, Upsert(t)
  PROVE  /\ profiles' = With(profiles, who[t], Merged(t)) /\ UNCHANGED <<who, base, says, takes>>
         /\ late' \in [Tabs -> SUBSET Facts]
<1>1. Locals /\ Rows
  BY TypeParts DEF TypeInv
<1> DEFINE now == profiles[who[t]]
           known(u) == IF Overtaken(u, t) THEN late[u] \cup (now \ Merged(t)) \cup (Merged(t) \ now) ELSE late[u]
<1>2. now \in SUBSET Facts /\ Merged(t) \in SUBSET Facts
  BY <1>1, MergedFacts, RowIs DEF Rows
<1>3. \A u \in Tabs : known(u) \in SUBSET Facts
  <2>1. \A u \in Tabs : late[u] \in SUBSET Facts
    BY <1>1 DEF Locals
  <2> HIDE DEF now
  <2> QED
    BY <1>2, <2>1
<1>4. late' = [u \in Tabs |-> known(u)] /\ profiles' = With(profiles, who[t], Merged(t)) /\ UNCHANGED <<who, base, says, takes>>
  BY DEF Upsert
<1> HIDE DEF known
<1> QED
  BY <1>3, <1>4

(* The steps of a request on the server. *)
LEMMA ServerTypes ==
  ASSUME TypeInv, NEW t \in Tabs,
         \/ Start(t) \/ Ask(t) \/ Turn(t) \/ Learn(t) \/ SaveTurn(t) \/ TurnFails(t) \/ Note(t)
         \/ Edit(t) \/ SaveEdit(t) \/ Finish(t) \/ ResetTurns(t) \/ Reset(t) \/ Enter(t) \/ Leave(t)
  PROVE  TypeInv'
<1>1. Locals /\ Rows /\ Client /\ skips \in [Ids -> 0 .. 2] /\ requests \in Nat /\ crashes \in Nat /\ expiries \in Nat
  BY TypeParts DEF TypeInv
<1>2. UNCHANGED <<store, client, sent, bounds>>
  BY DEF Start, Ask, Turn, Learn, SaveTurn, TurnFails, Note, Edit, SaveEdit, Finish, ResetTurns, Reset, Enter,
         EnterAs, Leave
<1>3. ASSUME Locals', Rows', Works', skips' \in [Ids -> 0 .. 2] PROVE TypeInv'
  <2>1. Client'
    BY <1>1, <1>2 DEF Client, client
  <2> QED
    BY <1>1, <1>2, <1>3, <2>1, TypeKept DEF bounds
<1>4. /\ {"answer", "turn", "learn", "save", "note", "apply", "resetTurns"} \subseteq Labels \ {"enter"}
      /\ {"answer", "turn", "note", "resetTurns"} \subseteq Labels \ {"enter", "learn", "save", "apply"}
  BY DEF Labels, Kinds
<1>5. set \in [Tabs -> Answers] /\ (UNCHANGED skips => skips' \in [Ids -> 0 .. 2])
  BY <1>1 DEF Locals
<1>6. CASE Start(t)
  <2>1. Ensure(t, "answer") /\ UNCHANGED <<sent, says, takes, late, skips>>
    BY <1>6 DEF Start
  <2> QED
    BY <1>3, <1>4, <1>5, <2>1, EnsureTypes
<1>7. CASE Ask(t)
  <2>1. (Ensure(t, "answer") \/ Ensure(t, "turn")) /\ UNCHANGED <<sent, says, takes, late, skips>>
    BY <1>7 DEF Ask
  <2> QED
    BY <1>3, <1>4, <1>5, <2>1, EnsureTypes
<1>8. CASE Turn(t)
  <2>1. Ensure(t, "learn") /\ UNCHANGED <<sent, says, takes, late, skips>>
    BY <1>8 DEF Turn
  <2> QED
    BY <1>3, <1>4, <1>5, <2>1, EnsureTypes
<1>9. CASE Learn(t)
  <2>1. PICK added \in Row, removed \in SUBSET Facts :
          says' = [says EXCEPT ![t] = added] /\ takes' = [takes EXCEPT ![t] = removed]
    <3>1. base[t] \in SUBSET Facts
      BY <1>1, RowIs DEF Locals
    <3> QED
      BY <1>9, <3>1 DEF Learn
  <2>2. pc[t] = "learn" /\ pc' = [pc EXCEPT ![t] = "save"] /\ UNCHANGED <<profiles, created, skips, sent, set, who, base, late>>
    BY <1>9 DEF Learn, Goto, tables
  <2>3. Locals'
    BY <1>1, <1>4, <2>1, <2>2 DEF Locals
  <2>4. Rows' /\ Works'
    BY <1>1, <2>2 DEF Rows, Works, TypeInv, Locals
  <2> QED
    BY <1>3, <1>5, <2>2, <2>3, <2>4
<1>10. CASE SaveTurn(t) \/ SaveEdit(t)
  <2>1. /\ Upsert(t) /\ (Goto(t, "note") \/ Goto(t, "resetTurns"))
        /\ who[t] \in DOMAIN profiles /\ UNCHANGED <<created, skips, sent, set>>
    BY <1>10 DEF SaveTurn, SaveEdit, TypeInv
  <2>2. who[t] \in Ids /\ Merged(t) \in Row
    BY <1>1, <2>1, MergedFacts DEF Rows
  <2>3. Locals' /\ Rows' /\ Works'
    BY <1>4, <1>5, <2>1, <2>2, UpsertTypes, WriteTypes
  <2> QED
    BY <1>3, <1>5, <2>1, <2>3
<1>11. CASE TurnFails(t) \/ Note(t) \/ ResetTurns(t)
  <2>1. Goto(t, "answer") /\ UNCHANGED <<profiles, created, sent, set, work>>
    BY <1>11 DEF TurnFails, Note, ResetTurns, tables
  <2>2. skips' \in [Ids -> 0 .. 2]
    <3>1. ASSUME NEW n \in 0 .. 2, skips' = [skips EXCEPT ![who[t]] = n] PROVE skips' \in [Ids -> 0 .. 2]
      BY <1>1, <3>1
    <3>2. CASE TurnFails(t)
      BY <1>5, <3>2 DEF TurnFails, tables
    <3>3. CASE ResetTurns(t)
      <4>1. skips' = [skips EXCEPT ![who[t]] = 0] /\ 0 \in 0 .. 2
        BY <3>3 DEF ResetTurns
      <4> QED
        BY <3>1, <4>1
    <3>4. CASE Note(t)
      <4> DEFINE n == IF Merged(t) # base[t] THEN 0 ELSE IF skips[who[t]] = 0 THEN 1 ELSE 2
      <4>1. n \in 0 .. 2
        OBVIOUS
      <4>2. CASE who[t] \in Ids
        <5>1. skips' = [skips EXCEPT ![who[t]] = n]
          BY <1>1, <3>4, <4>2 DEF Note
        <5> HIDE DEF n
        <5> QED
          BY <3>1, <4>1, <5>1
      <4>3. CASE who[t] \notin Ids
        BY <1>1, <3>4, <4>3 DEF Note
      <4> QED
        BY <4>2, <4>3
    <3> QED
      BY <1>11, <3>2, <3>3, <3>4
  <2> QED
    BY <1>3, <1>4, <1>5, <2>1, <2>2, MoveTypes
<1>12. CASE Edit(t) \/ Finish(t)
  <2>1. (Current(t, "apply") \/ Current(t, "resetTurns")) /\ UNCHANGED <<tables, sent, set, says, takes, late>>
    BY <1>12 DEF Edit, Finish
  <2>2. UNCHANGED skips
    BY <2>1 DEF tables
  <2> QED
    BY <1>3, <1>4, <1>5, <2>1, <2>2, CurrentTypes
<1>13. CASE Reset(t)
  <2> DEFINE a == [c \in {"me"} |-> None]
  <2>1. a \in Answers
    BY AnswersAre DEF Values, Cookies
  <2>2. set' = [set EXCEPT ![t] = a] /\ Goto(t, "answer") /\ UNCHANGED <<profiles, created, skips, sent, work>>
    BY <1>13 DEF Reset, tables
  <2> HIDE DEF a
  <2>3. set' \in [Tabs -> Answers]
    BY <1>5, <2>1, <2>2
  <2> QED
    BY <1>3, <1>4, <1>5, <2>2, <2>3, MoveTypes
<1>14. CASE Leave(t)
  <2> DEFINE a == [c \in Cookies |-> IF c = "me" THEN sent[t]["prev"] ELSE None]
  <2>1. a \in Answers
    <3>1. a \in [Cookies -> Values]
      BY <1>1 DEF Locals, Jar, Values, Cookies
    <3> QED
      BY <3>1, AnswersAre
  <2>2. set' = [set EXCEPT ![t] = a] /\ Goto(t, "answer") /\ UNCHANGED <<profiles, created, skips, sent, work>>
    BY <1>14 DEF Leave, tables
  <2> HIDE DEF a
  <2>3. set' \in [Tabs -> Answers]
    BY <1>5, <2>1, <2>2
  <2> QED
    BY <1>3, <1>4, <1>5, <2>2, <2>3, MoveTypes
<1>15. CASE Enter(t)
  <2> DEFINE C == IF sent[t]["me"] # None /\ sent[t]["me"] \notin Personas THEN Cookies ELSE {"me"}
             a == [c \in C |-> IF c = "me" THEN who[t] ELSE sent[t]["me"]]
  <2>1. a \in Answers
    <3>1. C \in SUBSET Cookies
      BY DEF Cookies
    <3>2. a \in [C -> Values]
      BY <1>1 DEF Locals, Jar, Values, Cookies
    <3> HIDE DEF C
    <3> QED
      BY <3>1, <3>2, AnswersAre
  <2>2. /\ set' = [set EXCEPT ![t] = a] /\ Goto(t, "answer") /\ UNCHANGED <<created, skips, sent, work>>
        /\ profiles' = With(profiles, who[t], Example)
    BY <1>15 DEF Enter, EnterAs
  <2>3. who[t] \in Ids
    BY <1>15 DEF Enter, EnterAs, TypeInv, Ids
  <2> HIDE DEF a
  <2>4. set' \in [Tabs -> Answers]
    BY <1>5, <2>1, <2>2
  <2>5. UNCHANGED <<who, base, says, takes>> /\ late' \in [Tabs -> SUBSET Facts]
    BY <1>1, <2>2 DEF work, Locals
  <2>6. Locals' /\ Rows' /\ Works'
    BY <1>4, <2>2, <2>3, <2>4, <2>5, RowIs, WriteTypes
  <2> QED
    BY <1>3, <1>5, <2>2, <2>6
<1> QED
  BY <1>6, <1>7, <1>8, <1>9, <1>10, <1>11, <1>12, <1>13, <1>14, <1>15

(* The process starts again. *)
LEMMA CrashTypes == ASSUME TypeInv, Crash PROVE TypeInv'
<1>1. Locals /\ Rows /\ Client /\ requests \in Nat /\ crashes \in Nat /\ expiries \in Nat
      /\ DOMAIN disk \subseteq Ids /\ \A i \in DOMAIN disk : disk[i] \in Row
  BY TypeParts DEF TypeInv
<1>2. [c \in Cookies |-> None] \in Jar /\ [c \in {} |-> None] \in Answers /\ None \in Values /\ "idle" \in Labels /\ {} \in Row
  BY AnswersAre, RowIs DEF Jar, Values, Labels
<1>3. Locals'
  BY <1>2 DEF Locals, Crash
<1>4. DOMAIN NoRows = {}
  BY DEF NoRows
<1>5. /\ backend' \in {"sqlite", "memory"} /\ profiles' \in {profiles, disk, NoRows} /\ disk' \in {profiles, disk, NoRows}
      /\ skips' \in [Ids -> 0 .. 2] /\ UNCHANGED <<created, client, requests, expiries>> /\ crashes' = crashes + 1
  BY DEF Crash
<1>6. Rows' /\ Client' /\ DOMAIN disk' \subseteq Ids /\ \A i \in DOMAIN disk' : disk'[i] \in Row
  BY <1>1, <1>4, <1>5 DEF Rows, Client, client
<1>7. TypeOK'
  BY <1>1, <1>3, <1>5, <1>6 DEF TypeOK, Locals, Rows, Client, Answers, Values, Labels
<1>8. Works'
  BY DEF Works, Crash
<1> QED
  BY <1>6, <1>7, <1>8 DEF TypeInv, Works

(* Every step, whoever takes it. *)
LEMMA TypeNext == TypeInv /\ [Next]_vars => TypeInv'
<1> SUFFICES ASSUME TypeInv, [Next]_vars PROVE TypeInv'
  OBVIOUS
<1>1. Locals /\ Rows /\ Client /\ skips \in [Ids -> 0 .. 2] /\ requests \in Nat /\ crashes \in Nat /\ expiries \in Nat
  BY TypeParts DEF TypeInv
<1>2. ASSUME NEW t \in Tabs,
             \/ \E kind \in Kinds : Send(t, kind)
             \/ \E persona \in Personas : SendEnter(t, persona)
             \/ \E fact \in Facts, add \in BOOLEAN : SendEdit(t, fact, add)
      PROVE  TypeInv'
  BY <1>2, SendTypes
<1>3. ASSUME NEW t \in Tabs,
             \/ Start(t) \/ Ask(t) \/ Turn(t) \/ Learn(t) \/ SaveTurn(t) \/ TurnFails(t) \/ Note(t)
             \/ Edit(t) \/ SaveEdit(t) \/ Finish(t) \/ ResetTurns(t) \/ Reset(t) \/ Enter(t) \/ Leave(t)
      PROVE  TypeInv'
  BY <1>3, ServerTypes
<1>4. ASSUME NEW t \in Tabs, Answer(t) \/ AnswerLost(t) PROVE TypeInv'
  <2>1. Over(t) /\ UNCHANGED <<store, tables, bounds>>
    BY <1>4 DEF Answer, AnswerLost
  <2>2. Client'
    BY <1>1, <1>4, AnswerTypes DEF AnswerLost, Client, client
  <2>3. Locals' /\ Rows' /\ Works'
    BY <2>1, OverTypes
  <2> QED
    BY <1>1, <2>1, <2>2, <2>3, TypeKept DEF tables, bounds
<1>5. ASSUME NEW b \in Browsers, Expire(b) PROVE TypeInv'
  <2>1. /\ UNCHANGED <<store, tables, dated, home, page, pc, sent, set, work, requests, crashes>>
        /\ jar' = [jar EXCEPT ![b]["prev"] = None] /\ expiries' = expiries + 1
    BY <1>5 DEF Expire
  <2>2. jar' \in [Browsers -> Jar]
    BY <1>1, <2>1 DEF Client, Jar, Cookies
  <2>3. Locals' /\ Rows' /\ Client' /\ Works'
    BY <1>1, <2>1, <2>2 DEF Locals, Rows, Client, Works, TypeInv, tables, work
  <2> QED
    BY <1>1, <2>1, <2>3, TypeKept DEF tables
<1>6. CASE Crash
  BY <1>6, CrashTypes
<1>7. CASE UNCHANGED vars
  <2>1. Locals' /\ Rows' /\ Client' /\ Works'
    BY <1>1, <1>7 DEF vars, Locals, Rows, Client, Works, TypeInv, tables, work, client
  <2> QED
    BY <1>1, <1>7, <2>1, TypeKept DEF vars, tables, bounds
<1> QED
  BY <1>2, <1>3, <1>4, <1>5, <1>6, <1>7 DEF Next

(* Profiles, cookies and requests keep their types. *)
THEOREM TypeCorrect == Spec => []TypeOK
<1>1. TypeInv => TypeOK
  BY DEF TypeInv
<1> QED
  BY <1>1, TypeInit, TypeNext, PTL DEF Spec

----------------------------------------------------------------------------
\* The way back

(* What the answer of a request sets: nothing, or a new profile or none; a  *)
(* persona, in another's place or with the way back; or the way back.       *)
Makes(t) == DOMAIN set[t] = {} \/ (DOMAIN set[t] = {"me"} /\ set[t]["me"] \in Own \cup {None})
Changes(t) ==
  DOMAIN set[t] = {"me"} /\ set[t]["me"] \in Personas /\ sent[t]["me"] \in Personas \cup {None}
Borrows(t) ==
  /\ DOMAIN set[t] = Cookies /\ set[t]["me"] \in Personas
  /\ set[t]["prev"] = sent[t]["me"] /\ sent[t]["me"] \in Own
Returning(t) ==
  DOMAIN set[t] = Cookies /\ set[t]["prev"] = None /\ set[t]["me"] = sent[t]["prev"] /\ page[t]

(* While the only tab of a browser waits for its answer nobody else sets    *)
(* its cookies, and a banner means that a persona is in them.               *)
TabInv(t) ==
  /\ pc[t] # "answer" => Makes(t)
  /\ pc[t] = "answer" => Makes(t) \/ Changes(t) \/ Borrows(t) \/ Returning(t)
  /\ pc[t] # "idle" /\ expiries = 0 => sent[t] = jar[BrowserOf[t]]
  /\ pc[t] = "leave" => page[t]
  /\ page[t] => jar[BrowserOf[t]]["me"] \in Personas

CookiesInv == \A t \in Tabs : Alone(BrowserOf[t]) => TabInv(t)

(* A step of one tab leaves another tab's request and browser alone. *)
LEMMA OthersKept ==
  ASSUME TypeInv, NEW u \in Tabs, TabInv(u),
         pc'[u] = pc[u], set'[u] = set[u], sent'[u] = sent[u], page'[u] = page[u],
         jar'[BrowserOf[u]] = jar[BrowserOf[u]], expiries' = expiries
  PROVE  TabInv(u)'
BY DEF TabInv, Makes, Changes, Borrows, Returning

(* What a tab's step leaves of the other tabs. *)
LEMMA OtherTabs ==
  ASSUME TypeInv, NEW t \in Tabs,
         \/ \E kind \in Kinds : Send(t, kind)
         \/ \E persona \in Personas : SendEnter(t, persona)
         \/ \E fact \in Facts, add \in BOOLEAN : SendEdit(t, fact, add)
         \/ Start(t) \/ Ask(t) \/ Turn(t) \/ Learn(t) \/ SaveTurn(t) \/ TurnFails(t) \/ Note(t)
         \/ Edit(t) \/ SaveEdit(t) \/ Finish(t) \/ ResetTurns(t) \/ Reset(t) \/ Enter(t) \/ Leave(t)
         \/ Answer(t) \/ AnswerLost(t)
  PROVE  /\ UNCHANGED <<store, crashes, expiries>>
         /\ \A u \in Tabs : u # t =>
              /\ pc'[u] = pc[u] /\ set'[u] = set[u] /\ sent'[u] = sent[u] /\ page'[u] = page[u]
              /\ who'[u] = who[u] /\ base'[u] = base[u] /\ says'[u] = says[u] /\ takes'[u] = takes[u]
              /\ BrowserOf[u] # BrowserOf[t] => jar'[BrowserOf[u]] = jar[BrowserOf[u]]
<1>1. Locals /\ Client /\ \A u \in Tabs : BrowserOf[u] \in Browsers
  BY TypeParts, ProfilesAssumption DEF TypeInv
<1> DEFINE Rest == \A u \in Tabs : u # t =>
              /\ pc'[u] = pc[u] /\ set'[u] = set[u] /\ sent'[u] = sent[u] /\ page'[u] = page[u]
              /\ who'[u] = who[u] /\ base'[u] = base[u] /\ says'[u] = says[u] /\ takes'[u] = takes[u]
              /\ BrowserOf[u] # BrowserOf[t] => jar'[BrowserOf[u]] = jar[BrowserOf[u]]
<1>2. UNCHANGED <<store, crashes, expiries>>
  BY DEF Send, SendEnter, SendEdit, Start, Ask, Turn, Learn, SaveTurn, TurnFails, Note, Edit, SaveEdit, Finish,
         ResetTurns, Reset, Enter, EnterAs, Leave, Answer, AnswerLost, bounds
<1>3. CASE \/ \E kind \in Kinds : Send(t, kind)
           \/ \E persona \in Personas : SendEnter(t, persona)
           \/ \E fact \in Facts, add \in BOOLEAN : SendEdit(t, fact, add)
  <2>1. Rest
    BY <1>1, <1>3 DEF Send, SendEnter, SendEdit, Goto, client, work, Locals
  <2> QED
    BY <1>2, <2>1
<1>4. CASE Start(t) \/ Ask(t) \/ Turn(t)
  <2>1. PICK label : Ensure(t, label)
    BY <1>4 DEF Start, Ask, Turn
  <2>2. UNCHANGED <<client, sent, says, takes>>
    BY <1>4 DEF Start, Ask, Turn
  <2>3. Rest
    BY <1>1, <2>1, <2>2 DEF Ensure, Goto, client, Locals
  <2> QED
    BY <1>2, <2>3
<1>5. CASE Edit(t) \/ Finish(t)
  <2>1. Rest
    BY <1>1, <1>5 DEF Edit, Finish, Current, Goto, client, Locals
  <2> QED
    BY <1>2, <2>1
<1>6. CASE Learn(t) \/ SaveTurn(t) \/ TurnFails(t) \/ Note(t) \/ SaveEdit(t) \/ ResetTurns(t)
  <2>1. Rest
    BY <1>1, <1>6 DEF Learn, SaveTurn, TurnFails, Note, SaveEdit, Upsert, ResetTurns, Goto, client, work, Locals
  <2> QED
    BY <1>2, <2>1
<1>7. CASE Reset(t) \/ Enter(t) \/ Leave(t)
  <2>1. Rest
    BY <1>1, <1>7 DEF Reset, Enter, EnterAs, Leave, Goto, client, work, Locals
  <2> QED
    BY <1>2, <2>1
<1>8. CASE Answer(t) \/ AnswerLost(t)
  <2>1. /\ Over(t) /\ \A u \in Tabs : u # t => page'[u] = page[u]
        /\ \A u \in Tabs : BrowserOf[u] # BrowserOf[t] => jar'[BrowserOf[u]] = jar[BrowserOf[u]]
    BY <1>1, <1>8 DEF Answer, AnswerLost, client, Client
  <2>2. \A u \in Tabs : u # t =>
          /\ pc'[u] = pc[u] /\ set'[u] = set[u] /\ sent'[u] = sent[u]
          /\ who'[u] = who[u] /\ base'[u] = base[u] /\ says'[u] = says[u] /\ takes'[u] = takes[u]
    BY <1>1, <2>1 DEF Over, Goto, Locals
  <2>3. Rest
    BY <2>1, <2>2
  <2> QED
    BY <1>2, <2>3
<1> QED
  BY <1>3, <1>4, <1>5, <1>6, <1>7, <1>8

(* What a request sets, at the end of each of its steps. *)
LEMMA ServerCookies ==
  ASSUME TypeInv, NEW t \in Tabs, TabInv(t),
         \/ Start(t) \/ Ask(t) \/ Turn(t) \/ Learn(t) \/ SaveTurn(t) \/ TurnFails(t) \/ Note(t)
         \/ Edit(t) \/ SaveEdit(t) \/ Finish(t) \/ ResetTurns(t) \/ Reset(t) \/ Enter(t) \/ Leave(t)
  PROVE  TabInv(t)'
<1>1. Locals /\ Rows
  BY TypeParts DEF TypeInv
<1>2. UNCHANGED <<client, sent, expiries>> /\ pc[t] \notin {"idle", "answer"}
  BY DEF Start, Ask, Turn, Learn, SaveTurn, TurnFails, Note, Edit, SaveEdit, Finish, ResetTurns, Reset, Enter,
         EnterAs, Leave, bounds
<1>3. Makes(t) /\ (expiries = 0 => sent[t] = jar[BrowserOf[t]]) /\ (page[t] => jar[BrowserOf[t]]["me"] \in Personas)
      /\ (pc[t] = "leave" => page[t])
  BY <1>2 DEF TabInv
<1>4. ASSUME pc'[t] # "leave", Makes(t)' \/ (pc'[t] = "answer" /\ (Changes(t) \/ Borrows(t) \/ Returning(t))')
      PROVE  TabInv(t)'
  BY <1>2, <1>3, <1>4 DEF TabInv, client
<1>5. \A label : Goto(t, label) => pc'[t] = label
  BY <1>1 DEF Goto, Locals
<1>6. CASE Start(t) \/ Ask(t) \/ Turn(t)
  <2>1. PICK label \in {"answer", "turn", "learn"} : Ensure(t, label)
    BY <1>6 DEF Start, Ask, Turn
  <2>2. pc'[t] = label
    BY <1>5, <2>1 DEF Ensure
  <2>3. CASE UNCHANGED set
    BY <1>3, <1>4, <2>2, <2>3 DEF Makes
  <2>4. CASE created < MaxProfiles /\ created' = created + 1 /\ set' = [set EXCEPT ![t] = With(set[t], "me", created')]
    <3>1. set'[t] = With(set[t], "me", created')
      BY <1>1, <2>4 DEF Locals
    <3>2. DOMAIN set'[t] = {"me"} /\ set'[t]["me"] = created'
      BY <1>3, <3>1 DEF Makes, With
    <3>3. created' \in Own
      BY <1>1, <2>4, IdsDiffer DEF Rows, Own
    <3> QED
      BY <1>4, <2>2, <3>2, <3>3 DEF Makes
  <2> QED
    BY <1>1, <2>1, <2>3, <2>4 DEF Ensure, Locals
<1>7. CASE Edit(t) \/ Finish(t)
  <2>1. UNCHANGED set /\ pc'[t] # "leave"
    BY <1>5, <1>7 DEF Edit, Finish, Current
  <2> QED
    BY <1>3, <1>4, <2>1 DEF Makes
<1>8. CASE Learn(t) \/ SaveTurn(t) \/ TurnFails(t) \/ Note(t) \/ SaveEdit(t) \/ ResetTurns(t)
  <2>1. UNCHANGED set /\ pc'[t] # "leave"
    BY <1>5, <1>8 DEF Learn, SaveTurn, TurnFails, Note, SaveEdit, ResetTurns
  <2> QED
    BY <1>3, <1>4, <2>1 DEF Makes
<1>9. CASE Reset(t)
  <2>1. set'[t] = [c \in {"me"} |-> None] /\ pc'[t] = "answer"
    BY <1>1, <1>5, <1>9 DEF Reset, Locals
  <2>2. DOMAIN set'[t] = {"me"} /\ set'[t]["me"] = None
    BY <2>1
  <2> QED
    BY <1>4, <2>1, <2>2 DEF Makes
<1>10. CASE Leave(t)
  <2>1. set'[t] = [c \in Cookies |-> IF c = "me" THEN sent[t]["prev"] ELSE None] /\ pc'[t] = "answer"
    BY <1>1, <1>5, <1>10 DEF Leave, Locals
  <2>2. DOMAIN set'[t] = Cookies /\ set'[t]["me"] = sent[t]["prev"] /\ set'[t]["prev"] = None
    BY <2>1 DEF Cookies
  <2>3. page'[t] /\ sent'[t] = sent[t]
    BY <1>2, <1>3, <1>10 DEF Leave, client
  <2> QED
    BY <1>4, <2>1, <2>2, <2>3 DEF Returning
<1>11. CASE Enter(t)
  <2>1. who[t] \in Personas /\ sent'[t] = sent[t] /\ pc'[t] = "answer" /\ sent[t]["me"] \in Values
    BY <1>1, <1>2, <1>5, <1>11 DEF Enter, EnterAs, TypeInv, Locals, Jar, Values, Cookies
  <2>2. CASE sent[t]["me"] # None /\ sent[t]["me"] \notin Personas
    <3>1. set'[t] = [c \in Cookies |-> IF c = "me" THEN who[t] ELSE sent[t]["me"]]
      BY <1>1, <1>11, <2>2 DEF Enter, EnterAs, Locals
    <3>2. DOMAIN set'[t] = Cookies /\ set'[t]["me"] = who[t] /\ set'[t]["prev"] = sent[t]["me"]
      BY <3>1 DEF Cookies
    <3>3. sent[t]["me"] \in Own
      BY <2>1, <2>2 DEF Values, Ids
    <3> QED
      BY <1>4, <2>1, <3>2, <3>3 DEF Borrows
  <2>3. CASE ~(sent[t]["me"] # None /\ sent[t]["me"] \notin Personas)
    <3>1. set'[t] = [c \in {"me"} |-> IF c = "me" THEN who[t] ELSE sent[t]["me"]]
      BY <1>1, <1>11, <2>3 DEF Enter, EnterAs, Locals
    <3>2. DOMAIN set'[t] = {"me"} /\ set'[t]["me"] = who[t]
      BY <3>1
    <3> QED
      BY <1>4, <2>1, <2>3, <3>2 DEF Changes
  <2> QED
    BY <2>2, <2>3
<1> QED
  BY <1>6, <1>7, <1>8, <1>9, <1>10, <1>11

(* What an answer does to its browser. *)
LEMMA AnswerIs ==
  ASSUME TypeInv, NEW t \in Tabs, Answer(t)
  PROVE  LET b == BrowserOf[t]
             me == IF "me" \in DOMAIN set[t] THEN set[t]["me"] ELSE jar[b]["me"]
             prev == IF "prev" \in DOMAIN set[t] THEN set[t]["prev"] ELSE jar[b]["prev"]
         IN  /\ jar'[b]["me"] = me /\ jar'[b]["prev"] = prev
             /\ home'[b] = IF DOMAIN set[t] = {"me"} /\ me \notin Personas THEN me ELSE home[b]
             /\ page'[t] = (me \in Personas)
             /\ \A a \in Browsers : a # b => jar'[a] = jar[a] /\ home'[a] = home[a]
<1> DEFINE b == BrowserOf[t]
           new == [c \in Cookies |-> IF c \in DOMAIN set[t] THEN set[t][c] ELSE jar[b][c]]
<1>1. Client /\ b \in Browsers
  BY TypeParts, ProfilesAssumption DEF TypeInv
<1>2. /\ jar' = [jar EXCEPT ![b] = new] /\ page' = [page EXCEPT ![t] = new["me"] \in Personas]
      /\ home' = [home EXCEPT ![b] = IF DOMAIN set[t] = {"me"} /\ new["me"] \notin Personas THEN new["me"] ELSE @]
  BY DEF Answer
<1>3. /\ new["me"] = IF "me" \in DOMAIN set[t] THEN set[t]["me"] ELSE jar[b]["me"]
      /\ new["prev"] = IF "prev" \in DOMAIN set[t] THEN set[t]["prev"] ELSE jar[b]["prev"]
  BY DEF Cookies
<1> HIDE DEF new, b
<1>4. /\ jar'[b] = new /\ page'[t] = (new["me"] \in Personas)
      /\ home'[b] = IF DOMAIN set[t] = {"me"} /\ new["me"] \notin Personas THEN new["me"] ELSE home[b]
      /\ \A a \in Browsers : a # b => jar'[a] = jar[a] /\ home'[a] = home[a]
  BY <1>1, <1>2 DEF Client
<1> QED
  BY <1>3, <1>4 DEF b

(* At the start no tab sets a cookie, and no page shows a banner. *)
LEMMA CookiesInit == Init => CookiesInv
BY DEF Init, CookiesInv, TabInv, Makes

(* Another tab's step leaves the only tab of a browser as it is. *)
LEMMA OthersCookies ==
  ASSUME TypeInv, CookiesInv, NEW t \in Tabs,
         \/ \E kind \in Kinds : Send(t, kind)
         \/ \E persona \in Personas : SendEnter(t, persona)
         \/ \E fact \in Facts, add \in BOOLEAN : SendEdit(t, fact, add)
         \/ Start(t) \/ Ask(t) \/ Turn(t) \/ Learn(t) \/ SaveTurn(t) \/ TurnFails(t) \/ Note(t)
         \/ Edit(t) \/ SaveEdit(t) \/ Finish(t) \/ ResetTurns(t) \/ Reset(t) \/ Enter(t) \/ Leave(t)
         \/ Answer(t) \/ AnswerLost(t),
         Alone(BrowserOf[t]) => TabInv(t)'
  PROVE  CookiesInv'
<1>1. ASSUME NEW u \in Tabs, u # t, Alone(BrowserOf[u]) PROVE TabInv(u)'
  <2>1. TabInv(u) /\ BrowserOf[u] # BrowserOf[t]
    BY <1>1 DEF CookiesInv, Alone
  <2>2. /\ pc'[u] = pc[u] /\ set'[u] = set[u] /\ sent'[u] = sent[u] /\ page'[u] = page[u]
        /\ jar'[BrowserOf[u]] = jar[BrowserOf[u]] /\ expiries' = expiries
    BY <1>1, <2>1, OtherTabs
  <2> QED
    BY <2>1, <2>2, OthersKept
<1> QED
  BY <1>1 DEF CookiesInv

(* A request learns what it sets; while a visitor has one request at a time,*)
(* nothing sets a cookie between sending a request and its answer.          *)
LEMMA CookiesNext == TypeInv /\ CookiesInv /\ [Next]_vars => CookiesInv'
<1> SUFFICES ASSUME TypeInv, CookiesInv, [Next]_vars PROVE CookiesInv'
  OBVIOUS
<1>1. Locals /\ Client /\ expiries \in Nat /\ \A u \in Tabs : BrowserOf[u] \in Browsers
  BY TypeParts, ProfilesAssumption DEF TypeInv
<1>2. ASSUME NEW t \in Tabs,
             \/ \E kind \in Kinds : Send(t, kind)
             \/ \E persona \in Personas : SendEnter(t, persona)
             \/ \E fact \in Facts, add \in BOOLEAN : SendEdit(t, fact, add)
      PROVE  CookiesInv'
  <2>1. pc[t] = "idle" /\ sent' = [sent EXCEPT ![t] = jar[BrowserOf[t]]] /\ UNCHANGED <<client, set, expiries>>
    BY <1>2 DEF Send, SendEnter, SendEdit, work
  <2>2. pc'[t] # "answer" /\ (pc'[t] = "leave" => page[t])
    BY <1>1, <1>2 DEF Send, SendEnter, SendEdit, Goto, Kinds, Locals
  <2>3. ASSUME TabInv(t) PROVE TabInv(t)'
    <3>1. sent'[t] = jar'[BrowserOf[t]] /\ Makes(t)' /\ page'[t] = page[t]
      BY <1>1, <2>1, <2>3 DEF Locals, client, TabInv, Makes
    <3> QED
      BY <2>1, <2>2, <2>3, <3>1 DEF TabInv, client
  <2> QED
    BY <1>2, <2>3, OthersCookies DEF CookiesInv
<1>3. ASSUME NEW t \in Tabs,
             \/ Start(t) \/ Ask(t) \/ Turn(t) \/ Learn(t) \/ SaveTurn(t) \/ TurnFails(t) \/ Note(t)
             \/ Edit(t) \/ SaveEdit(t) \/ Finish(t) \/ ResetTurns(t) \/ Reset(t) \/ Enter(t) \/ Leave(t)
      PROVE  CookiesInv'
  <2>1. TabInv(t) => TabInv(t)'
    BY <1>3, ServerCookies
  <2> QED
    BY <1>3, <2>1, OthersCookies DEF CookiesInv
<1>4. ASSUME NEW t \in Tabs, Answer(t) \/ AnswerLost(t) PROVE CookiesInv'
  <2>1. pc'[t] = "idle" /\ Makes(t)'
    BY <1>1, <1>4 DEF Answer, AnswerLost, Over, Goto, Locals, Makes
  <2>2. ASSUME TabInv(t), page'[t] PROVE jar'[BrowserOf[t]]["me"] \in Personas
    <3>1. CASE Answer(t)
      BY <2>2, <3>1, AnswerIs
    <3>2. CASE AnswerLost(t)
      BY <2>2, <3>2 DEF AnswerLost, client, TabInv
    <3> QED
      BY <1>4, <3>1, <3>2
  <2>3. TabInv(t) => TabInv(t)'
    BY <2>1, <2>2 DEF TabInv
  <2> QED
    BY <1>4, <2>3, OthersCookies DEF CookiesInv
<1>5. ASSUME NEW b \in Browsers, Expire(b) PROVE CookiesInv'
  <2>1. UNCHANGED <<page, pc, sent, set>> /\ jar' = [jar EXCEPT ![b]["prev"] = None] /\ expiries' = expiries + 1
    BY <1>5 DEF Expire
  <2>2. expiries' # 0
    BY <1>1, <2>1
  <2>3. \A a \in Browsers : jar'[a]["me"] = jar[a]["me"]
    BY <1>1, <2>1 DEF Client, Jar, Cookies
  <2>4. ASSUME NEW t \in Tabs, TabInv(t) PROVE TabInv(t)'
    BY <1>1, <2>1, <2>2, <2>3, <2>4 DEF TabInv, Makes, Changes, Borrows, Returning
  <2> QED
    BY <2>4 DEF CookiesInv
<1>6. CASE Crash
  <2>1. \A t \in Tabs : pc'[t] = "idle" /\ DOMAIN set'[t] = {}
    BY <1>6 DEF Crash
  <2>2. UNCHANGED client
    BY <1>6 DEF Crash
  <2> QED
    BY <2>1, <2>2 DEF CookiesInv, TabInv, Makes, client
<1>7. CASE UNCHANGED vars
  BY <1>7 DEF vars, client, bounds, CookiesInv, TabInv, Makes, Changes, Borrows, Returning
<1> QED
  BY <1>2, <1>3, <1>4, <1>5, <1>6, <1>7 DEF Next

(* The way back survives every answer, and nothing else touches it. *)
LEMMA WayBackNext == TypeInv /\ CookiesInv /\ WayBack /\ [Next]_vars => WayBack'
<1> DEFINE AllHome == \A b \in Browsers : Alone(b) => LeadsHome(b)
<1> SUFFICES ASSUME TypeInv, CookiesInv, WayBack, [Next]_vars, expiries' = 0 PROVE AllHome'
  BY DEF WayBack
<1>1. Locals /\ Client /\ expiries \in Nat /\ \A u \in Tabs : BrowserOf[u] \in Browsers
  BY TypeParts, ProfilesAssumption DEF TypeInv
<1>2. ASSUME UNCHANGED <<client, expiries>> PROVE AllHome'
  BY <1>2 DEF WayBack, LeadsHome, client
<1>3. ASSUME NEW t \in Tabs, Answer(t) PROVE AllHome'
  <2> DEFINE b == BrowserOf[t]
  <2>1. expiries = 0 /\ pc[t] = "answer"
    BY <1>3 DEF Answer, bounds
  <2>2. b \in Browsers
    BY <1>1
  <2>3. Alone(b) => /\ sent[t] = jar[b] /\ (page[t] => jar[b]["me"] \in Personas)
                    /\ Makes(t) \/ Changes(t) \/ Borrows(t) \/ Returning(t)
    BY <2>1 DEF CookiesInv, TabInv
  <2>4. \A a \in Browsers : Alone(a) => LeadsHome(a)
    BY <2>1 DEF WayBack
  <2>5. home[b] \in Own \cup {None} /\ home[b] \notin Personas
    BY <1>1, <2>2, IdsDiffer DEF Client
  <2>6. /\ jar'[b]["me"] = IF "me" \in DOMAIN set[t] THEN set[t]["me"] ELSE jar[b]["me"]
        /\ jar'[b]["prev"] = IF "prev" \in DOMAIN set[t] THEN set[t]["prev"] ELSE jar[b]["prev"]
        /\ home'[b] = IF DOMAIN set[t] = {"me"} /\ jar'[b]["me"] \notin Personas THEN jar'[b]["me"] ELSE home[b]
        /\ \A a \in Browsers : a # b => jar'[a] = jar[a] /\ home'[a] = home[a]
    BY <1>3, AnswerIs
  <2> HIDE DEF b
  <2>7. ASSUME Alone(b) PROVE LeadsHome(b)'
    <3>1. home[b] # None => jar[b]["me"] = home[b] \/ (jar[b]["me"] \in Personas /\ jar[b]["prev"] = home[b])
      BY <2>2, <2>4, <2>7 DEF LeadsHome
    <3>2. CASE Makes(t)
      <4>1. CASE DOMAIN set[t] = {}
        BY <2>6, <3>1, <4>1 DEF LeadsHome
      <4>2. CASE DOMAIN set[t] = {"me"} /\ set[t]["me"] \in Own \cup {None}
        BY <2>6, <4>2, IdsDiffer DEF LeadsHome
      <4> QED
        BY <3>2, <4>1, <4>2 DEF Makes
    <3>3. CASE Changes(t)
      <4>1. "prev" \notin DOMAIN set[t] /\ "me" \in DOMAIN set[t]
        BY <3>3 DEF Changes
      <4>2. jar'[b]["me"] \in Personas /\ jar'[b]["prev"] = jar[b]["prev"] /\ home'[b] = home[b]
        BY <2>6, <3>3, <4>1 DEF Changes
      <4>3. home[b] # None => jar[b]["prev"] = home[b]
        BY <2>3, <2>5, <2>7, <3>1, <3>3 DEF Changes
      <4> QED
        BY <4>2, <4>3 DEF LeadsHome
    <3>4. CASE Borrows(t)
      <4>1. /\ jar'[b]["me"] \in Personas /\ jar'[b]["prev"] = jar[b]["me"] /\ jar[b]["me"] \in Own
            /\ home'[b] = home[b]
        BY <2>3, <2>6, <2>7, <3>4 DEF Borrows, Cookies
      <4> QED
        BY <3>1, <4>1, IdsDiffer DEF LeadsHome
    <3>5. CASE Returning(t)
      <4>1. /\ jar'[b]["me"] = jar[b]["prev"] /\ jar[b]["me"] \in Personas /\ home'[b] = home[b]
        BY <2>3, <2>6, <2>7, <3>5 DEF Returning, Cookies
      <4> QED
        BY <2>5, <3>1, <4>1 DEF LeadsHome
    <3> QED
      BY <2>3, <2>7, <3>2, <3>3, <3>4, <3>5
  <2>8. ASSUME NEW a \in Browsers, a # b, Alone(a) PROVE LeadsHome(a)'
    BY <2>4, <2>6, <2>8 DEF LeadsHome
  <2> QED
    BY <2>7, <2>8
<1>4. ASSUME NEW t \in Tabs,
             \/ \E kind \in Kinds : Send(t, kind)
             \/ \E persona \in Personas : SendEnter(t, persona)
             \/ \E fact \in Facts, add \in BOOLEAN : SendEdit(t, fact, add)
      PROVE  AllHome'
  BY <1>2, <1>4 DEF Send, SendEnter, SendEdit
<1>5. ASSUME NEW t \in Tabs,
             \/ Start(t) \/ Ask(t) \/ Turn(t) \/ Learn(t) \/ SaveTurn(t) \/ TurnFails(t) \/ Note(t)
             \/ Edit(t) \/ SaveEdit(t) \/ Finish(t) \/ ResetTurns(t) \/ Reset(t) \/ Enter(t) \/ Leave(t) \/ AnswerLost(t)
      PROVE  AllHome'
  BY <1>2, <1>5 DEF Start, Ask, Turn, Learn, SaveTurn, TurnFails, Note, Edit, SaveEdit, Finish, ResetTurns, Reset,
                    Enter, EnterAs, Leave, AnswerLost, bounds
<1>6. ASSUME NEW b \in Browsers, Expire(b) PROVE FALSE
  BY <1>1, <1>6 DEF Expire
<1>7. CASE Crash
  BY <1>2, <1>7 DEF Crash
<1>8. CASE UNCHANGED vars
  BY <1>2, <1>8 DEF vars, bounds
<1> QED
  BY <1>3, <1>4, <1>5, <1>6, <1>7, <1>8 DEF Next

(* Whatever personas a visitor who has one request at a time enters and     *)
(* leaves, whatever answers are lost, whatever store a restart finds and    *)
(* whatever other visitors do: until a cookie expires their own profile is  *)
(* the one in their cookie, or the one that leaving brings back.            *)
THEOREM WayBackStays == Spec => []WayBack
<1>1. Init => WayBack
  BY DEF Init, WayBack, LeadsHome
<1> QED
  BY <1>1, TypeInit, TypeNext, CookiesInit, CookiesNext, WayBackNext, PTL DEF Spec

----------------------------------------------------------------------------
\* What changes a profile

(* The profiles a tab's visitor has to do with. *)
Held(t) ==
  {jar[BrowserOf[t]]["me"], jar[BrowserOf[t]]["prev"], sent[t]["me"], sent[t]["prev"], who[t]}
    \cup {set[t][c] : c \in DOMAIN set[t]}

(* Own profiles were created once, and each is one browser's. *)
HeldInv ==
  /\ \A t \in Tabs : Held(t) \cap Own \subseteq 1 .. created
  /\ \A t, u \in Tabs : BrowserOf[t] # BrowserOf[u] => Held(t) \cap Held(u) \cap Own = {}

(* A row is in one store only, and who is about to write one read it as it *)
(* still is, but for what the browser's other requests have changed.       *)
AsRead(t) == \A f \in Facts : (f \in base[t]) # (f \in profiles[who[t]]) => f \in late[t]
RowsInv ==
  /\ DOMAIN profiles \cap Own \subseteq 1 .. created /\ DOMAIN disk \cap Own \subseteq 1 .. created
  /\ DOMAIN profiles \cap DOMAIN disk \cap Own = {}
  /\ \A t \in Tabs : pc[t] \in {"learn", "save", "apply"} /\ who[t] \in Own => AsRead(t)

(* What a tab's step may add to them: a persona, nothing, or a profile that *)
(* did not exist.                                                           *)
More(t) == Held(t) \cup Personas \cup {None} \cup (created + 1) .. created'

(* A step of a tab adds no more. *)
LEMMA HeldGrows ==
  ASSUME TypeInv, NEW t \in Tabs,
         \/ \E kind \in Kinds : Send(t, kind)
         \/ \E persona \in Personas : SendEnter(t, persona)
         \/ \E fact \in Facts, add \in BOOLEAN : SendEdit(t, fact, add)
         \/ Start(t) \/ Ask(t) \/ Turn(t) \/ Learn(t) \/ SaveTurn(t) \/ TurnFails(t) \/ Note(t)
         \/ Edit(t) \/ SaveEdit(t) \/ Finish(t) \/ ResetTurns(t) \/ Reset(t) \/ Enter(t) \/ Leave(t)
         \/ Answer(t) \/ AnswerLost(t)
  PROVE  created' \in {created, created + 1} /\ created' \in 0 .. MaxProfiles /\ Held(t)' \subseteq More(t)
<1>1. Locals /\ Rows /\ Client /\ BrowserOf[t] \in Browsers
  BY TypeParts, ProfilesAssumption DEF TypeInv
<1>2. CASE \/ \E kind \in Kinds : Send(t, kind)
           \/ \E persona \in Personas : SendEnter(t, persona)
           \/ \E fact \in Facts, add \in BOOLEAN : SendEdit(t, fact, add)
  <2>1. /\ sent' = [sent EXCEPT ![t] = jar[BrowserOf[t]]] /\ UNCHANGED <<jar, set, created>>
    BY <1>2 DEF Send, SendEnter, SendEdit, client, tables
  <2>2. who'[t] = who[t] \/ who'[t] \in Personas
    BY <1>1, <1>2 DEF Send, SendEnter, SendEdit, work, Locals
  <2>3. sent'[t] = jar[BrowserOf[t]]
    BY <1>1, <2>1 DEF Locals
  <2> QED
    BY <1>1, <2>1, <2>2, <2>3 DEF Held, More, Rows
<1>3. CASE Start(t) \/ Ask(t) \/ Turn(t)
  <2>1. PICK label : Ensure(t, label)
    BY <1>3 DEF Start, Ask, Turn
  <2>2. UNCHANGED <<jar, sent>>
    BY <1>3 DEF Start, Ask, Turn, client
  <2>3. CASE sent[t]["me"] \in DOMAIN profiles
    <3>1. who'[t] = sent[t]["me"] /\ UNCHANGED <<created, set>>
      BY <1>1, <2>1, <2>3 DEF Ensure, Locals
    <3> QED
      BY <1>1, <2>2, <3>1 DEF Held, More, Rows
  <2>4. CASE sent[t]["me"] \notin DOMAIN profiles
    <3>1. who'[t] = created' /\ created' = created + 1 /\ created < MaxProfiles /\ set'[t] = With(set[t], "me", created')
      BY <1>1, <2>1, <2>4 DEF Ensure, Locals
    <3>2. \A c \in DOMAIN set'[t] : set'[t][c] = created' \/ (c \in DOMAIN set[t] /\ set'[t][c] = set[t][c])
      BY <3>1 DEF With
    <3>3. created' \in (created + 1) .. created' /\ created' \in 0 .. MaxProfiles
      BY <1>1, <3>1, IdsDiffer DEF Rows
    <3> QED
      BY <2>2, <3>1, <3>2, <3>3 DEF Held, More
  <2> QED
    BY <2>3, <2>4
<1>4. CASE Edit(t) \/ Finish(t)
  <2>1. UNCHANGED <<jar, sent, set, created>> /\ who'[t] \in {who[t], sent[t]["me"]}
    BY <1>1, <1>4 DEF Edit, Finish, Current, client, tables, Locals
  <2> QED
    BY <1>1, <2>1 DEF Held, More, Rows
<1>5. CASE Learn(t) \/ SaveTurn(t) \/ TurnFails(t) \/ Note(t) \/ SaveEdit(t) \/ ResetTurns(t)
  <2>1. UNCHANGED <<jar, sent, set, who, created>>
    BY <1>5 DEF Learn, SaveTurn, TurnFails, Note, SaveEdit, Upsert, ResetTurns, client, work, tables
  <2> QED
    BY <1>1, <2>1 DEF Held, More, Rows
<1>6. CASE Reset(t) \/ Enter(t) \/ Leave(t)
  <2>1. UNCHANGED <<jar, sent, who, created>>
    BY <1>6 DEF Reset, Enter, EnterAs, Leave, client, work, tables
  <2>2. \A c \in DOMAIN set'[t] : set'[t][c] \in {None, who[t], sent[t]["me"], sent[t]["prev"]}
    BY <1>1, <1>6 DEF Reset, Enter, EnterAs, Leave, Locals
  <2> QED
    BY <1>1, <2>1, <2>2 DEF Held, More, Rows
<1>7. CASE Answer(t) \/ AnswerLost(t)
  <2>1. who'[t] = None /\ sent'[t]["me"] = None /\ sent'[t]["prev"] = None /\ DOMAIN set'[t] = {}
    <3>1. /\ sent' = [sent EXCEPT ![t] = [c \in Cookies |-> None]] /\ who' = [who EXCEPT ![t] = None]
          /\ set' = [set EXCEPT ![t] = [c \in {} |-> None]]
      BY <1>7 DEF Answer, AnswerLost, Over
    <3> QED
      BY <1>1, <3>1 DEF Locals, Cookies
  <2>2. UNCHANGED created
    BY <1>7 DEF Answer, AnswerLost, tables
  <2>3. jar'[BrowserOf[t]]["me"] \in Held(t) /\ jar'[BrowserOf[t]]["prev"] \in Held(t)
    <3>1. CASE Answer(t)
      BY <3>1, AnswerIs DEF Held
    <3>2. CASE AnswerLost(t)
      BY <3>2 DEF AnswerLost, client, Held
    <3> QED
      BY <1>7, <3>1, <3>2
  <2> QED
    BY <1>1, <2>1, <2>2, <2>3 DEF Held, More, Rows
<1> QED
  BY <1>2, <1>3, <1>4, <1>5, <1>6, <1>7

(* Profiles that were created, or are held by a tab, stay one browser's.    *)
LEMMA HeldKept ==
  ASSUME TypeInv, HeldInv, NEW t \in Tabs, created' \in {created, created + 1},
         \A u \in Tabs : BrowserOf[u] = BrowserOf[t] => Held(u)' \subseteq Held(u) \cup More(t),
         \A u \in Tabs : BrowserOf[u] # BrowserOf[t] => Held(u)' \subseteq Held(u)
  PROVE  HeldInv'
<1> DEFINE New == (created + 1) .. created'
           Mine(u) == BrowserOf[u] = BrowserOf[t]
<1>1. created \in Nat /\ created <= created' /\ created' \in Nat
  BY TypeParts, IdsDiffer DEF TypeInv, Rows
<1>2. 1 .. created \subseteq 1 .. created' /\ New \subseteq 1 .. created' /\ 1 .. created \cap New = {}
  BY <1>1
<1>3. \A u \in Tabs : Mine(u) => Held(u)' \cap Own \subseteq ((Held(u) \cup Held(t)) \cap Own) \cup New
  BY IdsDiffer DEF More
<1>4. \A u \in Tabs : ~Mine(u) => Held(u)' \cap Own \subseteq Held(u) \cap Own
  OBVIOUS
<1>5. \A u \in Tabs : Held(u) \cap Own \subseteq 1 .. created
  BY DEF HeldInv
<1>6. \A u, v \in Tabs : BrowserOf[u] # BrowserOf[v] => Held(u) \cap Held(v) \cap Own = {}
  BY DEF HeldInv
<1> HIDE DEF New
<1>7. \A u \in Tabs : Held(u)' \cap Own \subseteq 1 .. created'
  BY <1>2, <1>3, <1>4, <1>5
<1>8. ASSUME NEW u \in Tabs, NEW v \in Tabs, Mine(u), ~Mine(v) PROVE Held(u)' \cap Held(v)' \cap Own = {}
  <2>1. Held(v) \cap Own \cap New = {}
    BY <1>2, <1>5
  <2>2. Held(u) \cap Held(v) \cap Own = {} /\ Held(t) \cap Held(v) \cap Own = {}
    BY <1>6, <1>8
  <2> QED
    BY <1>3, <1>4, <1>8, <2>1, <2>2
<1>9. ASSUME NEW u \in Tabs, NEW v \in Tabs, ~Mine(u), ~Mine(v), BrowserOf[u] # BrowserOf[v]
      PROVE  Held(u)' \cap Held(v)' \cap Own = {}
  BY <1>4, <1>6, <1>9
<1>10. \A u, v \in Tabs : BrowserOf[u] # BrowserOf[v] => Held(u)' \cap Held(v)' \cap Own = {}
  BY <1>8, <1>9
<1>11. Own' = Own
  BY DEF Own
<1> QED
  BY <1>7, <1>10, <1>11 DEF HeldInv

(* No tab's step takes another browser's profile. *)
LEMMA HeldNext == TypeInv /\ HeldInv /\ [Next]_vars => HeldInv'
<1> SUFFICES ASSUME TypeInv, HeldInv, [Next]_vars PROVE HeldInv'
  OBVIOUS
<1>1. Locals /\ Client /\ Rows /\ \A u \in Tabs : BrowserOf[u] \in Browsers
  BY TypeParts, ProfilesAssumption DEF TypeInv
<1>2. ASSUME NEW t \in Tabs,
             \/ \E kind \in Kinds : Send(t, kind)
             \/ \E persona \in Personas : SendEnter(t, persona)
             \/ \E fact \in Facts, add \in BOOLEAN : SendEdit(t, fact, add)
             \/ Start(t) \/ Ask(t) \/ Turn(t) \/ Learn(t) \/ SaveTurn(t) \/ TurnFails(t) \/ Note(t)
             \/ Edit(t) \/ SaveEdit(t) \/ Finish(t) \/ ResetTurns(t) \/ Reset(t) \/ Enter(t) \/ Leave(t)
             \/ Answer(t) \/ AnswerLost(t)
      PROVE  HeldInv'
  <2>1. created' \in {created, created + 1} /\ Held(t)' \subseteq More(t)
    BY <1>2, HeldGrows
  <2>2. \A u \in Tabs : u # t => set'[u] = set[u] /\ sent'[u] = sent[u] /\ who'[u] = who[u]
    BY <1>2, OtherTabs
  <2>3. ASSUME NEW u \in Tabs, BrowserOf[u] # BrowserOf[t] PROVE Held(u)' \subseteq Held(u)
    <3>1. u # t
      BY <2>3
    <3>2. jar'[BrowserOf[u]] = jar[BrowserOf[u]]
      BY <1>2, <2>3, <3>1, OtherTabs
    <3> QED
      BY <2>2, <3>1, <3>2 DEF Held
  <2>4. ASSUME NEW u \in Tabs, BrowserOf[u] = BrowserOf[t] PROVE Held(u)' \subseteq Held(u) \cup More(t)
    <3>1. CASE u = t
      BY <2>1, <3>1
    <3>2. CASE u # t
      <4>1. jar'[BrowserOf[u]]["me"] \in More(t) /\ jar'[BrowserOf[u]]["prev"] \in More(t)
        BY <2>1, <2>4 DEF Held
      <4> QED
        BY <2>2, <3>2, <4>1 DEF Held
    <3> QED
      BY <3>1, <3>2
  <2> QED
    BY <2>1, <2>3, <2>4, HeldKept
<1>3. ASSUME UNCHANGED created, \A u \in Tabs : Held(u)' \subseteq Held(u) \cup {None} PROVE HeldInv'
  <2>1. \A u \in Tabs : Held(u)' \cap Own \subseteq Held(u) \cap Own
    BY <1>3, IdsDiffer
  <2>2. Own' = Own
    BY DEF Own
  <2> QED
    BY <1>3, <2>1, <2>2 DEF HeldInv
<1>4. ASSUME NEW b \in Browsers, Expire(b) PROVE HeldInv'
  <2>1. UNCHANGED <<created, sent, set, who>> /\ jar' = [jar EXCEPT ![b]["prev"] = None]
    BY <1>4 DEF Expire, tables, work
  <2>2. \A a \in Browsers : jar'[a]["me"] = jar[a]["me"] /\ jar'[a]["prev"] \in {jar[a]["prev"], None}
    BY <1>1, <2>1 DEF Client, Jar, Cookies
  <2> QED
    BY <1>1, <1>3, <2>1, <2>2 DEF Held
<1>5. CASE Crash
  <2>1. /\ UNCHANGED <<created, jar>>
        /\ \A u \in Tabs : who'[u] = None /\ sent'[u]["me"] = None /\ sent'[u]["prev"] = None /\ DOMAIN set'[u] = {}
    BY <1>5 DEF Crash, client, Cookies
  <2> QED
    BY <1>3, <2>1 DEF Held
<1>6. CASE UNCHANGED vars
  BY <1>3, <1>6 DEF vars, tables, client, work, Held
<1> QED
  BY <1>2, <1>4, <1>5, <1>6 DEF Next

(* A visitor nobody has seen yet holds nothing, and there are no rows. *)
LEMMA HeldInit == Init => HeldInv /\ RowsInv
<1> SUFFICES ASSUME Init PROVE HeldInv /\ RowsInv
  OBVIOUS
<1>1. \A t \in Tabs : Held(t) = {None}
  BY ProfilesAssumption DEF Init, Held, Cookies
<1>2. HeldInv
  BY <1>1, IdsDiffer DEF HeldInv
<1>3. DOMAIN profiles = {} /\ DOMAIN disk = {} /\ \A t \in Tabs : pc[t] = "idle"
  BY DEF Init, NoRows
<1> QED
  BY <1>2, <1>3 DEF RowsInv

(* What a tab's step may do to the table: nothing, a new row, the row it     *)
(* read with what was said of it, or a persona's.                           *)
Reads(t) ==
  /\ UNCHANGED <<profiles, created>>
  /\ pc'[t] \in {"learn", "save", "apply"} =>
       \/ base'[t] = profiles[who'[t]] \/ who'[t] \notin Own
       \/ pc[t] = "learn" /\ UNCHANGED <<who, base, late>>
Creates(t) ==
  /\ created' = created + 1 /\ created < MaxProfiles
  /\ profiles' = With(profiles, created', {}) /\ who'[t] = created' /\ base'[t] = {}
Saves(t) ==
  /\ pc[t] \in {"save", "apply"} /\ pc'[t] \notin {"learn", "save", "apply"}
  /\ Upsert(t) /\ UNCHANGED created
Masks(t) ==
  /\ who[t] \in Personas /\ pc'[t] \notin {"learn", "save", "apply"}
  /\ profiles' = With(profiles, who[t], Example) /\ UNCHANGED created

(* Only who writes what it read tells others that they are overtaken. *)
Quiet(t) == \A u \in Tabs : u # t => late'[u] = late[u]

(* A tab that is to write has just read the row, or only its model has      *)
(* answered since.                                                          *)
LEMMA RowsStep ==
  ASSUME TypeInv, NEW t \in Tabs,
         \/ \E kind \in Kinds : Send(t, kind)
         \/ \E persona \in Personas : SendEnter(t, persona)
         \/ \E fact \in Facts, add \in BOOLEAN : SendEdit(t, fact, add)
         \/ Start(t) \/ Ask(t) \/ Turn(t) \/ Learn(t) \/ SaveTurn(t) \/ TurnFails(t) \/ Note(t)
         \/ Edit(t) \/ SaveEdit(t) \/ Finish(t) \/ ResetTurns(t) \/ Reset(t) \/ Enter(t) \/ Leave(t)
         \/ Answer(t) \/ AnswerLost(t)
  PROVE  Saves(t) \/ (Quiet(t) /\ (Reads(t) \/ Creates(t) \/ Masks(t)))
<1>1. Locals
  BY TypeParts DEF TypeInv
<1>2. \A label : Goto(t, label) => pc'[t] = label
  BY <1>1 DEF Goto, Locals
<1>3. CASE \/ \E kind \in Kinds : Send(t, kind)
           \/ \E persona \in Personas : SendEnter(t, persona)
           \/ \E fact \in Facts, add \in BOOLEAN : SendEdit(t, fact, add)
  <2>1. UNCHANGED <<profiles, created, late>> /\ pc'[t] \notin {"learn", "save", "apply"}
    BY <1>2, <1>3 DEF Send, SendEnter, SendEdit, tables, work, Kinds
  <2> QED
    BY <2>1 DEF Reads, Quiet
<1>4. CASE Start(t) \/ Ask(t) \/ Turn(t)
  <2>1. PICK label : Ensure(t, label)
    BY <1>4 DEF Start, Ask, Turn
  <2>2. UNCHANGED late
    BY <1>4 DEF Start, Ask, Turn
  <2> QED
    BY <1>1, <2>1, <2>2 DEF Ensure, Reads, Creates, Quiet, Locals
<1>5. CASE Edit(t) \/ Finish(t)
  <2>1. (Current(t, "apply") \/ Current(t, "resetTurns")) /\ UNCHANGED <<profiles, created, late>>
    BY <1>5 DEF Edit, Finish, tables
  <2> QED
    BY <1>1, <1>2, <2>1 DEF Current, Reads, Quiet, Locals
<1>6. CASE Learn(t)
  BY <1>6 DEF Learn, tables, Reads, Quiet
<1>7. CASE SaveTurn(t) \/ SaveEdit(t)
  BY <1>2, <1>7 DEF SaveTurn, SaveEdit, Saves
<1>8. CASE TurnFails(t) \/ Note(t) \/ ResetTurns(t) \/ Reset(t) \/ Leave(t)
  <2>1. UNCHANGED <<profiles, created, late>> /\ pc'[t] = "answer"
    BY <1>2, <1>8 DEF TurnFails, Note, ResetTurns, Reset, Leave, tables, work
  <2> QED
    BY <2>1 DEF Reads, Quiet
<1>9. CASE Enter(t)
  BY <1>2, <1>9 DEF Enter, EnterAs, Masks, Quiet, TypeInv, work
<1>10. CASE Answer(t) \/ AnswerLost(t)
  <2>1. UNCHANGED <<profiles, created>> /\ pc'[t] = "idle" /\ late' = [late EXCEPT ![t] = {}]
    BY <1>2, <1>10 DEF Answer, AnswerLost, Over, tables
  <2> QED
    BY <1>1, <2>1 DEF Reads, Quiet, Locals
<1> QED
  BY <1>3, <1>4, <1>5, <1>6, <1>7, <1>8, <1>9, <1>10

(* A write is told to every other request that works on the row, and these  *)
(* are the browser's.                                                       *)
LEMMA SavesTell ==
  ASSUME TypeInv, HeldInv, NEW t \in Tabs, Saves(t), NEW u \in Tabs, u # t, who[t] \in Own,
         who[u] = who[t], pc[u] \in {"learn", "save", "apply"}, AsRead(u), NEW f \in Facts,
         (f \in base[u]) # (f \in profiles'[who[u]])
  PROVE  f \in late'[u]
<1>1. Locals /\ who[t] \in DOMAIN profiles
  BY TypeParts DEF TypeInv, Saves
<1>2. BrowserOf[u] = BrowserOf[t]
  <2>1. who[t] \in Held(t) \cap Held(u) \cap Own
    BY DEF Held
  <2> QED
    BY <2>1 DEF HeldInv
<1>3. Overtaken(u, t)
  BY <1>2 DEF Overtaken
<1>4. late'[u] = late[u] \cup (profiles[who[t]] \ Merged(t)) \cup (Merged(t) \ profiles[who[t]])
  BY <1>3 DEF Saves, Upsert
<1>5. profiles'[who[t]] = Merged(t)
  BY DEF Saves, Upsert, With
<1> QED
  BY <1>4, <1>5 DEF AsRead

(* Who is to write a row knows what changed since it read it. *)
LEMMA RowsNext == TypeInv /\ HeldInv /\ RowsInv /\ [Next]_vars => RowsInv'
<1> SUFFICES ASSUME TypeInv, HeldInv, RowsInv, [Next]_vars PROVE RowsInv'
  OBVIOUS
<1>1. Locals /\ Rows /\ created \in Nat
  BY TypeParts, IdsDiffer DEF TypeInv, Rows
<1>2. /\ DOMAIN profiles \cap Own \subseteq 1 .. created /\ DOMAIN disk \cap Own \subseteq 1 .. created
      /\ DOMAIN profiles \cap DOMAIN disk \cap Own = {}
      /\ \A t \in Tabs : pc[t] \in {"learn", "save", "apply"} /\ who[t] \in Own => AsRead(t)
  BY DEF RowsInv
<1>3. \A t \in Tabs : pc[t] \in {"learn", "save", "apply"} => who[t] \in DOMAIN profiles
  BY DEF TypeInv
<1>4. Own' = Own
  BY DEF Own
<1>5. ASSUME NEW t \in Tabs,
             \/ \E kind \in Kinds : Send(t, kind)
             \/ \E persona \in Personas : SendEnter(t, persona)
             \/ \E fact \in Facts, add \in BOOLEAN : SendEdit(t, fact, add)
             \/ Start(t) \/ Ask(t) \/ Turn(t) \/ Learn(t) \/ SaveTurn(t) \/ TurnFails(t) \/ Note(t)
             \/ Edit(t) \/ SaveEdit(t) \/ Finish(t) \/ ResetTurns(t) \/ Reset(t) \/ Enter(t) \/ Leave(t)
             \/ Answer(t) \/ AnswerLost(t)
      PROVE  RowsInv'
  <2>1. /\ UNCHANGED disk
        /\ \A u \in Tabs : u # t => pc'[u] = pc[u] /\ who'[u] = who[u] /\ base'[u] = base[u]
    BY <1>5, OtherTabs DEF store
  <2>2. ASSUME NEW u \in Tabs, u # t, Quiet(t), pc[u] \in {"learn", "save", "apply"}, who[u] \in Own,
               profiles'[who[u]] = profiles[who[u]]
        PROVE  AsRead(u)'
    BY <1>2, <2>1, <2>2 DEF AsRead, Quiet
  <2>3. ASSUME NEW new, profiles' = With(profiles, who[t], new), UNCHANGED created,
               who[t] \in Personas \/ who[t] \in DOMAIN profiles,
               \A u \in Tabs : pc'[u] \in {"learn", "save", "apply"} /\ who'[u] \in Own => AsRead(u)'
        PROVE  RowsInv'
    <3>1. DOMAIN profiles' \cap Own = DOMAIN profiles \cap Own
      BY <2>3, IdsDiffer DEF With
    <3> QED
      BY <1>2, <1>4, <2>1, <2>3, <3>1 DEF RowsInv
  <2>4. CASE Quiet(t) /\ Reads(t)
    <3>1. ASSUME pc'[t] \in {"learn", "save", "apply"}, who'[t] \in Own PROVE AsRead(t)'
      <4>1. CASE base'[t] = profiles[who'[t]]
        BY <2>4, <4>1 DEF AsRead, Reads
      <4>2. CASE pc[t] = "learn" /\ UNCHANGED <<who, base, late>>
        BY <1>2, <2>4, <3>1, <4>2 DEF AsRead, Reads
      <4> QED
        BY <2>4, <3>1, <4>1, <4>2 DEF Reads
    <3>2. \A u \in Tabs : pc'[u] \in {"learn", "save", "apply"} /\ who'[u] \in Own => AsRead(u)'
      BY <2>1, <2>2, <2>4, <3>1 DEF Reads
    <3> QED
      BY <1>2, <1>4, <2>1, <2>4, <3>2 DEF RowsInv, Reads
  <2>5. CASE Quiet(t) /\ Creates(t)
    <3>1. /\ created' \notin 1 .. created /\ created' \in 1 .. created' /\ 1 .. created \subseteq 1 .. created'
          /\ created' \in Own
      BY <1>1, <2>5, IdsDiffer DEF Creates, Own
    <3>2. /\ DOMAIN profiles' = DOMAIN profiles \cup {created'} /\ profiles'[created'] = {}
          /\ \A i \in DOMAIN profiles : i # created' => profiles'[i] = profiles[i]
      <4>1. profiles' = With(profiles, created', {})
        BY <2>5 DEF Creates
      <4> QED
        BY <4>1 DEF With
    <3>3. created' \notin DOMAIN profiles /\ created' \notin DOMAIN disk
      BY <1>2, <3>1
    <3>4. AsRead(t)'
      BY <2>5, <3>2 DEF AsRead, Creates
    <3>5. \A u \in Tabs : pc'[u] \in {"learn", "save", "apply"} /\ who'[u] \in Own => AsRead(u)'
      BY <1>3, <2>1, <2>2, <2>5, <3>2, <3>3, <3>4
    <3>6. /\ DOMAIN profiles' \cap Own \subseteq 1 .. created' /\ DOMAIN disk' \cap Own \subseteq 1 .. created'
          /\ DOMAIN profiles' \cap DOMAIN disk' \cap Own = {}
      BY <1>2, <2>1, <3>1, <3>2, <3>3
    <3> QED
      BY <1>4, <3>5, <3>6 DEF RowsInv
  <2>6. CASE Quiet(t) /\ Masks(t)
    <3>1. \A i \in DOMAIN profiles : i \in Own => profiles'[i] = profiles[i]
      BY <2>6, IdsDiffer DEF Masks, With
    <3>2. \A u \in Tabs : pc'[u] \in {"learn", "save", "apply"} /\ who'[u] \in Own => AsRead(u)'
      BY <1>3, <2>1, <2>2, <2>6, <3>1 DEF Masks
    <3> QED
      BY <2>3, <2>6, <3>2 DEF Masks
  <2>7. CASE Saves(t)
    <3>1. /\ profiles' = With(profiles, who[t], Merged(t)) /\ who[t] \in DOMAIN profiles
          /\ UNCHANGED <<created, who, base>> /\ pc'[t] \notin {"learn", "save", "apply"}
      BY <1>3, <2>7 DEF Saves, Upsert
    <3>2. ASSUME NEW u \in Tabs, pc'[u] \in {"learn", "save", "apply"}, who'[u] \in Own PROVE AsRead(u)'
      <4>1. u # t /\ pc[u] \in {"learn", "save", "apply"} /\ who[u] \in Own /\ AsRead(u)
        BY <1>2, <2>1, <3>1, <3>2
      <4>2. CASE who[u] = who[t]
        <5>1. ASSUME NEW f \in Facts, (f \in base[u]) # (f \in profiles'[who[u]]) PROVE f \in late'[u]
          BY <2>7, <4>1, <4>2, <5>1, SavesTell
        <5> QED
          BY <3>1, <5>1 DEF AsRead
      <4>3. CASE who[u] # who[t]
        <5>1. profiles'[who[u]] = profiles[who[u]]
          BY <1>3, <3>1, <4>1, <4>3 DEF With
        <5>2. late'[u] = late[u]
          BY <2>7, <4>3 DEF Saves, Upsert, Overtaken
        <5> QED
          BY <3>1, <4>1, <5>1, <5>2 DEF AsRead
      <4> QED
        BY <4>2, <4>3
    <3> QED
      BY <2>3, <3>1, <3>2
  <2> QED
    BY <1>5, <2>4, <2>5, <2>6, <2>7, RowsStep
<1>6. ASSUME NEW b \in Browsers, Expire(b) PROVE RowsInv'
  BY <1>2, <1>4, <1>6 DEF Expire, store, tables, work, RowsInv, AsRead
<1>7. CASE Crash
  <2>1. DOMAIN NoRows = {}
    BY DEF NoRows
  <2>2. /\ \/ profiles' \in {profiles, disk} /\ disk' = NoRows
           \/ profiles' = NoRows /\ disk' \in {profiles, disk}
        /\ UNCHANGED created /\ \A u \in Tabs : pc'[u] = "idle"
    BY <1>7 DEF Crash
  <2> QED
    BY <1>2, <1>4, <2>1, <2>2 DEF RowsInv
<1>8. CASE UNCHANGED vars
  BY <1>2, <1>4, <1>8 DEF vars, store, tables, work, RowsInv, AsRead
<1> QED
  BY <1>5, <1>6, <1>7, <1>8 DEF Next

(* What UndoneOnlyByOverlap says of a step. *)
OnlyUndone ==
  \A i \in Own \cap DOMAIN profiles \cap DOMAIN profiles', f \in Facts :
    (f \in profiles[i]) # (f \in profiles'[i]) =>
       \E t \in Tabs : /\ who[t] = i /\ pc'[t] # pc[t] /\ pc[t] \in {"save", "apply"}
                       /\ f \in Named(t) \/ (f \in late[t] /\ (f \in profiles'[i]) = (f \in base[t]))

(* A save of what was read, with what was said: a row that is another's, or *)
(* that was made by this step, or is in the file, is not the one it changes.*)
LEMMA UndoneStep == TypeInv /\ RowsInv /\ [Next]_vars => [OnlyUndone]_profiles
<1> SUFFICES ASSUME TypeInv, RowsInv, [Next]_vars, profiles' # profiles PROVE OnlyUndone
  OBVIOUS
<1>1. created \in Nat
  BY TypeParts, IdsDiffer DEF TypeInv, Rows
<1>2. ASSUME NEW t \in Tabs,
             \/ \E kind \in Kinds : Send(t, kind)
             \/ \E persona \in Personas : SendEnter(t, persona)
             \/ \E fact \in Facts, add \in BOOLEAN : SendEdit(t, fact, add)
             \/ Start(t) \/ Ask(t) \/ Turn(t) \/ Learn(t) \/ SaveTurn(t) \/ TurnFails(t) \/ Note(t)
             \/ Edit(t) \/ SaveEdit(t) \/ Finish(t) \/ ResetTurns(t) \/ Reset(t) \/ Enter(t) \/ Leave(t)
             \/ Answer(t) \/ AnswerLost(t)
      PROVE  OnlyUndone
  <2>1. Creates(t) \/ Saves(t) \/ Masks(t)
    BY <1>2, RowsStep DEF Reads
  <2>2. CASE Creates(t)
    <3>1. created' = created + 1 /\ created' \in Own /\ profiles' = With(profiles, created', {})
      BY <1>1, <2>2, IdsDiffer DEF Creates, Own
    <3>2. created' \notin DOMAIN profiles
      <4>1. DOMAIN profiles \cap Own \subseteq 1 .. created
        BY DEF RowsInv
      <4> QED
        BY <1>1, <3>1, <4>1
    <3>3. \A i \in DOMAIN profiles : profiles'[i] = profiles[i]
      BY <3>1, <3>2 DEF With
    <3> QED
      BY <3>3 DEF OnlyUndone
  <2>3. CASE Saves(t)
    <3>1. profiles'[who[t]] = Merged(t) /\ \A i \in DOMAIN profiles : i # who[t] => profiles'[i] = profiles[i]
      BY <2>3 DEF Saves, Upsert, With
    <3>2. who[t] \in Own => AsRead(t)
      BY <2>3 DEF Saves, RowsInv
    <3>3. \A f : (f \in base[t]) # (f \in Merged(t)) => f \in Named(t)
      BY DEF Merged, Named
    <3>4. ASSUME NEW i \in Own \cap DOMAIN profiles \cap DOMAIN profiles', NEW f \in Facts,
                 (f \in profiles[i]) # (f \in profiles'[i])
          PROVE  \E u \in Tabs : /\ who[u] = i /\ pc'[u] # pc[u] /\ pc[u] \in {"save", "apply"}
                                 /\ f \in Named(u) \/ (f \in late[u] /\ (f \in profiles'[i]) = (f \in base[u]))
      <4>1. who[t] = i
        BY <3>1, <3>4
      <4>2. f \in Named(t) \/ (f \in late[t] /\ (f \in profiles'[i]) = (f \in base[t]))
        BY <3>1, <3>2, <3>3, <3>4, <4>1 DEF AsRead
      <4>3. pc'[t] # pc[t] /\ pc[t] \in {"save", "apply"}
        BY <2>3 DEF Saves
      <4> QED
        BY <4>1, <4>2, <4>3
    <3> QED
      BY <3>4 DEF OnlyUndone
  <2>4. CASE Masks(t)
    <3>1. \A i \in Own \cap DOMAIN profiles : profiles'[i] = profiles[i]
      BY <2>4, IdsDiffer DEF Masks, With
    <3> QED
      BY <3>1 DEF OnlyUndone
  <2> QED
    BY <2>1, <2>2, <2>3, <2>4
<1>3. ASSUME NEW b \in Browsers, Expire(b) PROVE FALSE
  BY <1>3 DEF Expire, tables
<1>4. CASE Crash
  <2>1. DOMAIN NoRows = {}
    BY DEF NoRows
  <2>2. profiles' = profiles \/ profiles' = disk \/ profiles' = NoRows
    BY <1>4 DEF Crash
  <2>3. Own \cap DOMAIN profiles \cap DOMAIN profiles' = {}
    BY <2>1, <2>2 DEF RowsInv
  <2> QED
    BY <2>3 DEF OnlyUndone
<1>5. CASE UNCHANGED vars
  BY <1>5 DEF vars, tables
<1> QED
  BY <1>2, <1>3, <1>4, <1>5 DEF Next

(* However many visitors, tabs and requests at once: what a turn or an edit *)
(* changes in a visitor's own profile without being asked to is what        *)
(* another request of the same browser had changed there since it read the  *)
(* profile, and it puts that back.  Other visitors, personas, failures and  *)
(* restarts change nothing in it.                                           *)
THEOREM UndoneByOverlap == Spec => UndoneOnlyByOverlap
<1>1. [OnlyUndone]_profiles <=> [\A i \in Own \cap DOMAIN profiles \cap DOMAIN profiles', f \in Facts :
       (f \in profiles[i]) # (f \in profiles'[i]) =>
          \E t \in Tabs : /\ who[t] = i /\ pc'[t] # pc[t] /\ pc[t] \in {"save", "apply"}
                          /\ f \in Named(t) \/ (f \in late[t] /\ (f \in profiles'[i]) = (f \in base[t]))]_profiles
  BY DEF OnlyUndone
<1> QED
  BY <1>1, TypeInit, TypeNext, HeldInit, HeldNext, RowsNext, UndoneStep, PTL DEF Spec, UndoneOnlyByOverlap
=============================================================================

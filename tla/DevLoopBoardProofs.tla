------------------------- MODULE DevLoopBoardProofs -------------------------
(***************************************************************************)
(* What a click on a backlog row, and a decision made by one, can rely on: *)
(* the identity of items, and, with the SQLite store, the promise that     *)
(* BacklogBoard states.                                                     *)
(***************************************************************************)
EXTENDS DevLoopProofs

----------------------------------------------------------------------------
\* The identity of items

(* Ids below nextItem name one theme each, and what a run is about to store *)
(* carries over only ids it listed.                                         *)
IdentityInv ==
  /\ \A a, b \in Remembered : a.id = b.id => a.theme = b.theme
  /\ \A a \in Remembered : a.id < nextItem
  /\ \A a, b \in backlog : a.theme = b.theme => a = b
  /\ \A p \in Processes : pc[p] = "replace" => WellBuilt(entries[p], prior[p])

(* Remembered, element by element, before and after a step. *)
LEMMA RememberedHas ==
  /\ \A b \in backlog : Show(b) \in Remembered
  /\ \A o \in Operators : screen[o] \subseteq Remembered
  /\ \A p \in Processes : \A b \in prior[p] : Show(b) \in Remembered
<1> DEFINE rows == backlog \cup UNION {prior[p] : p \in Processes}
<1>1. \A b \in rows : Show(b) \in Remembered
  BY DEF Remembered
<1> QED
  BY <1>1 DEF Remembered

LEMMA RememberedNext ==
  ASSUME NEW S,
         \A b \in backlog' : Show(b) \in S,
         \A o \in Operators : screen'[o] \subseteq S,
         \A p \in Processes : \A b \in prior'[p] : Show(b) \in S
  PROVE  Remembered' \subseteq S
<1> DEFINE rows == backlog \cup UNION {prior[p] : p \in Processes}
<1>1. \A b \in rows' : Show(b) \in S
  OBVIOUS
<1>2. Remembered' = {Show(b) : b \in rows'} \cup UNION {screen'[o] : o \in Operators}
  BY DEF Remembered, Show
<1> HIDE DEF rows
<1> QED
  BY <1>1, <1>2

LEMMA RememberedType == TypeOK => Remembered \subseteq Shown
<1> SUFFICES ASSUME TypeOK PROVE Remembered \subseteq Shown
  OBVIOUS
<1> DEFINE rows == backlog \cup UNION {prior[p] : p \in Processes}
<1>1. rows \subseteq Item
  BY DEF TypeOK
<1>2. Remembered = {Show(b) : b \in rows} \cup UNION {screen[o] : o \in Operators}
  BY DEF Remembered
<1>3. UNION {screen[o] : o \in Operators} \subseteq Shown
  BY DEF TypeOK
<1> HIDE DEF rows
<1>4. {Show(b) : b \in rows} \subseteq Shown
  BY <1>1 DEF Show, Shown, Item
<1> QED
  BY <1>2, <1>3, <1>4

(* A step that adds nothing to what is remembered. *)
LEMMA NothingNew ==
  ASSUME IdentityInv, Remembered' \subseteq Remembered, nextItem' = nextItem,
         \A a, b \in backlog' : a.theme = b.theme => a = b,
         \A p \in Processes : pc'[p] = "replace" => WellBuilt(entries'[p], prior'[p])
  PROVE  IdentityInv'
BY DEF IdentityInv

(* The columns of a stored row. *)
LEMMA StoredItemColumns ==
  ASSUME TypeOK, NEW e \in Item, NEW k \in Nat \ {0}
  PROVE  /\ StoredItem(e, k).id =
              IF Backend = "memory" /\ e.id # 0 THEN e.id ELSE nextItem + k - 1
         /\ (\A b \in backlog : b.theme # e.theme) => StoredItem(e, k).status = e.status
         /\ Backend = "sqlite" =>
              \A a \in backlog :
                a.theme = e.theme /\ (\A b \in backlog : b.theme = a.theme => b = a)
                  => StoredItem(e, k).status = a.status
<1> DEFINE same == {b \in backlog : b.theme = e.theme}
           d == CHOOSE x \in same : TRUE
<1>1. StoredItem(e, k) =
        [id     |-> IF Backend = "memory" /\ e.id # 0 THEN e.id ELSE nextItem + k - 1,
         theme  |-> e.theme,
         status |-> IF Backend = "sqlite" /\ same # {} THEN d.status ELSE e.status,
         from   |-> e.from]
  BY DEF StoredItem
<1>2. same # {} => d \in backlog /\ d.theme = e.theme
  OBVIOUS
<1>3. ASSUME \A b \in backlog : b.theme # e.theme PROVE same = {}
  BY <1>3
<1>4. \A a \in backlog : a.theme = e.theme => same # {}
  OBVIOUS
<1> HIDE DEF same, d
<1> QED
  BY <1>1, <1>2, <1>3, <1>4

(* What ReplaceBacklog leaves in the table. *)
LEMMA Replaced ==
  ASSUME TypeOK, IdentityInv, NEW p \in Processes, Replace(p)
  PROVE  /\ nextItem' \in Nat /\ nextItem' >= nextItem
         /\ \A b \in backlog' :
              \/ nextItem <= b.id /\ b.id < nextItem'
              \/ /\ Backend = "memory"
                 /\ \E q \in prior[p] : q.id = b.id /\ q.theme = b.theme
         /\ \A a, b \in backlog' : a.id = b.id \/ a.theme = b.theme => a = b
<1> DEFINE es == entries[p]
           S(k) == StoredItem(es[k], k)
<1>1. /\ pc[p] = "replace" /\ nextItem' = nextItem + Len(es)
      /\ backlog' = {S(k) : k \in DOMAIN es}
  BY DEF Replace, ReplaceAndMark
<1>2. WellBuilt(es, prior[p])
  BY <1>1 DEF IdentityInv
<1>3. /\ Len(es) \in Nat /\ DOMAIN es = 1 .. Len(es)
      /\ \A k \in DOMAIN es : es[k] \in Item /\ k \in Nat \ {0}
  BY <1>2, LenProperties DEF WellBuilt
<1>4. nextItem \in Nat
  BY DEF TypeOK
<1>5. \A k \in DOMAIN es :
        /\ S(k).theme = es[k].theme
        /\ S(k).id = IF Backend = "memory" /\ es[k].id # 0 THEN es[k].id ELSE nextItem + k - 1
  BY <1>3, StoredItemType, StoredItemColumns
<1>6. \A k \in DOMAIN es :
        es[k].id # 0 => \E q \in prior[p] : q.id = es[k].id /\ q.theme = es[k].theme
  BY <1>2 DEF WellBuilt
<1>7. \A j, k \in DOMAIN es : es[j].theme = es[k].theme => j = k
  BY <1>2 DEF WellBuilt
<1> HIDE DEF es, S
<1>8. \A k \in DOMAIN es :
        \/ S(k).id = nextItem + k - 1
        \/ /\ Backend = "memory"
           /\ \E q \in prior[p] : q.id = S(k).id /\ q.theme = es[k].theme
  BY <1>5, <1>6
<1>9. \A q \in prior[p] : /\ q.id \in Nat /\ q.id < nextItem
                          /\ \A r \in prior[p] : r.id = q.id => r.theme = q.theme
  <2>1. \A q \in prior[p] : q.id \in Nat
    BY DEF TypeOK, Item
  <2>2. \A q \in prior[p] : Show(q) \in Remembered
    BY RememberedHas
  <2>3. \A q \in prior[p] : Show(q).id = q.id /\ Show(q).theme = q.theme
    BY DEF Show
  <2> QED
    BY <2>1, <2>2, <2>3 DEF IdentityInv
<1>10. \A j, k \in DOMAIN es : S(j).id = S(k).id => j = k
  <2> SUFFICES ASSUME NEW j \in DOMAIN es, NEW k \in DOMAIN es, S(j).id = S(k).id
               PROVE  j = k
    OBVIOUS
  <2>1. CASE S(j).id = nextItem + j - 1 /\ S(k).id = nextItem + k - 1
    <3>1. j \in Nat /\ k \in Nat /\ nextItem + j - 1 = nextItem + k - 1
      BY <1>3, <2>1
    <3> QED
      BY <1>4, <3>1
  <2>2. CASE /\ \E q \in prior[p] : q.id = S(j).id /\ q.theme = es[j].theme
             /\ \E q \in prior[p] : q.id = S(k).id /\ q.theme = es[k].theme
    BY <1>7, <1>9, <2>2
  <2>3. ASSUME NEW i \in DOMAIN es, S(i).id = nextItem + i - 1,
               NEW q \in prior[p], q.id = S(i).id
        PROVE  FALSE
    BY <1>3, <1>4, <1>9, <2>3
  <2> QED
    BY <1>8, <2>1, <2>2, <2>3
<1>11. \A k \in DOMAIN es : S(k).id = nextItem + k - 1
         => nextItem <= S(k).id /\ S(k).id < nextItem'
  BY <1>1, <1>3, <1>4
<1> QED
  BY <1>1, <1>3, <1>4, <1>5, <1>7, <1>8, <1>10, <1>11

LEMMA ReplaceIdentity ==
  ASSUME TypeOK, IdentityInv, NEW p \in Processes, Replace(p)
  PROVE  IdentityInv'
<1> DEFINE New == {x \in {Show(b) : b \in backlog'} : nextItem <= x.id /\ x.id < nextItem'}
<1>1. /\ prior' = prior /\ screen' = screen /\ entries' = entries
      /\ pc' = [pc EXCEPT ![p] = "triage"] /\ DOMAIN pc = Processes
      /\ nextItem \in Nat
  BY DEF Replace, ReplaceAndMark, Goto, TypeOK
<1>2. \A b \in backlog' : Show(b) \in Remembered \cup New
  <2> SUFFICES ASSUME NEW b \in backlog' PROVE Show(b) \in Remembered \cup New
    OBVIOUS
  <2>1. CASE nextItem <= b.id /\ b.id < nextItem'
    BY <2>1 DEF Show
  <2>2. CASE \E q \in prior[p] : q.id = b.id /\ q.theme = b.theme
    BY <2>2, RememberedHas DEF Show
  <2> QED
    BY <2>1, <2>2, Replaced
<1>3. Remembered' \subseteq Remembered \cup New
  BY <1>1, <1>2, RememberedHas, RememberedNext
<1>4. \A x, y \in New : x.id = y.id => x = y
  BY Replaced DEF Show
<1>5. \A x \in Remembered : x.id \in Nat /\ x.id < nextItem
  BY RememberedType DEF IdentityInv, Shown
<1>6. \A x \in Remembered : \A y \in New : x.id # y.id
  <2> SUFFICES ASSUME NEW x \in Remembered, NEW y \in New, x.id = y.id PROVE FALSE
    OBVIOUS
  <2>1. x.id < nextItem /\ nextItem <= x.id
    BY <1>5
  <2> QED
    BY <1>1, <1>5, <2>1
<1>7. nextItem' \in Nat /\ nextItem' >= nextItem
  BY Replaced
<1> HIDE DEF New
<1>8. \A a, b \in Remembered' : a.id = b.id => a.theme = b.theme
  BY <1>3, <1>4, <1>6 DEF IdentityInv
<1>9. \A a \in Remembered' : a.id < nextItem'
  <2>1. \A a \in New : a.id < nextItem'
    BY DEF New
  <2> QED
    BY <1>1, <1>3, <1>5, <1>7, <2>1
<1>10. \A a, b \in backlog' : a.theme = b.theme => a = b
  BY Replaced
<1>11. \A q \in Processes : pc'[q] = "replace" => WellBuilt(entries'[q], prior'[q])
  BY <1>1 DEF IdentityInv
<1> QED
  BY <1>8, <1>9, <1>10, <1>11 DEF IdentityInv

(* The steps of a run that touch neither the table nor what is remembered. *)
LEMMA QuietStep ==
  ASSUME TypeOK, IdentityInv,
         UNCHANGED <<backlog, nextItem, screen>>,
         \A p \in Processes : prior'[p] \subseteq prior[p] \cup backlog,
         \A p \in Processes : pc'[p] = "replace" => WellBuilt(entries'[p], prior'[p])
  PROVE  IdentityInv'
<1>1. Remembered' \subseteq Remembered
  BY RememberedHas, RememberedNext
<1> QED
  BY <1>1, NothingNew DEF IdentityInv

LEMMA RunStepIdentity ==
  ASSUME TypeInv, IdentityInv, NEW p \in Processes, Enter(p) \/ RunStep(p)
  PROVE  IdentityInv'
<1>1. /\ TypeOK /\ DOMAIN pc = Processes /\ DOMAIN prior = Processes
      /\ DOMAIN entries = Processes
      /\ \A q \in Processes : pc[q] = "replace" => WellBuilt(entries[q], prior[q])
  BY DEF TypeInv, TypeOK, IdentityInv
<1>2. CASE Enter(p)
  BY <1>1, <1>2, QuietStep DEF Enter, Goto, tables, locals
<1>3. CASE ListFeedback(p)
  BY <1>1, <1>3, QuietStep DEF ListFeedback, Goto, tables
<1>4. CASE ListBacklog(p)
  <2>1. /\ \A q \in Processes : prior'[q] \subseteq prior[q] \cup backlog
        /\ \A q \in Processes : pc'[q] = "replace" => pc[q] = "replace" /\ q # p
        /\ \A q \in Processes \ {p} : prior'[q] = prior[q]
        /\ UNCHANGED <<backlog, nextItem, screen, entries>>
    BY <1>1, <1>4 DEF ListBacklog, Goto, tables
  <2> QED
    BY <1>1, <2>1, QuietStep
<1>5. CASE ClusterByModel(p) \/ ClusterMechanically(p)
  <2>1. PICK es : entries' = [entries EXCEPT ![p] = es] /\ WellBuilt(es, prior[p])
    BY <1>5, ClusterStep
  <2>2. /\ pc' = [pc EXCEPT ![p] = "replace"]
        /\ UNCHANGED <<backlog, nextItem, screen, prior>>
    BY <1>5 DEF ClusterByModel, ClusterMechanically, Goto, tables
  <2>3. \A q \in Processes : pc'[q] = "replace" => WellBuilt(entries'[q], prior'[q])
    BY <1>1, <2>1, <2>2
  <2> QED
    BY <1>1, <2>2, <2>3, QuietStep
<1>6. CASE Replace(p)
  BY <1>1, <1>6, ReplaceIdentity
<1>7. CASE Triage(p)
  BY <1>1, <1>7, QuietStep DEF Triage
<1>8. CASE WriteDoc(p)
  BY <1>1, <1>8, QuietStep DEF WriteDoc, Goto, locals
<1>9. CASE Fail(p)
  BY <1>1, <1>9, QuietStep DEF Fail, Goto, tables, locals
<1>10. CASE Finish(p)
  <2>1. /\ \A q \in Processes : prior'[q] \subseteq prior[q] \cup backlog
        /\ \A q \in Processes : pc'[q] = "replace" => pc[q] = "replace" /\ q # p
        /\ \A q \in Processes \ {p} : prior'[q] = prior[q] /\ entries'[q] = entries[q]
        /\ UNCHANGED <<backlog, nextItem, screen>>
    BY <1>1, <1>10 DEF Finish, Goto, tables
  <2> QED
    BY <1>1, <2>1, QuietStep
<1> QED
  BY <1>2, <1>3, <1>4, <1>5, <1>6, <1>7, <1>8, <1>9, <1>10 DEF RunStep

LEMMA OperatorIdentity ==
  ASSUME TypeInv, IdentityInv, NEW o \in Operators,
         Refused(o) \/ View(o) \/ Click(o) \/ Disconnect(o)
  PROVE  IdentityInv'
<1>1. /\ TypeOK /\ DOMAIN pc = Processes /\ o \in Processes /\ DOMAIN screen = Operators
      /\ \A q \in Processes : pc[q] = "replace" => WellBuilt(entries[q], prior[q])
  BY DEF TypeInv, TypeOK, IdentityInv, Processes
<1>2. CASE Refused(o)
  BY <1>1, <1>2, QuietStep DEF Refused, Goto, tables, locals
<1>3. CASE View(o)
  <2>1. /\ UNCHANGED <<backlog, nextItem, prior, entries>>
        /\ pc' = [pc EXCEPT ![o] = "idle"]
        /\ \A q \in Operators : \/ screen'[q] = screen[q]
                                \/ screen'[q] = {Show(b) : b \in backlog}
    BY <1>1, <1>3 DEF View, Goto, tables, locals
  <2>2. Remembered' \subseteq Remembered
    BY <2>1, RememberedHas, RememberedNext
  <2>3. \A q \in Processes : pc'[q] = "replace" => WellBuilt(entries'[q], prior'[q])
    BY <1>1, <2>1
  <2> QED
    BY <2>1, <2>2, <2>3, NothingNew DEF IdentityInv
<1>4. CASE Click(o)
  <2>1. PICK row \in screen[o], status \in Choices : SetBacklogStatus(row.id, status)
    BY <1>4 DEF Click
  <2>2. /\ UNCHANGED <<nextItem, prior, entries, screen>>
        /\ pc' = [pc EXCEPT ![o] = "view"]
    BY <1>4 DEF Click, Goto, locals
  <2>3. \A b \in backlog : b = [id |-> b.id, theme |-> b.theme, status |-> b.status,
                                from |-> b.from]
    BY <1>1 DEF TypeOK, Item
  <2>4. \A b \in backlog' : \E a \in backlog :
          /\ a.theme = b.theme /\ Show(b) = Show(a)
          /\ b = IF a.id = row.id THEN [a EXCEPT !.status = status] ELSE a
    BY <2>1, <2>3 DEF SetBacklogStatus, Show
  <2>5. Remembered' \subseteq Remembered
    BY <2>2, <2>4, RememberedHas, RememberedNext
  <2>6. \A a, b \in backlog' : a.theme = b.theme => a = b
    BY <2>4 DEF IdentityInv
  <2>7. \A q \in Processes : pc'[q] = "replace" => WellBuilt(entries'[q], prior'[q])
    BY <1>1, <2>2
  <2> QED
    BY <2>2, <2>5, <2>6, <2>7, NothingNew
<1>5. CASE Disconnect(o)
  BY <1>1, <1>5, QuietStep DEF Disconnect, tables, locals
<1> QED
  BY <1>2, <1>3, <1>4, <1>5

(* A restart empties what the runs held; the table survives it in SQLite. *)
LEMMA CrashIdentity ==
  ASSUME TypeInv, IdentityInv, Crash, Backend = "sqlite" \/ MaxCrashes = 0
  PROVE  IdentityInv'
<1>1. Backend = "sqlite"
  BY DevLoopAssumption DEF Crash, TypeInv, TypeOK
<1>2. /\ UNCHANGED <<backlog, nextItem, screen>>
      /\ \A p \in Processes : prior'[p] = {} /\ pc'[p] = "idle"
  BY <1>1 DEF Crash
<1> QED
  BY <1>2, QuietStep DEF TypeInv

LEMMA IdentityNext ==
  ASSUME Backend = "sqlite" \/ MaxCrashes = 0, TypeInv, IdentityInv, [Next]_vars
  PROVE  IdentityInv'
<1>1. ASSUME NEW label \in Labels, CreateFeedback(label) PROVE IdentityInv'
  BY <1>1, QuietStep DEF CreateFeedback, locals, TypeInv, IdentityInv
<1>2. CASE UNCHANGED vars
  BY <1>2, QuietStep DEF vars, tables, locals, TypeInv, IdentityInv
<1> QED
  BY <1>1, <1>2, RunStepIdentity, OperatorIdentity, CrashIdentity DEF Next

LEMMA IdentityInit == Init => IdentityInv
<1> SUFFICES ASSUME Init PROVE IdentityInv
  OBVIOUS
<1> DEFINE rows == backlog \cup UNION {prior[p] : p \in Processes}
<1>1. rows = {} /\ UNION {screen[o] : o \in Operators} = {}
  BY DEF Init
<1>2. Remembered = {Show(b) : b \in rows} \cup UNION {screen[o] : o \in Operators}
  BY DEF Remembered
<1> HIDE DEF rows
<1>3. Remembered = {}
  BY <1>1, <1>2
<1>4. backlog = {} /\ \A p \in Processes : pc[p] = "idle"
  BY DEF Init
<1> QED
  BY <1>3, <1>4 DEF IdentityInv

(* A click is never taken for another item, on a page however old, with     *)
(* SQLite through any number of restarts, with Memory as long as there is   *)
(* none: Memory numbers its items from 1 again.                             *)
THEOREM ClicksAreNeverMistaken ==
  ASSUME Backend = "sqlite" \/ MaxCrashes = 0
  PROVE  Spec => []ItemIdentity
<1>1. Spec => []TypeInv
  BY InitType, NextType, PTL DEF Spec
<1>2. TypeInv /\ IdentityInv /\ [Next]_vars => IdentityInv'
  BY IdentityNext
<1>3. IdentityInv => ItemIdentity
  BY DEF IdentityInv, ItemIdentity
<1> QED
  BY <1>1, <1>2, <1>3, IdentityInit, PTL DEF Spec

----------------------------------------------------------------------------
\* SQLite keeps the promise

(* What a run listed is still on the backlog when it replaces it: nobody    *)
(* else replaces it in the meantime, and a click removes no theme.          *)
ListedStillThere ==
  \A p \in Processes : pc[p] \in {"cluster", "replace"} =>
    \A q \in prior[p] : \E b \in backlog : b.theme = q.theme

BoardInv == TypeInv /\ OneRegeneration /\ IdentityInv /\ ListedStillThere

(* Steps that leave the table as it is. *)
LEMMA SameTable ==
  ASSUME TypeOK, Backend = "sqlite", NEW p \in Processes,
         \/ Enter(p) \/ (RunStep(p) /\ ~Replace(p))
         \/ p \in Operators /\ (Refused(p) \/ View(p) \/ Disconnect(p))
         \/ Crash \/ UNCHANGED vars
         \/ \E label \in Labels : CreateFeedback(label)
  PROVE  UNCHANGED <<backlog, nextItem>>
BY DEF Enter, RunStep, ListFeedback, ListBacklog, ClusterByModel, ClusterMechanically, Triage,
       WriteDoc, Fail, Finish, Refused, View, Disconnect, Crash, CreateFeedback, vars, tables

LEMMA ClickKeepsThemes ==
  ASSUME TypeOK, NEW o \in Operators, Click(o)
  PROVE  /\ UNCHANGED <<nextItem, prior>> /\ pc' = [pc EXCEPT ![o] = "view"]
         /\ \A a \in backlog : \E b \in backlog' : b.theme = a.theme
<1>1. PICK row \in screen[o], status \in Choices : SetBacklogStatus(row.id, status)
  BY DEF Click
<1>2. \A a \in backlog : a.theme = (IF a.id = row.id THEN [a EXCEPT !.status = status] ELSE a).theme
  BY DEF TypeOK, Item
<1> QED
  BY <1>1, <1>2 DEF Click, SetBacklogStatus, Goto, locals

LEMMA ListedStillThereNext ==
  ASSUME Backend = "sqlite", BoardInv, [Next]_vars
  PROVE  ListedStillThere'
<1>1. /\ TypeOK /\ DOMAIN pc = Processes /\ DOMAIN prior = Processes
      /\ \A p, q \in Processes : Inside(p) /\ Inside(q) => p = q
      /\ \A p \in Processes : pc[p] \in {"cluster", "replace"} => Inside(p)
      /\ Operators \subseteq Processes
  BY DEF BoardInv, TypeInv, TypeOK, OneRegeneration, Inside, Processes
<1>2. ASSUME NEW p \in Processes, ListBacklog(p) PROVE ListedStillThere'
  BY <1>1, <1>2 DEF ListBacklog, Goto, tables, BoardInv, ListedStillThere
<1>3. ASSUME NEW p \in Processes, Replace(p) PROVE ListedStillThere'
  <2>1. pc' = [pc EXCEPT ![p] = "triage"] /\ Inside(p)
    BY <1>3 DEF Replace, ReplaceAndMark, Goto, Inside
  <2>2. \A q \in Processes : pc'[q] \notin {"cluster", "replace"}
    BY <1>1, <2>1
  <2> QED
    BY <2>2 DEF ListedStillThere
<1>4. ASSUME NEW o \in Operators, Click(o) PROVE ListedStillThere'
  BY <1>1, <1>4, ClickKeepsThemes DEF BoardInv, ListedStillThere
<1>5. ASSUME NEW p \in Processes, NEW q \in Processes,
             Enter(p) \/ (RunStep(p) /\ ~ListBacklog(p) /\ ~Replace(p)),
             pc'[q] \in {"cluster", "replace"}
      PROVE  pc[q] \in {"cluster", "replace"} /\ prior'[q] = prior[q]
  BY <1>1, <1>5 DEF Enter, RunStep, ListFeedback, ClusterByModel, ClusterMechanically, Triage,
                    WriteDoc, Fail, Finish, Goto, locals
<1>6. ASSUME NEW p \in Processes, Enter(p) \/ RunStep(p) PROVE ListedStillThere'
  <2>1. CASE ListBacklog(p) \/ Replace(p)
    BY <1>2, <1>3, <2>1
  <2>2. CASE ~ListBacklog(p) /\ ~Replace(p)
    BY <1>1, <1>5, <1>6, <2>2, SameTable DEF BoardInv, ListedStillThere
  <2> QED
    BY <2>1, <2>2
<1>7. ASSUME NEW o \in Operators, Refused(o) \/ View(o) \/ Disconnect(o)
      PROVE  ListedStillThere'
  <2>1. UNCHANGED <<backlog, prior>>
    BY <1>7 DEF Refused, View, Disconnect, tables, locals
  <2>2. \A q \in Processes : pc'[q] \in {"cluster", "replace"} => pc'[q] = pc[q]
    BY <1>1, <1>7 DEF Refused, View, Disconnect, Goto
  <2> QED
    BY <2>1, <2>2 DEF BoardInv, ListedStillThere
<1>8. ASSUME NEW label \in Labels, CreateFeedback(label) PROVE ListedStillThere'
  BY <1>8 DEF BoardInv, ListedStillThere, CreateFeedback, locals
<1>9. CASE Crash
  BY <1>9 DEF ListedStillThere, Crash
<1>10. CASE UNCHANGED vars
  BY <1>10 DEF BoardInv, ListedStillThere, vars, tables, locals
<1> QED
  BY <1>4, <1>6, <1>7, <1>8, <1>9, <1>10 DEF Next

LEMMA BoardInvNext == Backend = "sqlite" => (BoardInv /\ [Next]_vars => BoardInv')
BY NextType, OneRegenerationNext, IdentityNext, ListedStillThereNext DEF BoardInv, TypeInv

LEMMA BoardInvInit == Init => BoardInv
<1>1. Init => OneRegeneration /\ ListedStillThere
  BY DEF Init, OneRegeneration, ListedStillThere, Inside
<1> QED
  BY <1>1, InitType, IdentityInit DEF BoardInv

(* In SQLite a stored row has its theme's status, or starts as a proposal. *)
LEMMA ReplacedStatus ==
  ASSUME Backend = "sqlite", BoardInv, NEW p \in Processes, Replace(p), NEW b \in backlog'
  PROVE  /\ \A a \in backlog : a.theme = b.theme => b.status = a.status
         /\ (\A a \in backlog : a.theme # b.theme) => b.status = "proposed"
<1> DEFINE es == entries[p]
<1>1. pc[p] = "replace" /\ backlog' = {StoredItem(es[k], k) : k \in DOMAIN es}
  BY DEF Replace, ReplaceAndMark
<1>2. WellBuilt(es, prior[p])
  BY <1>1 DEF BoardInv, IdentityInv
<1>3. PICK k \in DOMAIN es : b = StoredItem(es[k], k)
  BY <1>1
<1>4. es[k] \in Item /\ k \in Nat \ {0}
  BY <1>2, LenProperties DEF WellBuilt
<1>5. es[k].status # "proposed" => \E q \in prior[p] : q.theme = es[k].theme
  BY <1>2 DEF WellBuilt
<1>6. es[k].status # "proposed" => \E a \in backlog : a.theme = es[k].theme
  BY <1>1, <1>5 DEF BoardInv, ListedStillThere
<1>7. TypeOK /\ \A x, y \in backlog : x.theme = y.theme => x = y
  BY DEF BoardInv, TypeInv, IdentityInv
<1> HIDE DEF es
<1> QED
  BY <1>3, <1>4, <1>6, <1>7, StoredItemType, StoredItemColumns

(* A row as BacklogBoard sees it. *)
Face(b) == [id |-> b.id, theme |-> b.theme, status |-> b.status]

(* A replacement publishes a board. *)
LEMMA ReplacePublishes ==
  ASSUME Backend = "sqlite", BoardInv, NEW p \in Processes, Replace(p)
  PROVE  Board!Publish
<1> DEFINE board == {Face(b) : b \in backlog}
           next  == {Face(b) : b \in backlog'}
<1>1. \A b \in backlog' : Face(b).id = b.id /\ Face(b).theme = b.theme /\ Face(b).status = b.status
  BY DEF Face
<1>2. \A b \in backlog : Face(b).theme = b.theme /\ Face(b).status = b.status
  BY DEF Face
<1>3. /\ nextItem' \in Nat /\ nextItem' >= nextItem
      /\ \A b \in backlog' : nextItem <= b.id /\ b.id < nextItem'
      /\ \A a, b \in backlog' : a.id = b.id \/ a.theme = b.theme => a = b
  BY Replaced DEF BoardInv, TypeInv
<1>4. \A b \in backlog' : b.theme \in Themes
  BY ReplaceType DEF BoardInv, TypeInv, TypeOK, Item
<1>5. \A b \in next :
        /\ b.theme \in Themes /\ nextItem <= b.id /\ b.id < nextItem'
        /\ \A a \in board : a.theme = b.theme => b.status = a.status
        /\ (\A a \in board : a.theme # b.theme) => b.status = "proposed"
  BY <1>1, <1>2, <1>3, <1>4, ReplacedStatus
<1>6. \A a, b \in next : a.id = b.id \/ a.theme = b.theme => a = b
  BY <1>1, <1>3
<1> QED
  BY <1>3, <1>5, <1>6 DEF Board!Publish, Face

(* A click decides one item. *)
LEMMA ClickDecides ==
  ASSUME BoardInv, NEW o \in Operators, Click(o)
  PROVE  Board!Next
<1> DEFINE board == {Face(b) : b \in backlog}
           next  == {Face(b) : b \in backlog'}
<1>1. PICK row \in screen[o], status \in Choices : SetBacklogStatus(row.id, status)
  BY DEF Click
<1> DEFINE Set(b) == IF b.id = row.id THEN [b EXCEPT !.status = status] ELSE b
<1>2. PICK c \in backlog : c.id = row.id
  BY <1>1 DEF SetBacklogStatus
<1>3. backlog' = {Set(b) : b \in backlog}
  BY <1>1 DEF SetBacklogStatus
<1>4. \A b \in backlog : Face(Set(b)) = Set(Face(b))
  <2> SUFFICES ASSUME NEW b \in backlog PROVE Face(Set(b)) = Set(Face(b))
    OBVIOUS
  <2>1. b = [id |-> b.id, theme |-> b.theme, status |-> b.status, from |-> b.from]
    BY DEF BoardInv, TypeInv, TypeOK, Item
  <2>2. /\ [b EXCEPT !.status = status].id = b.id
        /\ [b EXCEPT !.status = status].theme = b.theme
        /\ [b EXCEPT !.status = status].status = status
    BY <2>1
  <2>3. CASE b.id = row.id
    BY <2>2, <2>3 DEF Face
  <2>4. CASE b.id # row.id
    BY <2>4 DEF Face
  <2> QED
    BY <2>3, <2>4
<1>5. Face(c) \in board /\ Face(c).id = row.id
  BY <1>2 DEF Face
<1> HIDE DEF Set
<1>6. next = {Set(b) : b \in board}
  BY <1>3, <1>4
<1>7. status \in Statuses /\ nextItem' = nextItem
  BY DevLoopAssumption DEF Click
<1>8. Board!Decide(Face(c).id, status)
  BY <1>5, <1>6, <1>7 DEF Board!Decide, Face, Set
<1> QED
  BY <1>5, <1>7, <1>8 DEF Board!Next, Face

LEMMA StepKeepsPromise ==
  ASSUME Backend = "sqlite", BoardInv, [Next]_vars
  PROVE  [Board!Next]_(Board!boardVars)
<1>1. ASSUME UNCHANGED <<backlog, nextItem>> PROVE UNCHANGED Board!boardVars
  BY <1>1 DEF Board!boardVars
<1>2. Ticker \in Processes /\ Operators \subseteq Processes
  BY DEF Processes
<1>3. CASE \E p \in Processes : Replace(p)
  BY <1>3, ReplacePublishes DEF Board!Next
<1>4. CASE \E o \in Operators : Click(o)
  BY <1>4, ClickDecides
<1>5. CASE ~(\E p \in Processes : Replace(p)) /\ ~(\E o \in Operators : Click(o))
  BY <1>1, <1>2, <1>5, SameTable DEF Next, BoardInv, TypeInv
<1> QED
  BY <1>3, <1>4, <1>5

(* With SQLite the backlog is a board: a regeneration never changes the     *)
(* status of a theme that stays, never reuses an id, proposes what is new,  *)
(* and between two regenerations only people change it.                     *)
THEOREM SqliteKeepsThePromise ==
  ASSUME Backend = "sqlite"
  PROVE  Spec => KeepsThePromise
<1>1. Init => Board!Init
  BY DEF Init, Board!Init
<1>2. BoardInv /\ [Next]_vars => BoardInv'
  BY BoardInvNext
<1>3. BoardInv /\ [Next]_vars => [Board!Next]_(Board!boardVars)
  BY StepKeepsPromise
<1> QED
  BY <1>1, <1>2, <1>3, BoardInvInit, PTL DEF Spec, KeepsThePromise, Board!Spec

(* "human decisions survive regeneration", with SQLite. *)
THEOREM SqliteDecisionsSurvive ==
  ASSUME Backend = "sqlite"
  PROVE  Spec => HumanDecisionsSurvive
<1> DEFINE A == (\E a \in backlog, b \in backlog' : a.theme = b.theme /\ a.status # b.status)
                  => \E o \in Operators : Click(o)
<1>1. BoardInv /\ [Next]_vars => [A]_vars
  <2> SUFFICES ASSUME BoardInv, [Next]_vars, NEW a \in backlog, NEW b \in backlog',
                      a.theme = b.theme, a.status # b.status
               PROVE  \E o \in Operators : Click(o)
    OBVIOUS
  <2>1. \A p \in Processes : ~Replace(p)
    BY ReplacedStatus
  <2>2. backlog' # backlog
    BY DEF BoardInv, IdentityInv
  <2>3. Ticker \in Processes /\ Operators \subseteq Processes
    BY DEF Processes
  <2> QED
    BY <2>1, <2>2, <2>3, SameTable DEF Next, BoardInv, TypeInv
<1>2. BoardInv /\ [Next]_vars => BoardInv'
  BY BoardInvNext
<1> QED
  BY <1>1, <1>2, BoardInvInit, PTL DEF Spec, HumanDecisionsSurvive

----------------------------------------------------------------------------
\* What a run does to the feedback

(* While a run is under way the rows it read as new are still new, what it  *)
(* has still to mark is counted by an item on the backlog, and a mechanical *)
(* run leaves out none of what it listed.                                   *)
FreshStillNew(p) ==
  pc[p] \in {"listBacklog", "cluster", "replace"} =>
    fresh[p] = {i \in seen[p] : feedback[i].status = "new"}
CoversListed(p) ==
  pc[p] = "replace" /\ source[p] = "mechanical" =>
    \A i \in seen[p] : \E k \in DOMAIN entries[p] : i \in entries[p][k].from
TodoConsumed(p) ==
  pc[p] = "triage" =>
    \A i \in todo[p] : /\ i \in DOMAIN feedback /\ feedback[i].status = "new"
                       /\ \E b \in backlog : i \in b.from
Marked(p) ==
  pc[p] \in {"triage", "finish"} /\ source[p] = "mechanical" /\ StoreOK(p) =>
    \A i \in seen[p] : \/ feedback[i].status = "triaged"
                       \/ pc[p] = "triage" /\ i \in todo[p]
TriageOK(p) == FreshStillNew(p) /\ CoversListed(p) /\ TodoConsumed(p) /\ Marked(p)

TriageInv == TypeInv /\ OneRegeneration /\ \A p \in Processes : TriageOK(p)

(* A ranking of finitely many themes leaves none of them out. *)
LEMMA RankingsOnto ==
  ASSUME NEW T \in SUBSET Themes, NEW r \in Rankings(T), NEW t \in T
  PROVE  \E k \in DOMAIN r : r[k] = t
<1> DEFINE n == Cardinality(T)
<1>1. IsFiniteSet(T) /\ n \in Nat
  BY ThemesFinite, FS_Subset, FS_CardinalityType
<1>2. r \in [1 .. n -> T] /\ \A j, k \in DOMAIN r : r[j] = r[k] => j = k
  BY DEF Rankings
<1>3. Cardinality(1 .. n) = n
  BY <1>1, FS_Interval
<1> HIDE DEF n
<1>4. r \in Injection(1 .. n, T)
  BY <1>2 DEF Injection, IsInjective
<1>5. n = Cardinality(T)
  BY DEF n
<1>6. r \in Surjection(1 .. n, T)
  BY <1>1, <1>3, <1>4, <1>5, FS_Injection
<1> QED
  BY <1>6 DEF Surjection

(* clusterMechanical puts every piece of feedback in a cluster. *)
LEMMA MechanicalCovers ==
  ASSUME NEW rows, NEW ids, NEW i \in ids
  PROVE  \E t \in DOMAIN Mechanical(rows, ids) : i \in Mechanical(rows, ids)[t]
<1> DEFINE theme(j) == NormalizeTheme(rows[j].label)
           ts == {theme(j) : j \in ids}
<1>1. Mechanical(rows, ids) = [t \in ts |-> {j \in ids : theme(j) = t}]
  BY DEF Mechanical
<1>2. theme(i) \in ts
  OBVIOUS
<1> HIDE DEF theme, ts
<1> QED
  BY <1>1, <1>2

LEMMA EntryFrom ==
  ASSUME NEW t, NEW clusters, NEW listed
  PROVE  Entry(t, clusters, listed).from = clusters[t]
BY DEF Entry

(* and buildEntries makes an item of every cluster. *)
LEMMA EntriesCover ==
  ASSUME TypeInv, NEW p \in Processes, ClusterMechanically(p), NEW i \in seen[p]
  PROVE  \E k \in DOMAIN entries'[p] : i \in entries'[p][k].from
<1> DEFINE c == Mechanical(feedback, seen[p])
<1>1. seen[p] \subseteq DOMAIN feedback
  BY DEF TypeInv, ListedExists
<1>2. DOMAIN c \subseteq Themes
  BY <1>1, MechanicalType DEF TypeInv, TypeOK
<1>3. PICK t \in DOMAIN c : i \in c[t]
  BY MechanicalCovers
<1>4. BuildEntries(p, c)
  BY DEF ClusterMechanically
<1> HIDE DEF c
<1>5. PICK r \in Rankings(DOMAIN c) :
         entries' = [entries EXCEPT ![p] = [k \in DOMAIN r |-> Entry(r[k], c, prior[p])]]
  BY <1>4 DEF BuildEntries
<1>6. PICK k \in DOMAIN r : r[k] = t
  BY <1>2, RankingsOnto
<1>7. entries'[p] = [j \in DOMAIN r |-> Entry(r[j], c, prior[p])]
  BY <1>5 DEF TypeInv, TypeOK
<1>8. entries'[p][k].from = c[t]
  BY <1>6, <1>7, EntryFrom
<1> QED
  BY <1>3, <1>6, <1>7, <1>8

LEMMA StoredItemFrom ==
  ASSUME NEW e, NEW k
  PROVE  StoredItem(e, k).from = e.from
BY DEF StoredItem

(* A row is "new" or "triaged". *)
LEMMA RowStatus ==
  ASSUME TypeOK, NEW i \in DOMAIN feedback
  PROVE  feedback[i].status \in {"new", "triaged"}
<1>1. feedback \in [DOMAIN feedback -> FeedbackRow]
  BY LenProperties DEF TypeOK
<1> QED
  BY <1>1 DEF FeedbackRow

(* Whoever is outside a run after a step owes nothing. *)
LEMMA OutsideTriageOK ==
  ASSUME NEW q \in Processes, ~Inside(q)'
  PROVE  TriageOK(q)'
BY DEF Inside, TriageOK, FreshStillNew, CoversListed, TodoConsumed, Marked

LEMMA ReplaceTriageOK ==
  ASSUME TriageInv, NEW p \in Processes, Replace(p)  PROVE TriageOK(p)'
<1> DEFINE es == entries[p]
<1>1. /\ TypeOK /\ TriageOK(p) /\ pc[p] = "replace" /\ pc'[p] = "triage"
      /\ seen[p] \subseteq DOMAIN feedback
      /\ UNCHANGED <<feedback, cancelled, seen, fresh, source, entries>>
      /\ todo'[p] = fresh[p] \cap UNION {es[k].from : k \in DOMAIN es}
      /\ backlog' = {StoredItem(es[k], k) : k \in DOMAIN es}
  BY DEF TriageInv, TypeInv, TypeOK, ListedExists, Replace, ReplaceAndMark, Goto
<1>2. fresh[p] = {i \in seen[p] : feedback[i].status = "new"}
  BY <1>1 DEF TriageOK, FreshStillNew
<1>3. ASSUME NEW i \in todo'[p]
      PROVE  /\ i \in DOMAIN feedback /\ feedback[i].status = "new"
             /\ \E b \in backlog' : i \in b.from
  <2>1. PICK k \in DOMAIN es : i \in es[k].from
    BY <1>1
  <2>2. StoredItem(es[k], k) \in backlog' /\ i \in StoredItem(es[k], k).from
    BY <1>1, <2>1, StoredItemFrom
  <2> QED
    BY <1>1, <1>2, <2>2
<1>4. ASSUME source[p] = "mechanical", NEW i \in seen[p]
      PROVE  feedback[i].status = "triaged" \/ i \in todo'[p]
  <2>1. PICK k \in DOMAIN es : i \in es[k].from
    BY <1>1, <1>4 DEF TriageOK, CoversListed
  <2>2. feedback[i].status \in {"new", "triaged"}
    BY <1>1, RowStatus
  <2> QED
    BY <1>1, <1>2, <2>1, <2>2
<1> HIDE DEF es
<1>5. FreshStillNew(p)' /\ CoversListed(p)'
  BY <1>1 DEF FreshStillNew, CoversListed
<1>6. TodoConsumed(p)'
  BY <1>1, <1>3 DEF TodoConsumed
<1>7. Marked(p)'
  BY <1>1, <1>4 DEF Marked
<1> QED
  BY <1>5, <1>6, <1>7 DEF TriageOK

LEMMA TriageTriageOK ==
  ASSUME TriageInv, NEW p \in Processes, Triage(p)  PROVE TriageOK(p)'
<1>1. /\ TypeOK /\ TriageOK(p) /\ pc[p] = "triage" /\ seen[p] \subseteq DOMAIN feedback
      /\ UNCHANGED <<pc, backlog, cancelled, seen, source>>
  BY DEF TriageInv, TypeInv, ListedExists, Triage
<1>2. PICK i \in todo[p] :
        /\ feedback' = IF StoreOK(p) THEN [feedback EXCEPT ![i].status = "triaged"]
                                     ELSE feedback
        /\ todo' = [todo EXCEPT ![p] = @ \ {i}]
  BY DEF Triage
<1>3. todo'[p] = todo[p] \ {i}
  BY <1>1, <1>2 DEF TypeOK
<1>4. feedback \in [DOMAIN feedback -> FeedbackRow]
  BY <1>1, LenProperties DEF TypeOK
<1>5. /\ DOMAIN feedback' = DOMAIN feedback
      /\ \A j \in DOMAIN feedback \ {i} : feedback'[j] = feedback[j]
      /\ StoreOK(p) /\ i \in DOMAIN feedback => feedback'[i].status = "triaged"
  BY <1>2, <1>4 DEF FeedbackRow
<1>6. FreshStillNew(p)' /\ CoversListed(p)'
  BY <1>1 DEF FreshStillNew, CoversListed
<1>7. TodoConsumed(p)'
  BY <1>1, <1>3, <1>5 DEF TriageOK, TodoConsumed
<1>8. Marked(p)'
  BY <1>1, <1>3, <1>5 DEF TriageOK, Marked, StoreOK
<1> QED
  BY <1>6, <1>7, <1>8 DEF TriageOK

(* The other steps of a run. *)
LEMMA RunStepTriageOK ==
  ASSUME TriageInv, NEW p \in Processes, Enter(p) \/ RunStep(p)  PROVE TriageOK(p)'
<1>1. TypeOK /\ TriageOK(p) /\ DOMAIN pc = Processes
  BY DEF TriageInv, TypeInv, TypeOK
<1>2. CASE Enter(p)
  BY <1>1, <1>2 DEF Enter, Goto, TriageOK, FreshStillNew, CoversListed, TodoConsumed, Marked
<1>3. CASE ListFeedback(p)
  <2>1. /\ pc'[p] = "listBacklog" /\ UNCHANGED feedback
        /\ seen'[p] = Newest(feedback)
        /\ fresh'[p] = {i \in Newest(feedback) : feedback[i].status = "new"}
    BY <1>1, <1>3 DEF ListFeedback, Goto, TypeOK, tables
  <2> QED
    BY <2>1 DEF TriageOK, FreshStillNew, CoversListed, TodoConsumed, Marked
<1>4. CASE ListBacklog(p)
  <2>1. pc[p] = "listBacklog" /\ pc'[p] = "cluster" /\ UNCHANGED <<feedback, seen, fresh>>
    BY <1>1, <1>4 DEF ListBacklog, Goto, tables
  <2> QED
    BY <1>1, <2>1 DEF TriageOK, FreshStillNew, CoversListed, TodoConsumed, Marked
<1>5. CASE ClusterByModel(p)
  <2>1. /\ pc[p] = "cluster" /\ pc'[p] = "replace" /\ UNCHANGED <<feedback, seen, fresh>>
        /\ source'[p] = "llm"
    BY <1>1, <1>5 DEF ClusterByModel, Goto, tables, TypeOK
  <2> QED
    BY <1>1, <2>1 DEF TriageOK, FreshStillNew, CoversListed, TodoConsumed, Marked
<1>6. CASE ClusterMechanically(p)
  <2>1. pc[p] = "cluster" /\ pc'[p] = "replace" /\ UNCHANGED <<feedback, seen, fresh>>
    BY <1>1, <1>6 DEF ClusterMechanically, Goto, tables
  <2>2. \A i \in seen'[p] : \E k \in DOMAIN entries'[p] : i \in entries'[p][k].from
    BY <1>6, <2>1, EntriesCover DEF TriageInv
  <2> QED
    BY <1>1, <2>1, <2>2 DEF TriageOK, FreshStillNew, CoversListed, TodoConsumed, Marked
<1>7. CASE Replace(p)
  BY <1>7, ReplaceTriageOK
<1>8. CASE Triage(p)
  BY <1>8, TriageTriageOK
<1>9. CASE WriteDoc(p)
  <2>1. /\ pc[p] = "triage" /\ pc'[p] = "finish" /\ todo[p] = {}
        /\ UNCHANGED <<feedback, cancelled, locals>>
    BY <1>1, <1>9 DEF WriteDoc, Goto
  <2> QED
    BY <1>1, <2>1
    DEF TriageOK, FreshStillNew, CoversListed, TodoConsumed, Marked, StoreOK, locals
<1>10. CASE Fail(p) \/ Finish(p)
  <2>1. pc'[p] \in {"failed", "view", "idle"}
    BY <1>1, <1>10 DEF Fail, Finish, Goto
  <2> QED
    BY <2>1 DEF TriageOK, FreshStillNew, CoversListed, TodoConsumed, Marked
<1> QED
  BY <1>2, <1>3, <1>4, <1>5, <1>6, <1>7, <1>8, <1>9, <1>10 DEF RunStep

(* What the other steps do to what a run relies on: a click keeps the       *)
(* feedback a row counts, and nothing is unlisted or uncancelled inside.    *)
LEMMA ClickKeepsFrom ==
  ASSUME TypeOK, NEW o \in Operators, Click(o), NEW b \in backlog
  PROVE  \E c \in backlog' : c.from = b.from
<1>1. PICK row \in screen[o], status \in Choices : SetBacklogStatus(row.id, status)
  BY DEF Click
<1>2. b.from = (IF b.id = row.id THEN [b EXCEPT !.status = status] ELSE b).from
  BY DEF TypeOK, Item
<1> QED
  BY <1>1, <1>2 DEF SetBacklogStatus

LEMMA OtherTriageOK ==
  ASSUME TriageInv, NEW q \in Processes,
         UNCHANGED <<seen, fresh, source, entries, todo>>,
         Inside(q)' => pc'[q] = pc[q] /\ (cancelled[q] => cancelled'[q]),
         \A i \in DOMAIN feedback : i \in DOMAIN feedback' /\ feedback'[i] = feedback[i],
         \A b \in backlog : \E c \in backlog' : c.from = b.from
  PROVE  TriageOK(q)'
<1>1. CASE Inside(q)'
  <2>1. TriageOK(q) /\ seen[q] \subseteq DOMAIN feedback
    BY DEF TriageInv, TypeInv, ListedExists
  <2>2. pc'[q] = pc[q] /\ (StoreOK(q)' => StoreOK(q))
    BY <1>1 DEF StoreOK
  <2>3. FreshStillNew(q)' /\ CoversListed(q)'
    BY <2>1, <2>2 DEF TriageOK, FreshStillNew, CoversListed
  <2>4. TodoConsumed(q)'
    BY <2>1, <2>2 DEF TriageOK, TodoConsumed
  <2>5. Marked(q)'
    BY <2>1, <2>2 DEF TriageOK, Marked
  <2> QED
    BY <2>3, <2>4, <2>5 DEF TriageOK
<1>2. CASE ~Inside(q)'
  BY <1>2, OutsideTriageOK
<1> QED
  BY <1>1, <1>2

LEMMA TriageInvNext == TriageInv /\ [Next]_vars => TriageInv'
<1> SUFFICES ASSUME TriageInv, [Next]_vars PROVE TriageInv'
  OBVIOUS
<1>1. /\ TypeOK /\ DOMAIN pc = Processes /\ DOMAIN cancelled = Processes
      /\ Operators \subseteq Processes
      /\ \A p, q \in Processes : Inside(p) /\ Inside(q) => p = q
  BY DEF TriageInv, TypeInv, TypeOK, OneRegeneration, Processes
<1>2. TypeInv' /\ OneRegeneration'
  BY NextType, OneRegenerationNext DEF TriageInv, TypeInv
<1>3. ASSUME NEW p \in Processes, Enter(p) \/ RunStep(p), NEW q \in Processes
      PROVE  TriageOK(q)'
  <2>1. CASE q = p
    BY <1>3, <2>1, RunStepTriageOK
  <2>2. CASE q # p
    <3>1. CASE Enter(p)
      BY <1>1, <2>2, <3>1, OutsideTriageOK
      DEF Enter, Goto, Inside, TriageInv, OneRegeneration
    <3>2. CASE RunStep(p)
      BY <1>1, <2>2, <3>2, RunStepInside, OutsideTriageOK DEF Inside
    <3> QED
      BY <1>3, <3>1, <3>2
  <2> QED
    BY <2>1, <2>2
<1>4. ASSUME NEW o \in Operators, Refused(o) \/ View(o) \/ Click(o) \/ Disconnect(o),
             NEW q \in Processes
      PROVE  TriageOK(q)'
  <2>1. UNCHANGED <<feedback, seen, fresh, source, entries, todo>>
    BY <1>4 DEF Refused, View, Click, Disconnect, tables, locals
  <2>2. \A b \in backlog : \E c \in backlog' : c.from = b.from
    <3>1. CASE Click(o)
      BY <1>1, <3>1, ClickKeepsFrom
    <3>2. CASE ~Click(o)
      BY <1>4, <3>2 DEF Refused, View, Disconnect, tables
    <3> QED
      BY <3>1, <3>2
  <2>3. Inside(q)' => pc'[q] = pc[q] /\ (cancelled[q] => cancelled'[q])
    <3>1. CASE Refused(o) \/ Click(o)
      BY <1>1, <3>1 DEF Refused, Click, Goto, Inside
    <3>2. CASE View(o)
      BY <1>1, <3>2 DEF View, Goto, Inside
    <3>3. CASE Disconnect(o)
      BY <1>1, <3>3 DEF Disconnect
    <3> QED
      BY <1>4, <3>1, <3>2, <3>3
  <2> QED
    BY <2>1, <2>2, <2>3, OtherTriageOK
<1>5. ASSUME NEW label \in Labels, CreateFeedback(label), NEW q \in Processes
      PROVE  TriageOK(q)'
  <2> DEFINE row == [label |-> label, status |-> "new"]
  <2>1. /\ feedback' = Append(feedback, row)
        /\ UNCHANGED <<backlog, pc, cancelled, seen, fresh, source, entries, todo>>
    BY <1>5 DEF CreateFeedback, locals
  <2>2. feedback \in Seq(FeedbackRow) /\ row \in FeedbackRow
    BY <1>1 DEF TypeOK, FeedbackRow
  <2> HIDE DEF row
  <2>3. \A i \in DOMAIN feedback : i \in DOMAIN feedback' /\ feedback'[i] = feedback[i]
    BY <2>1, <2>2, AppendProperties, LenProperties
  <2> QED
    BY <2>1, <2>3, OtherTriageOK DEF Inside
<1>6. ASSUME Crash, NEW q \in Processes PROVE TriageOK(q)'
  BY <1>6, OutsideTriageOK DEF Crash, Inside
<1>7. ASSUME UNCHANGED vars, NEW q \in Processes PROVE TriageOK(q)'
  BY <1>7, OtherTriageOK DEF vars, tables, locals
<1>8. \A q \in Processes : TriageOK(q)'
  BY <1>3, <1>4, <1>5, <1>6, <1>7 DEF Next
<1> QED
  BY <1>2, <1>8 DEF TriageInv

LEMMA TriageInvInit == Init => TriageInv
<1> SUFFICES ASSUME Init PROVE TriageInv
  OBVIOUS
<1>1. OneRegeneration
  BY DEF Init, OneRegeneration, Inside
<1>2. \A p \in Processes : TriageOK(p)
  BY DEF Init, TriageOK, FreshStillNew, CoversListed, TodoConsumed, Marked
<1> QED
  BY <1>1, <1>2, InitType DEF TriageInv

(* A mechanical run whose client stayed leaves nothing it listed untriaged, *)
(* with either store and whatever arrives or is clicked meanwhile.          *)
THEOREM MechanicalRunsTriage == Spec => []MechanicalRunTriagesAll
<1>1. TriageInv => MechanicalRunTriagesAll
  BY DEF TriageInv, TriageOK, Marked, MechanicalRunTriagesAll
<1> QED
  BY <1>1, TriageInvInit, TriageInvNext, PTL DEF Spec

(* Feedback turns triaged only while an item on the backlog counts it, and  *)
(* never turns back, with either store.                                     *)
THEOREM OnlyConsumedIsTriaged == Spec => TriagedWasConsumed
<1> DEFINE A == \A i \in DOMAIN feedback \cap DOMAIN feedback' : feedback'[i] # feedback[i] =>
                  /\ feedback[i].status = "new" /\ feedback'[i].status = "triaged"
                  /\ \E b \in backlog : i \in b.from
<1>1. TriageInv /\ [Next]_vars => [A]_feedback
  <2> SUFFICES ASSUME TriageInv, [Next]_vars, feedback' # feedback,
                      NEW i \in DOMAIN feedback \cap DOMAIN feedback',
                      feedback'[i] # feedback[i]
               PROVE  /\ feedback[i].status = "new" /\ feedback'[i].status = "triaged"
                      /\ \E b \in backlog : i \in b.from
    OBVIOUS
  <2>1. TypeOK /\ feedback \in [DOMAIN feedback -> FeedbackRow] /\ feedback \in Seq(FeedbackRow)
    BY LenProperties DEF TriageInv, TypeInv, TypeOK
  <2>2. ~Crash
    BY EmptySeq DEF Crash
  <2>3. ASSUME NEW label \in Labels, CreateFeedback(label) PROVE FALSE
    <3> DEFINE row == [label |-> label, status |-> "new"]
    <3>1. feedback' = Append(feedback, row) /\ row \in FeedbackRow
      BY <2>3 DEF CreateFeedback, FeedbackRow
    <3> HIDE DEF row
    <3>2. feedback'[i] = feedback[i]
      BY <2>1, <3>1, AppendProperties, LenProperties
    <3> QED
      BY <3>2
  <2>4. PICK p \in Processes : Triage(p)
    BY <2>2, <2>3 DEF Next, vars, tables, locals, Enter, RunStep, ListFeedback, ListBacklog,
       ClusterByModel, ClusterMechanically, Replace, ReplaceAndMark, WriteDoc, Fail, Finish,
       Refused, View, Click, Disconnect
  <2>5. PICK j \in todo[p] :
          feedback' = IF StoreOK(p) THEN [feedback EXCEPT ![j].status = "triaged"] ELSE feedback
    BY <2>4 DEF Triage
  <2>6. i = j /\ feedback'[i].status = "triaged"
    BY <2>1, <2>5 DEF FeedbackRow
  <2>7. TodoConsumed(p) /\ pc[p] = "triage"
    BY <2>4 DEF TriageInv, TriageOK, Triage
  <2> QED
    BY <2>5, <2>6, <2>7 DEF TodoConsumed
<1> QED
  BY <1>1, TriageInvInit, TriageInvNext, PTL DEF Spec, TriagedWasConsumed
=============================================================================

--------------------------- MODULE DevLoopProofs ---------------------------
(***************************************************************************)
(* What holds of DevLoop for every set of operators, every set of labels,  *)
(* every limit and, unless a theorem says so, for both stores.             *)
(***************************************************************************)
EXTENDS DevLoop, FiniteSetTheorems, SequenceTheorems, FunctionTheorems, TLAPS

(* A run lists feedback that exists: the part of the type invariant that    *)
(* relates two variables.                                                   *)
ListedExists == \A p \in Processes : seen[p] \subseteq DOMAIN feedback
TypeInv == TypeOK /\ ListedExists

----------------------------------------------------------------------------
\* The operators

LEMMA ThemesFinite == IsFiniteSet(Themes)
<1> DEFINE f == [l \in Labels |-> NormalizeTheme(l)]
<1>1. f \in Surjection(Labels, Themes)
  BY DEF Themes, Surjection
<1> HIDE DEF f
<1>2. IsFiniteSet(Labels)
  BY DevLoopAssumption
<1> QED
  BY <1>1, <1>2, FS_Surjection

LEMMA NewestListed ==
  ASSUME NEW rows \in Seq(FeedbackRow), Len(rows) <= MaxFeedback
  PROVE  Newest(rows) \subseteq DOMAIN rows /\ Newest(rows) \subseteq FeedbackIds
BY DevLoopAssumption DEF Newest, FeedbackIds

(* Every clustering maps themes to listed feedback. *)
LEMMA MechanicalType ==
  ASSUME NEW rows \in Seq(FeedbackRow), NEW ids \in SUBSET DOMAIN rows
  PROVE  /\ DOMAIN Mechanical(rows, ids) \subseteq Themes
         /\ \A t \in DOMAIN Mechanical(rows, ids) : Mechanical(rows, ids)[t] \subseteq ids
<1>1. rows \in [DOMAIN rows -> FeedbackRow]
  BY LenProperties
<1> DEFINE theme(i) == NormalizeTheme(rows[i].label)
           ts == {theme(i) : i \in ids}
<1>2. \A i \in ids : theme(i) \in Themes
  BY <1>1 DEF FeedbackRow, Themes
<1>3. ts \subseteq Themes
  BY <1>2
<1>4. Mechanical(rows, ids) = [t \in ts |-> {i \in ids : theme(i) = t}]
  BY DEF Mechanical
<1> HIDE DEF theme, ts
<1> QED
  BY <1>3, <1>4

LEMMA LLMClusteringsType ==
  ASSUME NEW ids, NEW c \in LLMClusterings(ids)
  PROVE  /\ DOMAIN c \subseteq Themes
         /\ \A t \in DOMAIN c : c[t] \subseteq ids
BY DEF LLMClusterings

LEMMA RankingsType ==
  ASSUME NEW T \in SUBSET Themes, NEW r \in Rankings(T)
  PROVE  /\ \E n \in Nat : r \in [1 .. n -> T]
         /\ \A j, k \in DOMAIN r : r[j] = r[k] => j = k
<1>1. Cardinality(T) \in Nat
  BY ThemesFinite, FS_Subset, FS_CardinalityType
<1> QED
  BY <1>1 DEF Rankings

LEMMA EntryType ==
  ASSUME NEW t \in Themes, NEW clusters, clusters[t] \subseteq FeedbackIds,
         NEW listed \in SUBSET Item
  PROVE  /\ Entry(t, clusters, listed) \in Item
         /\ Entry(t, clusters, listed).theme = t
         /\ Entry(t, clusters, listed).id # 0 =>
              \E q \in listed : /\ q.id = Entry(t, clusters, listed).id
                                /\ q.theme = t
         /\ Entry(t, clusters, listed).status # "proposed" => \E q \in listed : q.theme = t
<1> DEFINE decided == {q \in listed : q.theme = t /\ q.status # "proposed"}
           d == CHOOSE x \in decided : TRUE
<1>1. CASE decided = {}
  <2>1. Entry(t, clusters, listed) =
          [id |-> 0, theme |-> t, status |-> "proposed", from |-> clusters[t]]
    BY <1>1 DEF Entry
  <2> QED
    BY <2>1 DEF Item, Statuses
<1>2. CASE decided # {}
  <2>1. d \in decided
    BY <1>2
  <2>2. Entry(t, clusters, listed) =
          [id |-> d.id, theme |-> t, status |-> d.status, from |-> clusters[t]]
    BY <1>2 DEF Entry
  <2> HIDE DEF d
  <2> QED
    BY <2>1, <2>2 DEF Item
<1> QED
  BY <1>1, <1>2

(* buildEntries yields a sequence of items, one per theme; an id or a       *)
(* decision it carries over is that of a listed item of the same theme.     *)
WellBuilt(es, listed) ==
  /\ es \in Seq(Item)
  /\ \A j, k \in DOMAIN es : es[j].theme = es[k].theme => j = k
  /\ \A k \in DOMAIN es :
       /\ es[k].id # 0 => \E q \in listed : q.id = es[k].id /\ q.theme = es[k].theme
       /\ es[k].status # "proposed" => \E q \in listed : q.theme = es[k].theme

LEMMA BuildEntriesType ==
  ASSUME TypeOK, NEW p \in Processes, NEW clusters, BuildEntries(p, clusters),
         DOMAIN clusters \subseteq Themes,
         \A t \in DOMAIN clusters : clusters[t] \subseteq FeedbackIds
  PROVE  \E es : entries' = [entries EXCEPT ![p] = es] /\ WellBuilt(es, prior[p])
<1>1. PICK r \in Rankings(DOMAIN clusters) :
         entries' = [entries EXCEPT ![p] = [k \in DOMAIN r |-> Entry(r[k], clusters, prior[p])]]
  BY DEF BuildEntries
<1>2. PICK n \in Nat : r \in [1 .. n -> DOMAIN clusters]
  BY RankingsType
<1> DEFINE es == [k \in DOMAIN r |-> Entry(r[k], clusters, prior[p])]
<1>3. prior[p] \subseteq Item
  BY DEF TypeOK
<1>4. \A k \in 1 .. n : /\ es[k] \in Item
                        /\ es[k].theme = r[k]
                        /\ es[k].id # 0 => \E q \in prior[p] : q.id = es[k].id /\ q.theme = r[k]
                        /\ es[k].status # "proposed" => \E q \in prior[p] : q.theme = r[k]
  BY <1>2, <1>3, EntryType
<1>5. DOMAIN es = 1 .. n
  BY <1>2
<1>6. es \in Seq(Item)
  <2>1. es \in [1 .. n -> Item]
    BY <1>4, <1>5
  <2> QED
    BY <2>1, SeqDef
<1>7. \A j, k \in DOMAIN r : r[j] = r[k] => j = k
  BY RankingsType
<1>8. WellBuilt(es, prior[p])
  <2>1. \A j, k \in DOMAIN es : es[j].theme = es[k].theme => j = k
    BY <1>2, <1>4, <1>5, <1>7
  <2> HIDE DEF es
  <2> QED
    BY <1>4, <1>5, <1>6, <2>1 DEF WellBuilt
<1> QED
  BY <1>1, <1>8

LEMMA StoredItemType ==
  ASSUME TypeOK, NEW e \in Item, NEW k \in Nat \ {0}
  PROVE  /\ StoredItem(e, k) \in Item
         /\ StoredItem(e, k).theme = e.theme
<1> DEFINE same == {b \in backlog : b.theme = e.theme}
           d == CHOOSE x \in same : TRUE
<1>1. same # {} => d \in backlog
  OBVIOUS
<1>2. same # {} => d.status \in Statuses
  BY <1>1 DEF TypeOK, Item
<1>3. nextItem + k - 1 \in Nat
  BY DEF TypeOK
<1>4. StoredItem(e, k) =
        [id     |-> IF Backend = "memory" /\ e.id # 0 THEN e.id ELSE nextItem + k - 1,
         theme  |-> e.theme,
         status |-> IF Backend = "sqlite" /\ same # {} THEN d.status ELSE e.status,
         from   |-> e.from]
  BY DEF StoredItem
<1> HIDE DEF same, d
<1> QED
  BY <1>2, <1>3, <1>4 DEF Item

----------------------------------------------------------------------------
\* Type correctness

LEMMA InitType == Init => TypeInv
<1> SUFFICES ASSUME Init PROVE TypeInv
  OBVIOUS
<1>1. <<>> \in Seq(FeedbackRow) /\ Len(<<>>) = 0 /\ <<>> \in Seq(Item)
  BY EmptySeq
<1>2. feedback \in Seq(FeedbackRow) /\ Len(feedback) <= MaxFeedback
  BY <1>1, DevLoopAssumption DEF Init
<1>3. entries \in [Processes -> Seq(Item)]
  BY <1>1 DEF Init
<1>4. ListedExists
  BY DEF Init, ListedExists
<1>5. /\ pc \in [Processes -> {"idle"}] /\ cancelled \in [Processes -> BOOLEAN]
      /\ source \in [Processes -> {"none"}]
  BY DEF Init
<1>6. /\ seen \in [Processes -> SUBSET FeedbackIds] /\ fresh \in [Processes -> SUBSET FeedbackIds]
      /\ todo \in [Processes -> SUBSET FeedbackIds] /\ prior \in [Processes -> SUBSET Item]
      /\ screen \in [Operators -> SUBSET Shown]
  BY DEF Init
<1>7. /\ backlog \subseteq Item /\ nextItem \in Nat \ {0}
      /\ doc \subseteq [theme : Themes, status : Statuses]
      /\ runs \in Nat /\ crashes \in Nat /\ disconnects \in Nat
  BY DEF Init
<1>8. regenRunning \in BOOLEAN /\ lastRunErr = "none"
  BY DEF Init
<1> QED
  BY <1>2, <1>3, <1>4, <1>5, <1>6, <1>7, <1>8 DEF TypeInv, TypeOK

(* The steps of a run. *)
LEMMA EnterType ==
  ASSUME TypeInv, NEW p \in Processes, Enter(p)  PROVE TypeInv'
BY DEF TypeInv, TypeOK, ListedExists, Enter, Goto, tables, locals, guard

LEMMA ListFeedbackType ==
  ASSUME TypeInv, NEW p \in Processes, ListFeedback(p)  PROVE TypeInv'
<1>1. Newest(feedback) \subseteq DOMAIN feedback /\ Newest(feedback) \subseteq FeedbackIds
  BY NewestListed DEF TypeInv, TypeOK
<1> QED
  BY <1>1 DEF TypeInv, TypeOK, ListedExists, ListFeedback, Goto, tables, guard, bounds

LEMMA ListBacklogType ==
  ASSUME TypeInv, NEW p \in Processes, ListBacklog(p)  PROVE TypeInv'
BY DEF TypeInv, TypeOK, ListedExists, ListBacklog, Goto, tables, guard, bounds

LEMMA ClusterStep ==
  ASSUME TypeInv, NEW p \in Processes, ClusterByModel(p) \/ ClusterMechanically(p)
  PROVE  \E es : entries' = [entries EXCEPT ![p] = es] /\ WellBuilt(es, prior[p])
<1>1. seen[p] \subseteq DOMAIN feedback /\ seen[p] \subseteq FeedbackIds
  BY DEF TypeInv, TypeOK, ListedExists
<1>2. CASE ClusterByModel(p)
  <2>1. PICK c \in LLMClusterings(seen[p]) : BuildEntries(p, c)
    BY <1>2 DEF ClusterByModel
  <2> QED
    BY <1>1, <2>1, LLMClusteringsType, BuildEntriesType DEF TypeInv
<1>3. CASE ClusterMechanically(p)
  <2> DEFINE c == Mechanical(feedback, seen[p])
  <2>1. BuildEntries(p, c)
    BY <1>3 DEF ClusterMechanically
  <2>2. DOMAIN c \subseteq Themes /\ \A t \in DOMAIN c : c[t] \subseteq FeedbackIds
    BY <1>1, MechanicalType DEF TypeInv, TypeOK
  <2> HIDE DEF c
  <2> QED
    BY <2>1, <2>2, BuildEntriesType DEF TypeInv
<1> QED
  BY <1>2, <1>3

LEMMA ClusterType ==
  ASSUME TypeInv, NEW p \in Processes, ClusterByModel(p) \/ ClusterMechanically(p)
  PROVE  TypeInv'
<1>1. PICK es : entries' = [entries EXCEPT ![p] = es] /\ es \in Seq(Item)
  BY ClusterStep DEF WellBuilt
<1>2. entries' \in [Processes -> Seq(Item)]
  BY <1>1 DEF TypeInv, TypeOK
<1> QED
  BY <1>2 DEF TypeInv, TypeOK, ListedExists, ClusterByModel, ClusterMechanically, Goto,
              tables, guard, bounds

LEMMA ReplaceType ==
  ASSUME TypeInv, NEW p \in Processes, Replace(p)  PROVE TypeInv'
<1>1. entries[p] \in Seq(Item)
  BY DEF TypeInv, TypeOK
<1>2. Len(entries[p]) \in Nat /\ DOMAIN entries[p] = 1 .. Len(entries[p])
      /\ \A k \in DOMAIN entries[p] : entries[p][k] \in Item
  BY <1>1, LenProperties
<1>3. backlog' \subseteq Item
  BY <1>2, StoredItemType DEF TypeInv, Replace, ReplaceAndMark
<1>4. nextItem' \in Nat \ {0}
  BY <1>2 DEF TypeInv, TypeOK, Replace, ReplaceAndMark
<1>5. todo' \in [Processes -> SUBSET FeedbackIds]
  BY DEF TypeInv, TypeOK, Replace, ReplaceAndMark
<1> QED
  BY <1>3, <1>4, <1>5
  DEF TypeInv, TypeOK, ListedExists, Replace, ReplaceAndMark, Goto, guard, bounds

LEMMA TriageType ==
  ASSUME TypeInv, NEW p \in Processes, Triage(p)  PROVE TypeInv'
<1>1. feedback' \in Seq(FeedbackRow) /\ DOMAIN feedback' = DOMAIN feedback
      /\ Len(feedback') = Len(feedback)
  <2>1. PICK i \in todo[p] :
          feedback' = IF StoreOK(p) THEN [feedback EXCEPT ![i].status = "triaged"] ELSE feedback
    BY DEF Triage
  <2>2. feedback \in [1 .. Len(feedback) -> FeedbackRow] /\ Len(feedback) \in Nat
        /\ DOMAIN feedback = 1 .. Len(feedback)
    BY LenProperties DEF TypeInv, TypeOK
  <2>3. feedback' \in [1 .. Len(feedback) -> FeedbackRow]
    BY <2>1, <2>2 DEF FeedbackRow
  <2>4. feedback' \in Seq(FeedbackRow)
    BY <2>2, <2>3, SeqDef
  <2> QED
    BY <2>2, <2>3, <2>4, LenProperties
<1> QED
  BY <1>1 DEF TypeInv, TypeOK, ListedExists, Triage, guard, bounds

LEMMA WriteDocType ==
  ASSUME TypeInv, NEW p \in Processes, WriteDoc(p)  PROVE TypeInv'
<1>1. doc' \subseteq [theme : Themes, status : Statuses]
  <2>1. \A k \in DOMAIN entries[p] : entries[p][k] \in Item
    BY LenProperties DEF TypeInv, TypeOK
  <2> QED
    BY <2>1 DEF TypeInv, TypeOK, WriteDoc, Item
<1> QED
  BY <1>1 DEF TypeInv, TypeOK, ListedExists, WriteDoc, Goto, guard, locals, bounds

LEMMA FailType ==
  ASSUME TypeInv, NEW p \in Processes, Fail(p)  PROVE TypeInv'
BY DEF TypeInv, TypeOK, ListedExists, Fail, Goto, tables, guard, locals, bounds

LEMMA FinishType ==
  ASSUME TypeInv, NEW p \in Processes, Finish(p)  PROVE TypeInv'
<1>1. <<>> \in Seq(Item)
  BY EmptySeq
<1> QED
  BY <1>1 DEF TypeInv, TypeOK, ListedExists, Finish, Goto, tables, bounds

LEMMA RunStepType ==
  ASSUME TypeInv, NEW p \in Processes, RunStep(p)  PROVE TypeInv'
BY ListFeedbackType, ListBacklogType, ClusterType, ReplaceType, TriageType, WriteDocType,
   FailType, FinishType DEF RunStep

(* The other steps. *)
LEMMA OperatorType ==
  ASSUME TypeInv, NEW o \in Operators, Refused(o) \/ View(o) \/ Click(o) \/ Disconnect(o)
  PROVE  TypeInv'
<1>1. CASE Refused(o)
  BY <1>1 DEF TypeInv, TypeOK, ListedExists, Refused, Goto, Processes, tables, guard, locals,
              bounds
<1>2. CASE View(o)
  <2>1. {Show(b) : b \in backlog} \subseteq Shown
    BY DEF TypeInv, TypeOK, Show, Shown, Item
  <2> QED
    BY <1>2, <2>1 DEF TypeInv, TypeOK, ListedExists, View, Goto, Processes, tables, guard,
                      locals, bounds
<1>3. CASE Click(o)
  <2>1. PICK row \in screen[o], status \in Choices : SetBacklogStatus(row.id, status)
    BY <1>3 DEF Click
  <2>2. status \in Statuses
    BY DevLoopAssumption
  <2>3. \A b \in backlog : b \in Item /\ [b EXCEPT !.status = status] \in Item
    BY <2>2 DEF TypeInv, TypeOK, Item
  <2>4. backlog' \subseteq Item
    BY <2>1, <2>3 DEF SetBacklogStatus
  <2> QED
    BY <1>3, <2>4 DEF TypeInv, TypeOK, ListedExists, Click, Goto, Processes, guard, locals,
                      bounds
<1>4. CASE Disconnect(o)
  BY <1>4 DEF TypeInv, TypeOK, ListedExists, Disconnect, Processes, tables, guard, locals
<1> QED
  BY <1>1, <1>2, <1>3, <1>4

LEMMA CreateFeedbackType ==
  ASSUME TypeInv, NEW label \in Labels, CreateFeedback(label)  PROVE TypeInv'
<1> DEFINE row == [label |-> label, status |-> "new"]
<1>1. row \in FeedbackRow
  BY DEF FeedbackRow
<1>2. feedback \in Seq(FeedbackRow) /\ Len(feedback) \in Nat
  BY LenProperties DEF TypeInv, TypeOK
<1>3. feedback' = Append(feedback, row)
  BY DEF CreateFeedback
<1> HIDE DEF row
<1>4. feedback' \in Seq(FeedbackRow) /\ Len(feedback') = Len(feedback) + 1
  BY <1>1, <1>2, <1>3, AppendProperties
<1>5. Len(feedback') <= MaxFeedback
  BY <1>2, <1>4, DevLoopAssumption DEF CreateFeedback
<1>6. DOMAIN feedback \subseteq DOMAIN feedback'
  BY <1>2, <1>4, LenProperties
<1> QED
  BY <1>4, <1>5, <1>6
  DEF TypeInv, TypeOK, ListedExists, CreateFeedback, guard, locals, bounds

LEMMA CrashType ==
  ASSUME TypeInv, Crash  PROVE TypeInv'
<1>1. <<>> \in Seq(FeedbackRow) /\ Len(<<>>) = 0 /\ <<>> \in Seq(Item)
  BY EmptySeq
<1>2. feedback' \in Seq(FeedbackRow) /\ Len(feedback') <= MaxFeedback
  BY <1>1, DevLoopAssumption DEF TypeInv, TypeOK, Crash
<1>3. entries' \in [Processes -> Seq(Item)]
  BY <1>1 DEF Crash
<1>4. backlog' \subseteq Item /\ nextItem' \in Nat \ {0}
  BY DEF TypeInv, TypeOK, Crash
<1>5. ListedExists'
  BY DEF ListedExists, Crash
<1>6. /\ pc' \in [Processes -> {"idle"}] /\ cancelled' \in [Processes -> BOOLEAN]
      /\ source' \in [Processes -> {"none"}]
  BY DEF Crash
<1>7. /\ seen' \in [Processes -> SUBSET FeedbackIds]
      /\ fresh' \in [Processes -> SUBSET FeedbackIds]
      /\ todo' \in [Processes -> SUBSET FeedbackIds]
      /\ prior' \in [Processes -> SUBSET Item]
  BY DEF Crash
<1>8. /\ doc' \subseteq [theme : Themes, status : Statuses]
      /\ screen' \in [Operators -> SUBSET Shown]
      /\ runs' \in Nat /\ crashes' \in Nat /\ disconnects' \in Nat
  BY DEF TypeInv, TypeOK, Crash
<1>9. regenRunning' \in BOOLEAN /\ lastRunErr' = "none"
  BY DEF Crash
<1> QED
  BY <1>2, <1>3, <1>4, <1>5, <1>6, <1>7, <1>8, <1>9 DEF TypeInv, TypeOK

LEMMA NextType == TypeInv /\ [Next]_vars => TypeInv'
<1> SUFFICES ASSUME TypeInv, [Next]_vars PROVE TypeInv'
  OBVIOUS
<1>1. CASE Next
  BY <1>1, EnterType, RunStepType, OperatorType, CreateFeedbackType, CrashType DEF Next
<1>2. CASE UNCHANGED vars
  BY <1>2 DEF TypeInv, TypeOK, ListedExists, vars, tables, guard, locals, bounds
<1> QED
  BY <1>1, <1>2

(* Every variable keeps its type, and what a run listed stays on file. *)
THEOREM TypeCorrect == Spec => []TypeOK
<1>1. TypeInv => TypeOK
  BY DEF TypeInv
<1> QED
  BY <1>1, InitType, NextType, PTL DEF Spec

----------------------------------------------------------------------------
\* One regeneration at a time

(* A step of a run other than its last keeps its process inside and leaves  *)
(* the guard alone.                                                         *)
LEMMA RunStepInside ==
  ASSUME TypeOK, NEW p \in Processes, RunStep(p)
  PROVE  /\ Inside(p)
         /\ \A q \in Processes \ {p} : pc'[q] = pc[q]
         /\ \/ Inside(p)' /\ regenRunning' = regenRunning
            \/ ~Inside(p)' /\ regenRunning' = FALSE
<1>1. DOMAIN pc = Processes
  BY DEF TypeOK
<1>2. CASE ListFeedback(p)
  BY <1>1, <1>2 DEF ListFeedback, Inside, Goto, guard
<1>3. CASE ListBacklog(p)
  BY <1>1, <1>3 DEF ListBacklog, Inside, Goto, guard
<1>4. CASE ClusterByModel(p) \/ ClusterMechanically(p)
  BY <1>1, <1>4 DEF ClusterByModel, ClusterMechanically, Inside, Goto, guard
<1>5. CASE Replace(p)
  BY <1>1, <1>5 DEF Replace, ReplaceAndMark, Inside, Goto, guard
<1>6. CASE Triage(p)
  BY <1>1, <1>6 DEF Triage, Inside, guard
<1>7. CASE WriteDoc(p)
  BY <1>1, <1>7 DEF WriteDoc, Inside, Goto, guard
<1>8. CASE Fail(p)
  BY <1>1, <1>8 DEF Fail, Inside, Goto, guard
<1>9. CASE Finish(p)
  BY <1>1, <1>9 DEF Finish, Inside, Goto
<1> QED
  BY <1>2, <1>3, <1>4, <1>5, <1>6, <1>7, <1>8, <1>9 DEF RunStep

(* The other steps of an operator neither enter nor leave a run. *)
LEMMA OperatorInside ==
  ASSUME TypeOK, NEW o \in Operators, Refused(o) \/ View(o) \/ Click(o) \/ Disconnect(o)
  PROVE  /\ \A q \in Processes : Inside(q)' <=> Inside(q)
         /\ regenRunning' = regenRunning
<1>1. DOMAIN pc = Processes /\ o \in Processes
  BY DEF TypeOK, Processes
<1>2. CASE Refused(o)
  BY <1>1, <1>2 DEF Refused, Inside, Goto, guard
<1>3. CASE View(o)
  BY <1>1, <1>3 DEF View, Inside, Goto, guard
<1>4. CASE Click(o)
  BY <1>1, <1>4 DEF Click, Inside, Goto, guard
<1>5. CASE Disconnect(o)
  BY <1>1, <1>5 DEF Disconnect, Inside, guard
<1> QED
  BY <1>2, <1>3, <1>4, <1>5

LEMMA OneRegenerationNext == TypeOK /\ OneRegeneration /\ [Next]_vars => OneRegeneration'
<1> SUFFICES ASSUME TypeOK, OneRegeneration, [Next]_vars PROVE OneRegeneration'
  OBVIOUS
<1>1. ASSUME NEW p \in Processes, Enter(p) PROVE OneRegeneration'
  <2>1. DOMAIN pc = Processes
    BY DEF TypeOK
  <2>2. /\ \A q \in Processes : ~Inside(q)
        /\ pc' = [pc EXCEPT ![p] = "listFeedback"]
    BY <1>1 DEF OneRegeneration, Enter, Goto
  <2>3. regenRunning' = TRUE
    BY <1>1 DEF Enter
  <2>4. \A q \in Processes : Inside(q)' <=> q = p
    BY <2>1, <2>2 DEF Inside
  <2> QED
    BY <2>3, <2>4 DEF OneRegeneration
<1>2. ASSUME NEW p \in Processes, RunStep(p) PROVE OneRegeneration'
  <2>1. \A q \in Processes : Inside(q) => q = p
    BY <1>2, RunStepInside DEF OneRegeneration
  <2>2. \A q \in Processes \ {p} : ~Inside(q)'
    BY <1>2, <2>1, RunStepInside DEF Inside
  <2>3. Inside(p) /\ regenRunning
    BY <1>2, RunStepInside DEF OneRegeneration
  <2>4. CASE Inside(p)' /\ regenRunning' = regenRunning
    BY <2>2, <2>3, <2>4 DEF OneRegeneration
  <2>5. CASE ~Inside(p)' /\ regenRunning' = FALSE
    BY <2>2, <2>5 DEF OneRegeneration
  <2> QED
    BY <1>2, <2>4, <2>5, RunStepInside
<1>3. ASSUME NEW o \in Operators, Refused(o) \/ View(o) \/ Click(o) \/ Disconnect(o)
      PROVE  OneRegeneration'
  BY <1>3, OperatorInside DEF OneRegeneration
<1>4. ASSUME NEW label \in Labels, CreateFeedback(label) PROVE OneRegeneration'
  BY <1>4 DEF OneRegeneration, Inside, CreateFeedback, guard
<1>5. CASE Crash
  BY <1>5 DEF OneRegeneration, Inside, Crash
<1>6. CASE UNCHANGED vars
  BY <1>6 DEF OneRegeneration, Inside, vars, guard
<1> QED
  BY <1>1, <1>2, <1>3, <1>4, <1>5, <1>6 DEF Next

(* "refusing to overlap a run already in flight": whatever the interleaving *)
(* of requests and ticks, and whoever disconnects or crashes, one process   *)
(* at most is in Regenerate, and the flag is up exactly while one is.       *)
THEOREM NoOverlap == Spec => []OneRegeneration
<1>1. Init => OneRegeneration
  BY DEF Init, OneRegeneration, Inside
<1> QED
  BY <1>1, TypeCorrect, OneRegenerationNext, PTL DEF Spec
============================================================================

------------------------------ MODULE DevLoop ------------------------------
(***************************************************************************)
(* The feedback loop behind /dev: pieces of feedback are clustered into a  *)
(* ranked backlog (internal/devloop), kept by one of the two stores        *)
(* (internal/store), while people decide backlog items on the same page.   *)
(*                                                                         *)
(* A regeneration is a sequence of store calls with a language-model call  *)
(* of up to a minute per chunk in the middle; every store call is atomic   *)
(* (one mutex in Memory, one connection and transactions in SQLite), and   *)
(* everything else may happen between two of them.  Each call is an action *)
(* of the process that makes it: an operator's request, or the ticker.     *)
(***************************************************************************)
EXTENDS Naturals, FiniteSets, Sequences

CONSTANTS
  Operators,      \* people with /dev open, one request at a time each
  Ticker,         \* the background goroutine of devloop.Start
  Backend,        \* the store main opened: "sqlite" or "memory"
  LLM,            \* whether a language model is configured (deps.LLM # nil)
  Labels,         \* [theme, kind] pairs that feedback and model answers carry
  Choices,        \* the statuses operators pick in this instance
  FeedbackLimit,  \* how many pieces Regenerate lists (500 in the code)
  ChunkSize,      \* pieces per clustering request (defaultChunkSize)
  MaxFeedback, MaxRuns, MaxCrashes, MaxDisconnects  \* bounds of the model

Statuses == {"proposed", "accepted", "rejected", "shipped"}

ASSUME DevLoopAssumption ==
  /\ Ticker \notin Operators
  /\ Backend \in {"sqlite", "memory"}
  /\ LLM \in BOOLEAN
  /\ IsFiniteSet(Labels)
  /\ Labels \subseteq [theme : STRING, kind : STRING]
  /\ Choices \subseteq Statuses
  /\ FeedbackLimit \in Nat \ {0}
  /\ ChunkSize \in Nat \ {0}
  /\ MaxFeedback \in Nat /\ MaxRuns \in Nat
  /\ MaxCrashes \in Nat /\ MaxDisconnects \in Nat

Processes == Operators \cup {Ticker}

VARIABLES
  feedback,      \* the feedback table, in creation order; a row's id is its index
  backlog,       \* the backlog table
  nextItem,      \* the next backlog id the store will hand out
  doc,           \* the [theme, status] lines of docs/backlog.md
  regenRunning,  \* the overlap guard of regenerateGuarded
  lastRunErr,    \* how the last regeneration ended
  pc,            \* the next store call of each process
  cancelled,     \* whether the request's context is cancelled (client gone)
  seen,          \* the feedback ids a run listed
  fresh,         \* those whose status read "new"
  prior,         \* the backlog a run listed
  source,        \* how the run clustered: the footer of docs/backlog.md
  entries,       \* the ranked entries it built, id 0 for none
  todo,          \* the feedback it has still to mark triaged
  screen,        \* the backlog rows each operator has on the page
  runs, crashes, disconnects  \* counters of the model's bounds

tables  == <<feedback, backlog, nextItem, doc>>
guard   == <<regenRunning, lastRunErr>>
locals  == <<seen, fresh, prior, source, entries, todo>>
bounds  == <<runs, crashes, disconnects>>
vars    == <<tables, guard, pc, cancelled, locals, screen, bounds>>

----------------------------------------------------------------------------
\* Values

(* A theme falls back to the kind, then to "unsorted". *)
NormalizeTheme(label) ==
  IF label.theme # "" THEN label.theme
  ELSE IF label.kind # "" THEN label.kind ELSE "unsorted"

Themes      == {NormalizeTheme(l) : l \in Labels}
FeedbackIds == 1 .. MaxFeedback
FeedbackRow == [label : Labels, status : {"new", "triaged"}]

(* An item's count, severity, score and evidence are functions of the       *)
(* feedback it was built from, which stands for them.                       *)
Item  == [id : Nat, theme : Themes, status : Statuses, from : SUBSET FeedbackIds]

(* What a click carries: the id in the button, beside the theme in the row. *)
Shown == [id : Nat, theme : Themes]
Show(item) == [id |-> item.id, theme |-> item.theme]

----------------------------------------------------------------------------
\* Clustering

(* ListFeedback, newest first, cut at the limit.  Creation times are taken  *)
(* to be distinct.                                                          *)
Newest(rows) == {i \in DOMAIN rows : i + FeedbackLimit > Len(rows)}

(* The chunk a listed id falls in, the newest chunk being 0. *)
ChunkOf(i, ids) == Cardinality({j \in ids : j > i}) \div ChunkSize

(* clusterMechanical: one cluster per normalised theme. *)
Mechanical(rows, ids) ==
  LET theme(i) == NormalizeTheme(rows[i].label)
  IN  [t \in {theme(i) : i \in ids} |-> {i \in ids : theme(i) = t}]

(* What clusterWithLLM can return: clusters of listed feedback only, one    *)
(* per theme once the chunks are merged, with at least one usable cluster   *)
(* from every chunk.  Feedback may be left out, or fall in several.         *)
LLMClusterings(ids) ==
  {c \in UNION {[T -> SUBSET ids \ {{}}] : T \in SUBSET Themes \ {{}}} :
     \A i \in ids : \E t \in DOMAIN c : \E j \in c[t] : ChunkOf(j, ids) = ChunkOf(i, ids)}

(* The orders the score may put the themes in. *)
Rankings(T) ==
  {r \in [1 .. Cardinality(T) -> T] : \A j, k \in DOMAIN r : r[j] = r[k] => j = k}

(* Mutant of Entry: a new item's status is left unset. *)
EntryUnset(t, clusters, listed) ==
  [id |-> 0, theme |-> t, status |-> "", from |-> clusters[t]]

(* buildEntries: the entry of theme t, given the backlog listed before. *)
Entry(t, clusters, listed) ==
  LET decided == {p \in listed : p.theme = t /\ p.status # "proposed"}
      p       == CHOOSE x \in decided : TRUE
  IN  IF decided = {}
      THEN [id |-> 0, theme |-> t, status |-> "proposed", from |-> clusters[t]]
      ELSE [id |-> p.id, theme |-> t, status |-> p.status, from |-> clusters[t]]
----------------------------------------------------------------------------
\* Initial state

Init ==
  /\ feedback = <<>> /\ backlog = {} /\ nextItem = 1 /\ doc = {}
  /\ regenRunning = FALSE /\ lastRunErr = "none"
  /\ pc        = [p \in Processes |-> "idle"]
  /\ cancelled = [p \in Processes |-> FALSE]
  /\ seen      = [p \in Processes |-> {}]
  /\ fresh     = [p \in Processes |-> {}]
  /\ prior     = [p \in Processes |-> {}]
  /\ source    = [p \in Processes |-> "none"]
  /\ entries   = [p \in Processes |-> <<>>]
  /\ todo      = [p \in Processes |-> {}]
  /\ screen    = [o \in Operators |-> {}]
  /\ runs = 0 /\ crashes = 0 /\ disconnects = 0

(* A store call fails when its context is cancelled, which Memory ignores. *)
StoreOK(p) == Backend = "memory" \/ ~cancelled[p]

Goto(p, label) == pc' = [pc EXCEPT ![p] = label]

----------------------------------------------------------------------------
\* The regeneration, one action per store call

(* Mutant of Enter: the overlap guard is missing. *)
EnterUnguarded(p) ==
  /\ pc[p] = "idle"
  /\ runs < MaxRuns
  /\ regenRunning' = TRUE
  /\ runs' = runs + 1
  /\ Goto(p, "listFeedback")
  /\ UNCHANGED <<tables, lastRunErr, cancelled, locals, screen, crashes, disconnects>>

(* regenerateGuarded, up to the call of Regenerate. *)
Enter(p) ==
  /\ pc[p] = "idle"
  /\ runs < MaxRuns
  /\ ~regenRunning
  /\ regenRunning' = TRUE
  /\ runs' = runs + 1
  /\ Goto(p, "listFeedback")
  /\ UNCHANGED <<tables, lastRunErr, cancelled, locals, screen, crashes, disconnects>>

(* errRegenInProgress: refresh renders the page, the ticker waits for its   *)
(* next tick.                                                               *)
Refused(o) ==
  /\ pc[o] = "idle"
  /\ regenRunning
  /\ Goto(o, "view")
  /\ UNCHANGED <<tables, guard, cancelled, locals, screen, bounds>>

ListFeedback(p) ==
  /\ pc[p] = "listFeedback"
  /\ StoreOK(p)
  /\ seen'  = [seen EXCEPT ![p] = Newest(feedback)]
  /\ fresh' = [fresh EXCEPT ![p] = {i \in Newest(feedback) : feedback[i].status = "new"}]
  /\ Goto(p, "listBacklog")
  /\ UNCHANGED <<tables, guard, cancelled, prior, source, entries, todo, screen, bounds>>

ListBacklog(p) ==
  /\ pc[p] = "listBacklog"
  /\ StoreOK(p)
  /\ prior' = [prior EXCEPT ![p] = backlog]
  /\ Goto(p, "cluster")
  /\ UNCHANGED <<tables, guard, cancelled, seen, fresh, source, entries, todo, screen, bounds>>

(* buildEntries over the clusters, in an order the score decides. *)
BuildEntries(p, clusters) ==
  \E r \in Rankings(DOMAIN clusters) :
    entries' = [entries EXCEPT ![p] = [k \in DOMAIN r |-> Entry(r[k], clusters, prior[p])]]

(* cluster through the model; a cancelled context never gets an answer. *)
ClusterByModel(p) ==
  /\ pc[p] = "cluster"
  /\ LLM /\ ~cancelled[p] /\ seen[p] # {}
  /\ \E c \in LLMClusterings(seen[p]) : BuildEntries(p, c)
  /\ source' = [source EXCEPT ![p] = "llm"]
  /\ Goto(p, "replace")
  /\ UNCHANGED <<tables, guard, cancelled, seen, fresh, prior, todo, screen, bounds>>

(* cluster with no model, no answer from it, or no usable answer; with no  *)
(* feedback listed there is no cluster at all.                              *)
ClusterMechanically(p) ==
  /\ pc[p] = "cluster"
  /\ BuildEntries(p, Mechanical(feedback, seen[p]))
  /\ source' = [source EXCEPT ![p] = "mechanical"]
  /\ Goto(p, "replace")
  /\ UNCHANGED <<tables, guard, cancelled, seen, fresh, prior, todo, screen, bounds>>

(* Mutant of StoredItem: ids start again at 1 in the emptied table, as they *)
(* do without AUTOINCREMENT.                                                *)
StoredItemRowid(e, k) == [e EXCEPT !.id = k]

(* Mutant of StoredItem: the status is the one read before the clustering. *)
StoredItemStale(e, k) == [e EXCEPT !.id = nextItem + k - 1]

(* ReplaceBacklog: the row stored for entry k.  Memory keeps the id and the *)
(* status it is given; SQLite inserts every row anew, with the status its   *)
(* theme has in the table at that moment.  (Memory's counter also numbers   *)
(* other rows, so the ids it skips here do not matter.)                     *)
StoredItem(e, k) ==
  LET same == {b \in backlog : b.theme = e.theme}
      b    == CHOOSE x \in same : TRUE
  IN  [id     |-> IF Backend = "memory" /\ e.id # 0 THEN e.id ELSE nextItem + k - 1,
       theme  |-> e.theme,
       status |-> IF Backend = "sqlite" /\ same # {} THEN b.status ELSE e.status,
       from   |-> e.from]

ReplaceAndMark(p, marked) ==
  /\ pc[p] = "replace"
  /\ StoreOK(p)
  /\ backlog' = {StoredItem(entries[p][k], k) : k \in DOMAIN entries[p]}
  /\ nextItem' = nextItem + Len(entries[p])
  /\ todo' = [todo EXCEPT ![p] = marked]
  /\ Goto(p, "triage")
  /\ UNCHANGED <<feedback, doc, guard, cancelled, seen, fresh, prior, source, entries,
                 screen, bounds>>

(* Mutant of Replace: the feedback of decided items is not marked. *)
ReplaceSkipsDecided(p) ==
  LET open == {k \in DOMAIN entries[p] : entries[p][k].status = "proposed"}
  IN  ReplaceAndMark(p, fresh[p] \cap UNION {entries[p][k].from : k \in open})

(* Mutant of Replace: whatever is new by now is marked. *)
ReplaceMarksAllNew(p) ==
  ReplaceAndMark(p, {i \in DOMAIN feedback : feedback[i].status = "new"})

(* The replacement and what is then left to triage: the feedback that the  *)
(* entries consumed and whose status read "new".                            *)
Replace(p) ==
  ReplaceAndMark(p, fresh[p] \cap UNION {entries[p][k].from : k \in DOMAIN entries[p]})

(* One SetFeedbackStatus of the triage loop; a failure is only logged. *)
Triage(p) ==
  /\ pc[p] = "triage"
  /\ \E i \in todo[p] :
       /\ feedback' = IF StoreOK(p) THEN [feedback EXCEPT ![i].status = "triaged"]
                                    ELSE feedback
       /\ todo' = [todo EXCEPT ![p] = @ \ {i}]
  /\ UNCHANGED <<backlog, nextItem, doc, guard, pc, cancelled, seen, fresh, prior, source,
                 entries, screen, bounds>>

(* writeBacklogDoc renders the entries built before the replacement; a      *)
(* failed write is only logged.                                             *)
WriteDoc(p) ==
  /\ pc[p] = "triage"
  /\ todo[p] = {}
  /\ \/ doc' = {[theme |-> entries[p][k].theme, status |-> entries[p][k].status] :
                  k \in DOMAIN entries[p]}
     \/ doc' = doc
  /\ Goto(p, "finish")
  /\ UNCHANGED <<feedback, backlog, nextItem, guard, cancelled, locals, screen, bounds>>

(* A failed list or replacement ends Regenerate with the error. *)
Fail(p) ==
  /\ pc[p] \in {"listFeedback", "listBacklog", "replace"}
  /\ ~StoreOK(p)
  /\ Goto(p, "failed")
  /\ UNCHANGED <<tables, guard, cancelled, locals, screen, bounds>>

(* Mutant of Finish: an abandoned request leaves the flag set. *)
FinishKeepsFlag(p) ==
  /\ pc[p] \in {"finish", "failed"}
  /\ regenRunning' = cancelled[p]
  /\ Goto(p, "idle")
  /\ UNCHANGED <<tables, lastRunErr, cancelled, locals, screen, bounds>>

(* The rest of regenerateGuarded.  A refresh renders the page or answers    *)
(* 500, which ends the request; the ticker waits for its next tick.         *)
Finish(p) ==
  /\ pc[p] \in {"finish", "failed"}
  /\ regenRunning' = FALSE
  /\ lastRunErr' = IF pc[p] = "failed" THEN "error" ELSE "ok"
  /\ Goto(p, IF p \in Operators /\ pc[p] = "finish" THEN "view" ELSE "idle")
  /\ cancelled' = [cancelled EXCEPT ![p] = @ /\ p \in Operators /\ pc[p] = "finish"]
  /\ seen'    = [seen EXCEPT ![p] = {}]
  /\ fresh'   = [fresh EXCEPT ![p] = {}]
  /\ prior'   = [prior EXCEPT ![p] = {}]
  /\ source'  = [source EXCEPT ![p] = "none"]
  /\ entries' = [entries EXCEPT ![p] = <<>>]
  /\ todo'    = [todo EXCEPT ![p] = {}]
  /\ UNCHANGED <<tables, screen, bounds>>

----------------------------------------------------------------------------
\* The page, the people, and the process

(* page, filter, and the last part of refresh and setStatus: ListBacklog,   *)
(* then the rows reach the browser unless it is gone.                       *)
View(o) ==
  /\ pc[o] \in {"idle", "view"}
  /\ screen' = [screen EXCEPT ![o] = IF cancelled[o] THEN @ ELSE {Show(b) : b \in backlog}]
  /\ cancelled' = [cancelled EXCEPT ![o] = FALSE]
  /\ Goto(o, "idle")
  /\ UNCHANGED <<tables, guard, locals, bounds>>

(* SetBacklogStatus: by id; no row with it is a 404. *)
SetBacklogStatus(id, status) ==
  /\ \E b \in backlog : b.id = id
  /\ backlog' = {IF b.id = id THEN [b EXCEPT !.status = status] ELSE b : b \in backlog}

(* setStatus: a click on a row of a page that may be out of date. *)
Click(o) ==
  /\ pc[o] = "idle"
  /\ \E row \in screen[o], status \in Choices : SetBacklogStatus(row.id, status)
  /\ Goto(o, "view")
  /\ UNCHANGED <<feedback, nextItem, doc, guard, cancelled, locals, screen, bounds>>

(* The client goes away and net/http cancels the request's context. *)
Disconnect(o) ==
  /\ pc[o] # "idle"
  /\ ~cancelled[o]
  /\ disconnects < MaxDisconnects
  /\ cancelled' = [cancelled EXCEPT ![o] = TRUE]
  /\ disconnects' = disconnects + 1
  /\ UNCHANGED <<tables, guard, pc, locals, screen, runs, crashes>>

(* CreateFeedback, from the widget or the mining of a conversation. *)
CreateFeedback(label) ==
  /\ Len(feedback) < MaxFeedback
  /\ feedback' = Append(feedback, [label |-> label, status |-> "new"])
  /\ UNCHANGED <<backlog, nextItem, doc, guard, pc, cancelled, locals, screen, bounds>>

(* The process dies and starts again: only files and browsers remember. *)
Crash ==
  /\ crashes < MaxCrashes
  /\ crashes' = crashes + 1
  /\ feedback' = IF Backend = "memory" THEN <<>> ELSE feedback
  /\ backlog'  = IF Backend = "memory" THEN {} ELSE backlog
  /\ nextItem' = IF Backend = "memory" THEN 1 ELSE nextItem
  /\ regenRunning' = FALSE /\ lastRunErr' = "none"
  /\ pc'        = [p \in Processes |-> "idle"]
  /\ cancelled' = [p \in Processes |-> FALSE]
  /\ seen'      = [p \in Processes |-> {}]
  /\ fresh'     = [p \in Processes |-> {}]
  /\ prior'     = [p \in Processes |-> {}]
  /\ source'    = [p \in Processes |-> "none"]
  /\ entries'   = [p \in Processes |-> <<>>]
  /\ todo'      = [p \in Processes |-> {}]
  /\ UNCHANGED <<doc, screen, runs, disconnects>>

----------------------------------------------------------------------------
\* Specification

(* What a process does once it is inside regenerateGuarded. *)
RunStep(p) ==
  \/ ListFeedback(p) \/ ListBacklog(p)
  \/ ClusterByModel(p) \/ ClusterMechanically(p)
  \/ Replace(p) \/ Triage(p) \/ WriteDoc(p)
  \/ Fail(p) \/ Finish(p)

Next ==
  \/ \E p \in Processes : Enter(p) \/ RunStep(p)
  \/ \E o \in Operators : Refused(o) \/ View(o) \/ Click(o) \/ Disconnect(o)
  \/ \E label \in Labels : CreateFeedback(label)
  \/ Crash

Spec == Init /\ [][Next]_vars

(* The goroutine of a run is scheduled, its store calls return and every    *)
(* model call has a timeout; the ticker ticks for ever.  People and clients *)
(* owe nothing.                                                             *)
Fairness ==
  /\ \A p \in Processes : WF_vars(RunStep(p))
  /\ WF_vars(Enter(Ticker))

FairSpec == Spec /\ Fairness

----------------------------------------------------------------------------
\* Properties

Inside(p) == pc[p] \notin {"idle", "view"}

TypeOK ==
  /\ feedback \in Seq(FeedbackRow) /\ Len(feedback) <= MaxFeedback
  /\ backlog \subseteq Item
  /\ nextItem \in Nat \ {0}
  /\ doc \subseteq [theme : Themes, status : Statuses]
  /\ regenRunning \in BOOLEAN /\ lastRunErr \in {"none", "ok", "error"}
  /\ pc \in [Processes -> {"idle", "view", "listFeedback", "listBacklog", "cluster",
                           "replace", "triage", "finish", "failed"}]
  /\ cancelled \in [Processes -> BOOLEAN]
  /\ seen \in [Processes -> SUBSET FeedbackIds]
  /\ fresh \in [Processes -> SUBSET FeedbackIds]
  /\ prior \in [Processes -> SUBSET Item]
  /\ source \in [Processes -> {"none", "llm", "mechanical"}]
  /\ entries \in [Processes -> Seq(Item)]
  /\ todo \in [Processes -> SUBSET FeedbackIds]
  /\ screen \in [Operators -> SUBSET Shown]
  /\ runs \in Nat /\ crashes \in Nat /\ disconnects \in Nat

(* "refusing to overlap a run already in flight": at most one process is in *)
(* Regenerate, and the flag says whether one is, so it is never left set.   *)
OneRegeneration ==
  /\ \A p, q \in Processes : Inside(p) /\ Inside(q) => p = q
  /\ regenRunning <=> \E p \in Processes : Inside(p)

(* A click is never taken for another item: an id names one theme for ever, *)
(* in the table, in what a run still holds and on every page, however old;  *)
(* and the table never has two rows of one theme.                           *)
Remembered ==
  {Show(b) : b \in backlog \cup UNION {prior[p] : p \in Processes}}
    \cup UNION {screen[o] : o \in Operators}
ItemIdentity ==
  /\ \A a, b \in Remembered : a.id = b.id => a.theme = b.theme
  /\ \A a, b \in backlog : a.theme = b.theme => a = b

(* "human decisions survive regeneration": while its theme stays on the     *)
(* backlog, only a person changes an item's status.                         *)
HumanDecisionsSurvive ==
  [][(\E a \in backlog, b \in backlog' : a.theme = b.theme /\ a.status # b.status)
       => \E o \in Operators : Click(o)]_vars

(* "only 'proposed' items are free to be replaced wholesale": a theme that  *)
(* was accepted, rejected or shipped stays on the backlog.                  *)
DecidedThemesStay ==
  [][\A a \in backlog : a.status # "proposed" => \E b \in backlog' : b.theme = a.theme]_vars

(* "the consumed feedback is marked triaged": feedback turns triaged only   *)
(* while an item that counts it is on the backlog, and never turns back.    *)
TriagedWasConsumed ==
  [][\A i \in DOMAIN feedback \cap DOMAIN feedback' : feedback'[i] # feedback[i] =>
       /\ feedback[i].status = "new" /\ feedback'[i].status = "triaged"
       /\ \E b \in backlog : i \in b.from]_feedback

(* A mechanical run whose client stayed has triaged all it listed.          *)
MechanicalRunTriagesAll ==
  \A p \in Processes :
    pc[p] = "finish" /\ source[p] = "mechanical" /\ StoreOK(p)
      => \A i \in seen[p] : feedback[i].status = "triaged"

(* A regeneration ends, so the next one is not refused for ever. *)
RegenerationEnds == regenRunning ~> ~regenRunning

(* Feedback on file when the next run may start is triaged in the end:      *)
(* neither a refused refresh nor an abandoned one makes the loop miss it.   *)
FeedbackIsTriaged ==
  \A i \in FeedbackIds :
    (i \in DOMAIN feedback /\ ~regenRunning /\ runs < MaxRuns)
      ~> (i \in DOMAIN feedback /\ feedback[i].status = "triaged")

(* SQLite's backlog keeps the promise BacklogBoard states. *)
Board == INSTANCE BacklogBoard WITH
  board  <- {[id |-> b.id, theme |-> b.theme, status |-> b.status] : b \in backlog},
  nextId <- nextItem
KeepsThePromise == Board!Spec
============================================================================

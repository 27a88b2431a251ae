---------------------------- MODULE MarketStore ----------------------------
(***************************************************************************)
(* The tables behind the marketplace (internal/store): offers with their   *)
(* full-text index, crews, static content and one profile's saved          *)
(* searches, in a SQLite file or in memory, and what the store's calls do  *)
(* to them.  StartUp, Pipeline and SavedSearches act on these tables;      *)
(* Market puts them together.                                               *)
(***************************************************************************)
EXTENDS Naturals, Sequences, FiniteSets

CONSTANTS
  Requests,   \* requests in progress at the same time
  Wrap,       \* 100000: an id is the time in seconds modulo Wrap
  SeedIds,    \* the ids of SeedOffers, in order
  DemoIds,    \* the ids of demo.Offers
  CrewIds,    \* the ids of demo.Crews
  Static,     \* the rows of perspectives, modules and roadmap
  OldQueries, \* what was saved before this release
  Statuses,   \* validStatus
  Queries,    \* what the visitor searches for
  Keep,       \* savedSearchCap, 50
  MaxNow,     \* bound: seconds that pass
  MaxWork,    \* bound: offers created, moves and searches saved
  MaxCrashes, \* bound: restarts
  MaxFaults   \* bound: failures of the disk

Ids == 0 .. Wrap - 1
Versions == 2 .. 6

Elems(s) == {s[i] : i \in DOMAIN s}
Distinct(s) == \A i, j \in DOMAIN s : s[i] = s[j] => i = j

ASSUME MarketAssumption ==
  /\ Wrap \in Nat \ {0} /\ Keep \in Nat \ {0}
  /\ SeedIds \in Seq(Ids) /\ DemoIds \in Seq(Ids) /\ OldQueries \in Seq(Queries)
  /\ CrewIds \in Seq(Elems(CrewIds)) /\ Static \in Seq(Elems(Static))
  /\ Distinct(SeedIds) /\ Distinct(OldQueries) /\ Queries # {}
  /\ Elems(CrewIds) \cap (Ids \cup Elems(Static)) = {} /\ Elems(Static) \cap Ids = {}
  /\ {"open", "process", "done"} \subseteq Statuses
  /\ MaxNow \in Nat /\ MaxWork \in Nat /\ MaxCrashes \in Nat /\ MaxFaults \in Nat

VARIABLES
  \* the tables
  disk,      \* the SQLite file
  tx,        \* the open transaction's view of it, or none
  mem,       \* the Memory store
  backend,   \* which of them the process uses
  \* starting up
  stage,     \* what start-up does next, or "serving"
  version,   \* the numbered migration it has come to
  todo,      \* what is left to insert
  demoOn,    \* MM_DEMO is not "off"
  \* serving
  req,       \* each request's next step and its local variables
  now,       \* the time in seconds
  \* history
  shown,     \* the cards that pages have shown
  moved,     \* the offers that were moved
  asked,     \* when each search was last saved in SQLite
  cut,       \* a save ended between its statements
  cause,     \* why SQLite is not used
  crashes, faults, work

tables  == <<disk, tx, mem, backend>>
boot    == <<stage, version, todo, demoOn>>
history == <<shown, moved, asked, cut>>
vars    == <<tables, boot, req, now, history, cause, crashes, faults, work>>

----------------------------------------------------------------------------
\* Offers

(* An offer itself, as people know it, whatever its id: where it comes     *)
(* from, and which one.                                                     *)
Names == [from : {"seed", "demo", "file", "form"}, nr : Nat]

Offer == [id : Ids, name : Names,
          title : {"english", "german", "own"},
          facets : {"absent", "default", "given", "derived", "unset"},
          status : Statuses, progress : {0, 50, 100}, signal : {"OK", "Attention", "Review"}]

(* A card: the id its buttons send, and the offer a person sees on it. *)
Card == [id : Ids, name : Names, store : {"sqlite", "memory"}]

SeedOffer(id) == [id |-> id, name |-> [from |-> "seed", nr |-> id], title |-> "german", facets |-> "given",
                  status |-> "process", progress |-> 50, signal |-> "Attention"]

DemoOffer(id) == [id |-> id, name |-> [from |-> "demo", nr |-> id], title |-> "german", facets |-> "given",
                  status |-> "open", progress |-> 0, signal |-> "OK"]

HasOffer(t, id) == \E i \in DOMAIN t.offers : t.offers[i].id = id

(* GetOffer: the row with this id, in Memory the first one. *)
RowOf(t, id) ==
  CHOOSE i \in DOMAIN t.offers :
    t.offers[i].id = id /\ \A j \in DOMAIN t.offers : t.offers[j].id = id => i <= j

(* The columns of an offer that offers_fts indexes. *)
Entry(o) == [id |-> o.id, title |-> o.title, facets |-> o.facets]
Entries(offers) == {Entry(offers[i]) : i \in DOMAIN offers}

(* CreateOffer; the trigger offers_fts_ai exists since migration 5. *)
Insert(t, o) ==
  [t EXCEPT !.offers = Append(t.offers, o),
            !.index = IF t.triggers THEN t.index \cup {Entry(o)} ELSE t.index]

(* Rows are updated in place; offers_fts_au takes the old entry of each    *)
(* updated row out of the index and puts the new one in.                    *)
Update(t, rows) ==
  LET changed == {i \in DOMAIN rows : rows[i] # t.offers[i]}
  IN [t EXCEPT !.offers = rows,
               !.index = IF t.triggers
                           THEN (t.index \ {Entry(t.offers[i]) : i \in changed})
                                  \cup {Entry(rows[i]) : i \in changed}
                           ELSE t.index]

(* The mutant of CanCreate whose ids are no primary key. *)
AnyId(t, id) == TRUE

(* CreateOffer succeeds unless the id is a primary key that is taken. *)
CanCreate(t, id) == backend = "memory" \/ ~HasOffer(t, id)

----------------------------------------------------------------------------
\* Saved searches

Saved == [query : Queries, id : Nat, at : Nat]

(* Newer as the capping DELETE and capSearches order them. *)
Newer(s, u) == s.at > u.at \/ (s.at = u.at /\ s.id > u.id)

NewestOf(rows, n) == {s \in rows : Cardinality({u \in rows : Newer(u, s)}) < n}

(* The mutant of NewestOf that forgets when a search was last saved. *)
LatestIds(rows, n) == {s \in rows : Cardinality({u \in rows : u.id > s.id}) < n}

(* INSERT ... ON CONFLICT(profile_id, query) DO UPDATE: a search that is   *)
(* there keeps its id and gets the new time.                                *)
Renew(t, q, time) ==
  IF \E s \in t.saved : s.query = q
    THEN [t EXCEPT !.saved = {IF s.query = q THEN [s EXCEPT !.at = time] ELSE s : s \in t.saved}]
    ELSE [t EXCEPT !.saved = t.saved \cup {[query |-> q, id |-> t.nextId, at |-> time]},
                   !.nextId = t.nextId + 1]

----------------------------------------------------------------------------
\* Requests

NoCard == [id |-> 0, name |-> [from |-> "form", nr |-> 0], store |-> "memory"]

(* No request, and what a request's local variables are before it sets them. *)
Idle == [pc |-> "idle", copy |-> DemoOffer(0), card |-> NoCard, status |-> "open",
         query |-> CHOOSE q \in Queries : TRUE, at |-> 0]

Request == [pc : {"idle", "update", "page", "upsert", "find", "trim"}, copy : Offer, card : Card,
            status : Statuses, query : Queries, at : 0 .. MaxNow]

Returns(r) == req' = [req EXCEPT ![r] = Idle]
Continues(r, step) == req' = [req EXCEPT ![r].pc = step]

(* A save is between its statements. *)
Saving(r) == req[r].pc \in {"find", "trim"}

----------------------------------------------------------------------------
\* Stores

Tables == [columns : BOOLEAN, recorded : SUBSET Versions, offers : Seq(Offer),
           triggers : BOOLEAN, index : SUBSET [id : Ids, title : {"english", "german", "own"},
             facets : {"absent", "default", "given", "derived", "unset"}],
           unique : BOOLEAN, saved : SUBSET Saved, nextId : Nat,
           crews : [Elems(CrewIds) -> {"none", "seed", "edited"}],
           static : SUBSET Elems(Static)]

(* A file that does not exist yet, after schema.sql. *)
NewFile == [columns |-> FALSE, recorded |-> {}, offers |-> <<>>,
            triggers |-> FALSE, index |-> {}, unique |-> FALSE, saved |-> {}, nextId |-> 1,
            crews |-> [c \in Elems(CrewIds) |-> "none"], static |-> {}]

NoTransaction == NewFile

(* NewMemory *)
NewMemory == [NewFile EXCEPT !.offers = [i \in DOMAIN SeedIds |-> SeedOffer(SeedIds[i])],
                             !.static = Elems(Static)]

db == IF backend = "sqlite" THEN disk ELSE mem

(* The one call of the store in a step leaves it as t. *)
Write(t) == /\ IF backend = "sqlite" THEN disk' = t /\ UNCHANGED mem
                                     ELSE mem' = t /\ UNCHANGED disk
            /\ UNCHANGED <<tx, backend>>
=============================================================================

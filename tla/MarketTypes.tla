----------------------------- MODULE MarketTypes -----------------------------
(***************************************************************************)
(* What the operators of the marketplace return, and that it keeps its     *)
(* types from any file an older release left behind, through migrations,   *)
(* seeding, serving, failures and restarts.                                 *)
(***************************************************************************)
EXTENDS Market, SequenceTheorems, WellFoundedInduction, TLAPS

----------------------------------------------------------------------------
\* Offers

(* Seeds are offers. *)
LEMMA SeedsType ==
  ASSUME NEW id \in Ids
  PROVE  SeedOffer(id) \in Offer /\ DemoOffer(id) \in Offer
BY MarketAssumption DEF SeedOffer, DemoOffer, Offer, Names, Ids

(* The elements of a sequence over a set are in it. *)
LEMMA ElemsType ==
  ASSUME NEW S, NEW s \in Seq(S)
  PROVE  Elems(s) \subseteq S /\ \A i \in DOMAIN s : s[i] \in Elems(s)
BY DEF Elems

(* No tables have the types of tables; nor has the store in memory others. *)
LEMMA NewTables ==
  /\ NewFile \in Tables /\ NoTransaction \in Tables /\ NewMemory \in Tables
  /\ NewFile.offers = <<>> /\ NoTransaction.offers = <<>>
  /\ NewMemory.offers = [i \in DOMAIN SeedIds |-> SeedOffer(SeedIds[i])]
<1>1. NewFile \in Tables
  BY DEF NewFile, Tables
<1>2. [i \in DOMAIN SeedIds |-> SeedOffer(SeedIds[i])] \in Seq(Offer)
  <2>1. \A i \in DOMAIN SeedIds : SeedOffer(SeedIds[i]) \in Offer
    BY SeedsType, MarketAssumption
  <2>2. DOMAIN SeedIds = 1 .. Len(SeedIds) /\ Len(SeedIds) \in Nat
    BY MarketAssumption
  <2> QED
    BY <2>1, <2>2
<1>3. NewMemory \in Tables
  BY <1>1, <1>2 DEF NewMemory, Tables
<1> QED
  BY <1>1, <1>3 DEF NoTransaction, NewFile, NewMemory

(* A set of numbers has a least one. *)
LEMMA LeastNumber ==
  ASSUME NEW S \in SUBSET Nat, S # {}
  PROVE  \E i \in S : \A j \in S : i <= j
<1> DEFINE less == {p \in Nat \X Nat : p[1] < p[2]}
<1>1. IsWellFoundedOn(less, Nat)
  BY NatLessThanWellFounded DEF OpToRel
<1>2. PICK i \in S : \A j \in S : ~(<<j, i>> \in less)
  BY <1>1, WFMin
<1>3. ASSUME NEW j \in S PROVE i <= j
  <2>1. i \in Nat /\ j \in Nat
    OBVIOUS
  <2>2. <<j, i>> \in Nat \X Nat /\ <<j, i>>[1] = j /\ <<j, i>>[2] = i
    BY <2>1
  <2>3. ~(j < i)
    BY <1>2, <2>2
  <2> QED
    BY <2>1, <2>3
<1> QED
  BY <1>3

(* The row an id stands for is the first with the id. *)
LEMMA RowOfHas ==
  ASSUME NEW t \in Tables, NEW id, HasOffer(t, id)
  PROVE  RowOf(t, id) \in DOMAIN t.offers /\ t.offers[RowOf(t, id)].id = id
<1> DEFINE rows == {i \in DOMAIN t.offers : t.offers[i].id = id}
<1>1. rows \in SUBSET Nat /\ rows # {}
  BY DEF HasOffer, Tables
<1>2. \E i \in rows : \A j \in rows : i <= j
  BY <1>1, LeastNumber
<1>3. \E i \in DOMAIN t.offers :
        t.offers[i].id = id /\ \A j \in DOMAIN t.offers : t.offers[j].id = id => i <= j
  BY <1>2
<1> QED
  BY <1>3 DEF RowOf

(* What the full-text index holds. *)
Indexed == [id : Ids, title : {"english", "german", "own"},
            facets : {"absent", "default", "given", "derived", "unset"}]

(* CreateOffer adds one row. *)
LEMMA InsertType ==
  ASSUME NEW t \in Tables, NEW o \in Offer
  PROVE  /\ Insert(t, o) \in Tables /\ Insert(t, o).offers = Append(t.offers, o)
         /\ Insert(t, o) = [t EXCEPT !.offers = Insert(t, o).offers, !.index = Insert(t, o).index]
<1>1. Append(t.offers, o) \in Seq(Offer)
  BY AppendProperties DEF Tables
<1>2. Entry(o) \in Indexed
  BY DEF Entry, Offer, Indexed
<1> QED
  BY <1>1, <1>2 DEF Insert, Tables, Indexed

(* Rows are written in place. *)
LEMMA UpdateType ==
  ASSUME NEW t \in Tables, NEW rows \in [DOMAIN t.offers -> Offer]
  PROVE  /\ Update(t, rows) \in Tables /\ Update(t, rows).offers = rows
         /\ rows \in Seq(Offer)
<1>1. DOMAIN t.offers = 1 .. Len(t.offers) /\ Len(t.offers) \in Nat
  BY DEF Tables
<1>2. rows \in Seq(Offer)
  BY <1>1
<1>3. \A i \in DOMAIN rows : Entry(rows[i]) \in Indexed
  BY DEF Entry, Offer, Indexed
<1> DEFINE changed == {i \in DOMAIN rows : rows[i] # t.offers[i]}
           index == IF t.triggers
                      THEN (t.index \ {Entry(t.offers[i]) : i \in changed}) \cup {Entry(rows[i]) : i \in changed}
                      ELSE t.index
<1>4. t.index \in SUBSET Indexed
  BY DEF Tables, Indexed
<1>5. index \in SUBSET Indexed
  BY <1>3, <1>4
<1>6. Update(t, rows) = [t EXCEPT !.offers = rows, !.index = index]
  BY DEF Update
<1> HIDE DEF index
<1>7. Update(t, rows) \in Tables /\ Update(t, rows).offers = rows
  BY <1>2, <1>5, <1>6 DEF Tables, Indexed
<1> QED
  BY <1>2, <1>7

----------------------------------------------------------------------------
\* Saved searches, the demo market and migrations

(* Saving and capping leave the offers alone. *)
LEMMA RenewType ==
  ASSUME NEW t \in Tables, NEW q \in Queries, NEW time \in Nat
  PROVE  Renew(t, q, time) \in Tables /\ Renew(t, q, time).offers = t.offers
<1>1. /\ t.saved \in SUBSET Saved /\ t.nextId \in Nat
  BY DEF Tables
<1>2. {IF s.query = q THEN [s EXCEPT !.at = time] ELSE s : s \in t.saved} \subseteq Saved
  BY <1>1 DEF Saved
<1>3. [query |-> q, id |-> t.nextId, at |-> time] \in Saved
  BY <1>1 DEF Saved
<1> DEFINE renewed == {IF s.query = q THEN [s EXCEPT !.at = time] ELSE s : s \in t.saved}
           added == t.saved \cup {[query |-> q, id |-> t.nextId, at |-> time]}
<1>4. \/ Renew(t, q, time) = [t EXCEPT !.saved = renewed]
      \/ Renew(t, q, time) = [t EXCEPT !.saved = added, !.nextId = t.nextId + 1]
  BY DEF Renew
<1>5. renewed \in SUBSET Saved /\ added \in SUBSET Saved /\ t.nextId + 1 \in Nat
  BY <1>1, <1>2, <1>3
<1> HIDE DEF renewed, added
<1>6. ASSUME Renew(t, q, time) = [t EXCEPT !.saved = renewed]
      PROVE  Renew(t, q, time) \in Tables /\ Renew(t, q, time).offers = t.offers
  BY <1>5, <1>6 DEF Tables
<1>7. ASSUME Renew(t, q, time) = [t EXCEPT !.saved = added, !.nextId = t.nextId + 1]
      PROVE  Renew(t, q, time) \in Tables /\ Renew(t, q, time).offers = t.offers
  <2> DEFINE next == t.nextId + 1
  <2>1. next \in Nat /\ Renew(t, q, time) = [t EXCEPT !.saved = added, !.nextId = next]
    BY <1>5, <1>7
  <2> HIDE DEF next
  <2> QED
    BY <1>5, <2>1 DEF Tables
<1> QED
  BY <1>4, <1>6, <1>7

(* So does dropping searches. *)
LEMMA CappedType ==
  ASSUME NEW t \in Tables
  PROVE  /\ [t EXCEPT !.saved = Kept(t.saved)] \in Tables
         /\ [t EXCEPT !.saved = Kept(t.saved)].offers = t.offers
         /\ Kept(t.saved) \subseteq t.saved
<1>1. Kept(t.saved) \subseteq t.saved
  BY DEF Kept, NewestOf
<1> QED
  BY <1>1 DEF Tables

(* One turn of the demo market's loops writes tables. *)
LEMMA WithDemoType ==
  ASSUME NEW t \in Tables, NEW x \in Elems(DemoIds) \cup Elems(CrewIds)
  PROVE  /\ WithDemo(t, x) \in Tables
         /\ \/ WithDemo(t, x).offers = t.offers
            \/ /\ x \in Elems(DemoIds) /\ ~HasOffer(t, x) /\ WithDemo(t, x) = Insert(t, DemoOffer(x))
<1>1. CASE x \in Elems(DemoIds)
  <2>1. DemoOffer(x) \in Offer
    BY <1>1, ElemsType, SeedsType, MarketAssumption
  <2> QED
    BY <1>1, <2>1, InsertType DEF WithDemo
<1>2. CASE x \notin Elems(DemoIds)
  <2>1. x \in Elems(CrewIds) /\ t.crews[x] \in {"none", "seed", "edited"}
    BY <1>2 DEF Tables
  <2> DEFINE crew == IF t.crews[x] = "none" THEN "seed" ELSE Merged(t.crews[x], "seed")
  <2>2. crew \in {"none", "seed", "edited"}
    BY <2>1 DEF Merged
  <2>3. WithDemo(t, x) = [t EXCEPT !.crews[x] = crew]
    BY <1>2 DEF WithDemo
  <2> HIDE DEF crew
  <2>4. [t.crews EXCEPT ![x] = crew] \in [Elems(CrewIds) -> {"none", "seed", "edited"}]
    BY <2>1, <2>2 DEF Tables
  <2>5. WithDemo(t, x) = [t EXCEPT !.crews = [t.crews EXCEPT ![x] = crew]]
    BY <2>3
  <2> QED
    BY <2>4, <2>5 DEF Tables
<1> QED
  BY <1>1, <1>2

(* A migration rewrites tables, row by row. *)
LEMMA EffectType ==
  ASSUME NEW v \in Versions, NEW t \in Tables
  PROVE  Effect(v, t) \in Tables /\ DOMAIN Effect(v, t).offers = DOMAIN t.offers
<1>1. \A i \in DOMAIN t.offers : t.offers[i] \in Offer
  BY DEF Tables
<1>2. DOMAIN t.offers = 1 .. Len(t.offers) /\ Len(t.offers) \in Nat
  BY DEF Tables
<1>3. v \in {2, 3, 4, 5, 6}
  BY DEF Versions
<1>4. CASE v = 2
  <2> DEFINE rows == [i \in DOMAIN t.offers |-> [t.offers[i] EXCEPT !.facets = "default"]]
  <2>1. \A i \in DOMAIN t.offers : [t.offers[i] EXCEPT !.facets = "default"] \in Offer
    BY <1>1 DEF Offer
  <2>2. rows \in Seq(Offer) /\ DOMAIN rows = DOMAIN t.offers
    BY <1>2, <2>1
  <2>3. Effect(v, t) = [t EXCEPT !.columns = TRUE, !.offers = rows]
    BY <1>4 DEF Effect
  <2> HIDE DEF rows
  <2> QED
    BY <2>2, <2>3 DEF Tables
<1>5. CASE v = 3
  <2> DEFINE rows == [i \in DOMAIN t.offers |-> Backfilled(t.offers[i])]
  <2>1. \A i \in DOMAIN t.offers : Backfilled(t.offers[i]) \in Offer
    BY <1>1 DEF Offer, Backfilled
  <2>2. rows \in [DOMAIN t.offers -> Offer]
    BY <2>1
  <2>3. Effect(v, t) = Update(t, rows)
    BY <1>5 DEF Effect
  <2> HIDE DEF rows
  <2> QED
    BY <2>2, <2>3, UpdateType
<1>6. CASE v = 4
  <2>1. Effect(v, t) = [t EXCEPT !.saved = Deduped(t.saved), !.unique = TRUE]
    BY <1>6 DEF Effect
  <2>2. Deduped(t.saved) \subseteq t.saved
    BY DEF Deduped
  <2> QED
    BY <2>1, <2>2 DEF Tables
<1>7. CASE v = 5
  <2>1. Effect(v, t) = [t EXCEPT !.triggers = TRUE, !.index = Entries(t.offers)]
    BY <1>7 DEF Effect, Rebuilt
  <2>2. Entries(t.offers) \in SUBSET Indexed
    BY <1>1 DEF Entries, Entry, Offer, Indexed
  <2> QED
    BY <2>1, <2>2 DEF Tables, Indexed
<1>8. CASE v = 6
  <2> DEFINE rows == [i \in DOMAIN t.offers |-> Germanised(t.offers[i])]
  <2>1. \A i \in DOMAIN t.offers : Germanised(t.offers[i]) \in Offer
    BY <1>1 DEF Offer, Germanised
  <2>2. rows \in [DOMAIN t.offers -> Offer]
    BY <2>1
  <2>3. Effect(v, t) = Update(t, rows)
    BY <1>8 DEF Effect
  <2> HIDE DEF rows
  <2> QED
    BY <2>2, <2>3, UpdateType
<1> QED
  BY <1>3, <1>4, <1>5, <1>6, <1>7, <1>8

(* Recording a migration changes nothing else. *)
LEMMA RecordedType ==
  ASSUME NEW v \in Versions, NEW t \in Tables
  PROVE  /\ Recorded(v, t) \in Tables /\ Recorded(v, t).recorded = t.recorded \cup {v}
         /\ Recorded(v, t).offers = t.offers /\ Recorded(v, t).columns = t.columns
         /\ Recorded(v, t).triggers = t.triggers /\ Recorded(v, t).index = t.index
         /\ Recorded(v, t).unique = t.unique /\ Recorded(v, t).saved = t.saved
BY DEF Recorded, Tables

(* The files of older releases have the types of files. *)
LEMMA FilesType == Files \subseteq Tables
<1>1. ASSUME NEW k \in 1 .. 6, NEW id \in FreeIds, NEW title \in {"english", "german", "own"}
      PROVE  OldFile(k, id, title) \in Tables
  <2> DEFINE facets(new) == IF k < 2 THEN "absent" ELSE IF k = 2 THEN "default" ELSE new
             seeds == [i \in DOMAIN SeedIds |->
                         [SeedOffer(SeedIds[i]) EXCEPT !.title = title, !.facets = facets("given")]]
             created == [id |-> id, name |-> [from |-> "file", nr |-> 0], title |-> "own",
                         facets |-> facets("derived"), status |-> "done", progress |-> 100, signal |-> "Review"]
             n == Len(OldQueries)
             copies == IF k < 4 THEN {0, 1} ELSE {0}
             saved == {[query |-> OldQueries[i], id |-> i + m * n, at |-> 0] : i \in 1 .. n, m \in copies}
             crews == [c \in Elems(CrewIds) |-> IF title = "own" THEN "edited" ELSE "none"]
  <2>1. DOMAIN SeedIds = 1 .. Len(SeedIds) /\ Len(SeedIds) \in Nat /\ n \in Nat
    BY MarketAssumption
  <2>2. \A i \in DOMAIN SeedIds : seeds[i] \in Offer
    <3>1. \A i \in DOMAIN SeedIds : SeedOffer(SeedIds[i]) \in Offer
      BY SeedsType, MarketAssumption
    <3>2. facets("given") \in {"absent", "default", "given"}
      OBVIOUS
    <3> HIDE DEF facets
    <3>3. \A o \in Offer : [o EXCEPT !.title = title, !.facets = facets("given")] \in Offer
      BY <3>2 DEF Offer
    <3> QED
      BY <3>1, <3>3
  <2>3. seeds \in Seq(Offer)
    <3>1. seeds = [i \in 1 .. Len(SeedIds) |-> seeds[i]]
      BY <2>1
    <3> HIDE DEF seeds
    <3> QED
      BY <2>1, <2>2, <3>1
  <2>4. created \in Offer
    BY MarketAssumption DEF Offer, Names, FreeIds
  <2>5. Append(seeds, created) \in Seq(Offer)
    <3> HIDE DEF seeds, created
    <3> QED
      BY <2>3, <2>4, AppendProperties
  <2>6. Entries(Append(seeds, created)) \in SUBSET Indexed
    <3> DEFINE rows == Append(seeds, created)
    <3>1. rows \in Seq(Offer)
      BY <2>5
    <3> HIDE DEF rows
    <3>2. \A i \in DOMAIN rows : rows[i] \in Offer
      BY <3>1
    <3>3. Entries(rows) \in SUBSET Indexed
      BY <3>2 DEF Entries, Entry, Offer, Indexed
    <3> QED
      BY <3>3 DEF rows
  <2>7. saved \in SUBSET Saved
    <3>1. \A i \in 1 .. n, m \in copies : i + m * n \in Nat
      BY <2>1
    <3>2. \A i \in 1 .. n : OldQueries[i] \in Queries
      BY MarketAssumption
    <3> QED
      BY <3>1, <3>2 DEF Saved
  <2>8. crews \in [Elems(CrewIds) -> {"none", "seed", "edited"}]
    OBVIOUS
  <2>9. OldFile(k, id, title) =
          [columns |-> k >= 2, recorded |-> 2 .. k, offers |-> Append(seeds, created),
           triggers |-> k >= 5, index |-> IF k >= 5 THEN Entries(Append(seeds, created)) ELSE {},
           unique |-> k >= 4, saved |-> saved, nextId |-> 2 * n + 1, crews |-> crews,
           static |-> Elems(Static)]
    BY DEF OldFile
  <2>10. 2 .. k \subseteq Versions /\ 2 * n + 1 \in Nat
    BY <2>1 DEF Versions
  <2> HIDE DEF seeds, created, n, saved, crews
  <2> QED
    BY <2>5, <2>6, <2>7, <2>8, <2>9, <2>10 DEF Tables, Indexed
<1> QED
  BY <1>1, NewTables DEF Files

----------------------------------------------------------------------------
\* Every step keeps types

TodoItems == Ids \cup Elems(CrewIds) \cup Elems(Static)

(* What is left to insert, by what is being inserted, and the migrations   *)
(* there are.                                                               *)
TypeInv ==
  /\ TypeOK /\ work \in Nat
  /\ stage \in {"apply", "commit"} => version \in Versions
  /\ stage = "seed" => todo \in Seq(Elems(SeedIds) \cup Elems(Static))
  /\ stage = "market" => todo \in Seq(Elems(DemoIds) \cup Elems(CrewIds))

(* An idle request has a request's types. *)
LEMMA IdleRequest == Idle \in Request
<1>1. 0 \in Ids
  BY MarketAssumption DEF Ids
<1>2. DemoOffer(0) \in Offer
  BY <1>1, SeedsType
<1>3. NoCard \in Card
  BY <1>1 DEF NoCard, Card, Names
<1>4. (CHOOSE q \in Queries : TRUE) \in Queries
  BY MarketAssumption
<1>5. "open" \in Statuses /\ 0 \in 0 .. MaxNow
  BY MarketAssumption
<1> QED
  BY <1>2, <1>3, <1>4, <1>5 DEF Idle, Request

(* The first start has types. *)
LEMMA TypeInit == Init => TypeInv
<1> SUFFICES ASSUME Init PROVE TypeInv
  OBVIOUS
<1>1. disk \in Tables /\ tx \in Tables /\ mem \in Tables
  BY FilesType, NewTables DEF Init
<1>2. req \in [Requests -> Request]
  BY IdleRequest DEF Init
<1>3. todo \in Seq(Ids \cup Elems(CrewIds) \cup Elems(Static)) /\ asked \in [Queries -> 0 .. MaxNow]
  BY MarketAssumption DEF Init
<1>4. demoOn \in BOOLEAN /\ cut \in BOOLEAN /\ shown \subseteq Card
  BY Zenon DEF Init
<1>5. now \in 0 .. MaxNow /\ version \in 2 .. 7 /\ work \in Nat
  BY MarketAssumption DEF Init
<1> QED
  BY <1>1, <1>2, <1>3, <1>4, <1>5 DEF Init, TypeInv, TypeOK

(* A call of the store that leaves tables keeps the stores' types. *)
LEMMA WriteType ==
  ASSUME TypeOK, NEW t \in Tables, Write(t)
  PROVE  /\ disk' \in Tables /\ mem' \in Tables /\ tx' \in Tables /\ UNCHANGED <<tx, backend>>
         /\ db' = t /\ (backend = "sqlite" => disk' = t /\ UNCHANGED mem)
         /\ (backend = "memory" => mem' = t /\ UNCHANGED disk)
BY DEF TypeOK, Write, db

(* So have the tables in use. *)
LEMMA DbType == ASSUME TypeOK PROVE db \in Tables
BY DEF TypeOK, db

(* What start-up leaves to insert. *)
LEMMA TodoType ==
  /\ \A S \in SUBSET TodoItems : \A s \in Seq(S) : s \in Seq(TodoItems)
  /\ Elems(SeedIds) \cup Elems(Static) \in SUBSET TodoItems
  /\ Elems(DemoIds) \cup Elems(CrewIds) \in SUBSET TodoItems
<1>1. Elems(SeedIds) \subseteq Ids /\ Elems(DemoIds) \subseteq Ids
  BY ElemsType, MarketAssumption
<1>2. ASSUME NEW S \in SUBSET TodoItems, NEW s \in Seq(S) PROVE s \in Seq(TodoItems)
  OBVIOUS
<1> QED
  BY <1>1, <1>2 DEF TodoItems

(* Opening the store. *)
LEMMA BootTypes ==
  ASSUME TypeInv, Open \/ OpenFails \/ Check \/ Apply \/ Commit
  PROVE  TypeInv'
<1> USE DEF TypeInv
<1>1. UNCHANGED <<req, now, shown, moved, asked, cut, work>>
  BY DEF Open, OpenFails, Check, Apply, Commit, outside, history
<1>2. todo' = todo \/ todo' = <<>>
  BY DEF Open, OpenFails, Check, Apply, Commit, FallBack
<1>3. todo' \in Seq(TodoItems) /\ demoOn' = demoOn
  <2>1. todo \in Seq(TodoItems) /\ <<>> \in Seq(TodoItems)
    BY DEF TypeOK, TodoItems
  <2>2. demoOn' = demoOn
    BY DEF Open, OpenFails, Check, Apply, Commit, FallBack
  <2> QED
    BY <1>2, <2>1, <2>2
<1>4. ASSUME NEW why \in {"io", "schema"}, FallBack(why)
      PROVE  /\ disk' \in Tables /\ tx' \in Tables /\ mem' \in Tables /\ backend' = "memory"
             /\ cause' \in {"io", "schema"} /\ stage' = "demo" /\ version' = version
  BY <1>4, NewTables DEF FallBack, TypeOK
<1>5. CASE Open
  BY <1>1, <1>3, <1>5 DEF Open, TypeOK, TodoItems
<1>6. CASE OpenFails
  BY <1>1, <1>3, <1>4, <1>6 DEF OpenFails, TypeOK, TodoItems
<1>7. CASE Check
  <2>1. /\ tx' \in Tables /\ version' \in 2 .. 7 /\ stage' \in {"check", "apply", "count"}
        /\ stage' = "apply" => version' \in Versions
    <3>1. version \in 2 .. 7 /\ disk \in Tables /\ tx \in Tables
      BY DEF TypeOK
    <3>2. CASE version > 6
      BY <1>7, <3>1, <3>2 DEF Check, Tables, Versions
    <3>3. CASE version <= 6 /\ version \in disk.recorded
      BY <1>7, <3>1, <3>3 DEF Check
    <3>4. CASE version <= 6 /\ version \notin disk.recorded
      BY <1>7, <3>1, <3>4 DEF Check, Versions
    <3> QED
      BY <3>1, <3>2, <3>3, <3>4
  <2> QED
    BY <1>1, <1>3, <1>7, <2>1 DEF Check, TypeOK, TodoItems
<1>8. CASE Apply
  <2>1. CASE Applicable(version, tx)
    <3>1. tx' = Recorded(version, Effect(version, tx)) /\ version \in Versions
      BY <1>8, <2>1 DEF Apply
    <3>2. tx' \in Tables
      BY <3>1, EffectType, RecordedType DEF TypeOK
    <3> QED
      BY <1>1, <1>3, <1>8, <2>1, <3>1, <3>2 DEF Apply, TypeOK, TodoItems
  <2>2. CASE ~Applicable(version, tx)
    BY <1>1, <1>3, <1>4, <1>8, <2>2 DEF Apply, TypeOK, TodoItems
  <2> QED
    BY <2>1, <2>2
<1>9. CASE Commit
  <2>1. version \in 2 .. 6
    BY <1>9 DEF Commit, Versions
  <2> QED
    BY <1>1, <1>3, <1>9, <2>1, NewTables DEF Commit, TypeOK, TodoItems
<1> QED
  BY <1>5, <1>6, <1>7, <1>8, <1>9

(* Filling what is empty, and the demo market. *)
LEMMA SeedingTypes ==
  ASSUME TypeInv, Count \/ Seed \/ Demo \/ Market \/ MarketFails
  PROVE  TypeInv'
<1> USE DEF TypeInv
<1>1. UNCHANGED <<req, now, shown, moved, asked, cut, work>> /\ UNCHANGED <<version, cause>>
  BY DEF Count, Seed, Demo, Market, MarketFails, outside, history
<1>2. CASE Count
  <2>1. SeedIds \in Seq(Elems(SeedIds) \cup Elems(Static)) /\ Static \in Seq(Elems(SeedIds) \cup Elems(Static))
    BY ElemsType, MarketAssumption
  <2>2. todo' \in Seq(Elems(SeedIds) \cup Elems(Static))
    <3> DEFINE S == Elems(SeedIds) \cup Elems(Static)
               a == IF disk.offers = <<>> THEN SeedIds ELSE <<>>
               b == IF disk.static = {} THEN Static ELSE <<>>
    <3>1. a \in Seq(S) /\ b \in Seq(S)
      BY <2>1
    <3>2. todo' = a \o b
      BY <1>2 DEF Count
    <3> HIDE DEF S, a, b
    <3>3. a \o b \in Seq(S)
      BY <3>1, ConcatProperties
    <3> QED
      BY <3>2, <3>3 DEF S
  <2> QED
    BY <1>1, <1>2, <2>2, TodoType DEF Count, TypeOK, TodoItems, tables
<1>3. CASE Seed
  <2>1. CASE todo = <<>>
    BY <1>1, <1>3, <2>1 DEF Seed, TypeOK
  <2>2. CASE todo # <<>>
    <3>1. /\ todo \in Seq(Elems(SeedIds) \cup Elems(Static)) /\ stage' = "seed" /\ todo' = Tail(todo)
          /\ disk' = IF Head(todo) \in Elems(SeedIds) THEN Insert(disk, SeedOffer(Head(todo)))
                     ELSE [disk EXCEPT !.static = disk.static \cup {Head(todo)}]
          /\ UNCHANGED <<tx, mem, backend, demoOn>>
      BY <1>3, <2>2 DEF Seed
    <3>2. Head(todo) \in Elems(SeedIds) \cup Elems(Static) /\ todo' \in Seq(Elems(SeedIds) \cup Elems(Static))
      BY <2>2, <3>1, HeadTailProperties
    <3>3. disk \in Tables
      BY DEF TypeOK
    <3>4. CASE Head(todo) \in Elems(SeedIds)
      <4>1. SeedOffer(Head(todo)) \in Offer
        BY <3>4, ElemsType, SeedsType, MarketAssumption
      <4> QED
        BY <3>1, <3>2, <3>3, <3>4, <4>1, <1>1, InsertType, TodoType DEF TypeOK, TodoItems
    <3>5. CASE Head(todo) \notin Elems(SeedIds)
      <4>1. disk.static \cup {Head(todo)} \in SUBSET Elems(Static)
        BY <3>2, <3>3, <3>5 DEF Tables
      <4>2. [disk EXCEPT !.static = disk.static \cup {Head(todo)}] \in Tables
        BY <3>3, <4>1 DEF Tables
      <4> QED
        BY <3>1, <3>2, <3>5, <4>2, <1>1, TodoType DEF TypeOK, TodoItems
    <3> QED
      BY <3>4, <3>5
  <2> QED
    BY <2>1, <2>2
<1>4. CASE Demo
  <2>1. DemoIds \o CrewIds \in Seq(Elems(DemoIds) \cup Elems(CrewIds))
    <3>1. DemoIds \in Seq(Elems(DemoIds) \cup Elems(CrewIds)) /\ CrewIds \in Seq(Elems(DemoIds) \cup Elems(CrewIds))
      BY ElemsType, MarketAssumption
    <3> QED
      BY <3>1, ConcatProperties
  <2>2. todo' \in Seq(Elems(DemoIds) \cup Elems(CrewIds)) /\ stage' = "market" /\ demoOn' \in BOOLEAN
    BY <1>4, <2>1 DEF Demo
  <2> QED
    BY <1>1, <1>4, <2>2, TodoType DEF Demo, TypeOK, TodoItems, tables
<1>5. CASE Market
  <2>1. CASE todo = <<>>
    BY <1>1, <1>5, <2>1 DEF Market, TypeOK, tables
  <2>2. CASE todo # <<>>
    <3>1. /\ todo \in Seq(Elems(DemoIds) \cup Elems(CrewIds)) /\ stage' = "market" /\ todo' = Tail(todo)
          /\ Write(WithDemo(db, Head(todo))) /\ demoOn' = demoOn
      BY <1>5, <2>2 DEF Market
    <3>2. Head(todo) \in Elems(DemoIds) \cup Elems(CrewIds) /\ todo' \in Seq(Elems(DemoIds) \cup Elems(CrewIds))
      BY <2>2, <3>1, HeadTailProperties
    <3>3. WithDemo(db, Head(todo)) \in Tables
      BY <3>2, DbType, WithDemoType
    <3> QED
      BY <1>1, <3>1, <3>2, <3>3, WriteType, TodoType DEF TypeOK, TodoItems
  <2> QED
    BY <2>1, <2>2
<1>6. CASE MarketFails
  BY <1>1, <1>6 DEF MarketFails, TypeOK, tables
<1> QED
  BY <1>2, <1>3, <1>4, <1>5, <1>6

(* The process dies, or time passes. *)
LEMMA CrashTypes ==
  ASSUME TypeInv, Crash \/ Tick
  PROVE  TypeInv'
<1> USE DEF TypeInv
<1>1. CASE Crash
  <2>1. /\ tx' \in Tables /\ mem' \in Tables /\ req' \in [Requests -> Request]
    BY <1>1, NewTables, IdleRequest DEF Crash
  <2>2. cut' \in BOOLEAN
    BY <1>1, Zenon DEF Crash, TypeOK
  <2>3. todo' \in Seq(TodoItems)
    BY <1>1 DEF Crash
  <2> QED
    BY <1>1, <2>1, <2>2, <2>3 DEF Crash, TypeOK, TodoItems
<1>2. CASE Tick
  <2>1. now' \in 0 .. MaxNow
    BY <1>2, MarketAssumption DEF Tick, TypeOK
  <2> QED
    BY <1>2, <2>1 DEF Tick, TypeOK, tables, boot, history
<1> QED
  BY <1>1, <1>2

(* A request's own step. *)
LEMMA RequestTypes ==
  ASSUME TypeOK, NEW r \in Requests
  PROVE  /\ Returns(r) => req' \in [Requests -> Request]
         /\ \A step \in {"page", "find", "trim"} : Continues(r, step) => req' \in [Requests -> Request]
         /\ req[r] \in Request
<1>1. req \in [Requests -> Request] /\ req[r] \in Request
  BY DEF TypeOK
<1>2. ASSUME NEW step \in {"page", "find", "trim"} PROVE [req[r] EXCEPT !.pc = step] \in Request
  BY <1>1 DEF Request
<1>3. ASSUME NEW step \in {"page", "find", "trim"}, Continues(r, step) PROVE req' \in [Requests -> Request]
  <2>1. req' = [req EXCEPT ![r] = [req[r] EXCEPT !.pc = step]]
    BY <1>3 DEF Continues
  <2> QED
    BY <1>1, <1>2, <2>1
<1> QED
  BY <1>1, <1>3, IdleRequest DEF Returns

(* What the form makes is an offer; so is what a move makes of one. *)
LEMMA FormOffer ==
  ASSUME TypeOK, work' \in Nat, NEW st \in Statuses
  PROVE  [id |-> now % Wrap, name |-> [from |-> "form", nr |-> work'], title |-> "own", facets |-> "unset",
          status |-> st, progress |-> 0, signal |-> "OK"] \in Offer
<1>1. now % Wrap \in Ids
  <2>1. now \in Nat /\ Wrap \in Nat \ {0}
    BY MarketAssumption DEF TypeOK
  <2> QED
    BY <2>1 DEF Ids
<1> QED
  BY <1>1 DEF Offer, Names

(* A move keeps what an offer is, and makes it whole. *)
LEMMA MovedType ==
  ASSUME NEW o \in Offer, NEW st \in Statuses
  PROVE  /\ Moved(o, st) \in Offer /\ Moved(o, st).id = o.id /\ Moved(o, st).name = o.name
         /\ Moved(o, st).title = o.title /\ Moved(o, st).facets = o.facets
         /\ Moved(o, st).status = "done" => Moved(o, st).progress = 100 /\ Moved(o, st).signal = "Review"
         /\ Moved(o, st).status = "open" => Moved(o, st).signal = "OK"
<1> DEFINE progress == IF st = "done" THEN 100 ELSE o.progress
           signal == CASE st = "done" -> "Review" [] st = "open" -> "OK" [] OTHER -> o.signal
           m == [o EXCEPT !.status = st, !.progress = progress, !.signal = signal]
<1>1. Moved(o, st) = m
  BY DEF Moved
<1>2. progress \in {0, 50, 100} /\ signal \in {"OK", "Attention", "Review"}
  BY DEF Offer
<1>3. (st = "done" => progress = 100 /\ signal = "Review") /\ (st = "open" => signal = "OK")
  OBVIOUS
<1> HIDE DEF progress, signal
<1>4. m \in Offer
  <2> DEFINE m1 == [o EXCEPT !.status = st]
             m2 == [m1 EXCEPT !.progress = progress]
  <2>1. m1 \in Offer
    BY DEF Offer
  <2>2. m2 \in Offer
    <3> HIDE DEF m1
    <3> QED
      BY <1>2, <2>1 DEF Offer
  <2>3. [m2 EXCEPT !.signal = signal] \in Offer
    <3> HIDE DEF m2
    <3> QED
      BY <1>2, <2>2 DEF Offer
  <2> QED
    BY <2>3
<1>5. /\ m.id = o.id /\ m.name = o.name /\ m.title = o.title /\ m.facets = o.facets
      /\ m.status = st /\ m.progress = progress /\ m.signal = signal
  BY DEF Offer
<1> HIDE DEF m
<1> QED
  BY <1>1, <1>3, <1>4, <1>5

(* Pages, the form and the buttons. *)
LEMMA PipelineTypes ==
  ASSUME TypeInv, NEW r \in Requests, PipelineStep(r)
  PROVE  TypeInv'
<1> USE DEF TypeInv
<1>1. UNCHANGED <<boot, now, asked, cut, cause>> /\ db \in Tables
  BY DbType DEF PipelineStep, Create, Click, Advance, Page, pipelineRest
<1>2. CASE Create(r)
  <2>1. work' = work + 1 /\ work' \in Nat /\ UNCHANGED <<shown, moved>> /\ stage = "serving"
    BY <1>2 DEF Create, Accepts
  <2>2. PICK st \in Statuses :
          LET o == [id |-> now % Wrap, name |-> [from |-> "form", nr |-> work'], title |-> "own",
                    facets |-> "unset", status |-> st, progress |-> 0, signal |-> "OK"]
          IN IF CanCreate(db, o.id)
               THEN Write(Insert(db, o)) /\ Continues(r, "page")
               ELSE UNCHANGED <<tables, req>>
    BY <1>2 DEF Create
  <2> DEFINE o == [id |-> now % Wrap, name |-> [from |-> "form", nr |-> work'], title |-> "own",
                   facets |-> "unset", status |-> st, progress |-> 0, signal |-> "OK"]
  <2>3. o \in Offer
    BY <2>1, FormOffer
  <2>4. (Write(Insert(db, o)) /\ Continues(r, "page")) \/ UNCHANGED <<tables, req>>
    BY <2>2
  <2> HIDE DEF o
  <2>5. Insert(db, o) \in Tables
    BY <1>1, <2>3, InsertType
  <2>6. CASE Write(Insert(db, o)) /\ Continues(r, "page")
    BY <1>1, <2>1, <2>5, <2>6, WriteType, RequestTypes DEF TypeOK, boot
  <2>7. CASE UNCHANGED <<tables, req>>
    BY <1>1, <2>1, <2>7 DEF TypeOK, boot, tables
  <2> QED
    BY <2>4, <2>6, <2>7
<1>3. CASE Click(r)
  <2>1. work' \in Nat /\ UNCHANGED <<tables, shown, moved>>
    BY <1>3 DEF Click, Accepts
  <2>2. req' \in [Requests -> Request]
    <3>1. PICK card \in shown, st \in Statuses :
            \/ UNCHANGED req
            \/ /\ HasOffer(db, card.id)
               /\ req' = [req EXCEPT ![r] = [Idle EXCEPT !.pc = "update", !.card = card, !.status = st,
                                                         !.copy = db.offers[RowOf(db, card.id)]]]
      BY <1>3 DEF Click
    <3>2. CASE UNCHANGED req
      BY <3>2 DEF TypeOK
    <3>3. CASE /\ HasOffer(db, card.id)
               /\ req' = [req EXCEPT ![r] = [Idle EXCEPT !.pc = "update", !.card = card, !.status = st,
                                                         !.copy = db.offers[RowOf(db, card.id)]]]
      <4>1. RowOf(db, card.id) \in DOMAIN db.offers /\ db.offers \in Seq(Offer)
        BY <1>1, <3>3, RowOfHas DEF Tables
      <4> DEFINE copy == db.offers[RowOf(db, card.id)]
      <4>2. copy \in Offer
        BY <4>1
      <4> HIDE DEF copy
      <4>3. [Idle EXCEPT !.pc = "update", !.card = card, !.status = st, !.copy = copy] \in Request
        BY <4>2, IdleRequest DEF Request, TypeOK
      <4> QED
        BY <3>3, <4>3 DEF TypeOK, copy
    <3> QED
      BY <3>1, <3>2, <3>3
  <2> QED
    BY <1>1, <2>1, <2>2 DEF TypeOK, boot, tables
<1>4. CASE Advance(r)
  <2> DEFINE o == Moved(req[r].copy, req[r].status)
  <2>1. /\ Write(Update(db, [db.offers EXCEPT ![RowOf(db, o.id)] = o]))
        /\ req' = [req EXCEPT ![r] = [Idle EXCEPT !.pc = "page"]] /\ UNCHANGED <<shown, work>>
    BY <1>4 DEF Advance
  <2>2. o \in Offer
    BY RequestTypes, MovedType DEF Request
  <2> HIDE DEF o
  <2>3. [db.offers EXCEPT ![RowOf(db, o.id)] = o] \in [DOMAIN db.offers -> Offer]
    <3>1. db.offers \in [DOMAIN db.offers -> Offer]
      BY <1>1 DEF Tables
    <3> QED
      BY <2>2, <3>1
  <2>4. Update(db, [db.offers EXCEPT ![RowOf(db, o.id)] = o]) \in Tables
    BY <1>1, <2>3, UpdateType
  <2>5. [Idle EXCEPT !.pc = "page"] \in Request
    BY IdleRequest DEF Request
  <2> QED
    BY <1>1, <2>1, <2>4, <2>5, WriteType DEF TypeOK, boot
<1>5. CASE Page(r)
  <2>1. /\ UNCHANGED <<tables, moved, work>> /\ req' \in [Requests -> Request]
    BY <1>5, RequestTypes DEF Page
  <2>2. shown' \subseteq Card
    <3>1. \A i \in DOMAIN db.offers : db.offers[i] \in Offer
      BY <1>1 DEF Tables
    <3>2. \A i \in DOMAIN db.offers :
            [id |-> db.offers[i].id, name |-> db.offers[i].name, store |-> backend] \in Card
      BY <3>1 DEF Offer, Card, TypeOK
    <3> QED
      BY <1>5, <3>2 DEF Page, TypeOK
  <2> QED
    BY <1>1, <2>1, <2>2 DEF TypeOK, boot, tables
<1> QED
  BY <1>2, <1>3, <1>4, <1>5 DEF PipelineStep

(* Saving a search. *)
LEMMA SavingTypes ==
  ASSUME TypeInv, NEW r \in Requests, SavingStep(r)
  PROVE  TypeInv'
<1> USE DEF TypeInv
<1>1. UNCHANGED <<boot, now, shown, moved, cause>> /\ db \in Tables /\ req[r] \in Request
  BY DbType, RequestTypes DEF SavingStep, Save, Upsert, Find, Trim, Cancel, savingRest
<1>2. CASE Save(r)
  <2>1. PICK q \in Queries :
          req' = [req EXCEPT ![r] = [Idle EXCEPT !.pc = "upsert", !.query = q, !.at = now]]
    BY <1>2 DEF Save
  <2>2. [Idle EXCEPT !.pc = "upsert", !.query = q, !.at = now] \in Request
    BY IdleRequest DEF Request, TypeOK
  <2>3. work' = work + 1 /\ UNCHANGED <<tables, asked, cut>>
    BY <1>2 DEF Save
  <2> QED
    BY <1>1, <2>1, <2>2, <2>3 DEF TypeOK, boot, tables
<1>3. CASE Upsert(r)
  <2> DEFINE t == Renew(db, req[r].query, req[r].at)
  <2>1. /\ UNCHANGED <<cut, work>>
        /\ \/ Write(t) /\ Continues(r, "find")
           \/ Write([t EXCEPT !.saved = Kept(t.saved)]) /\ Returns(r)
    BY <1>3 DEF Upsert
  <2>2. t \in Tables
    BY <1>1, RenewType DEF Request
  <2>3. [t EXCEPT !.saved = Kept(t.saved)] \in Tables
    BY <2>2, CappedType
  <2>4. asked' \in [Queries -> 0 .. MaxNow]
    BY <1>1, <1>3 DEF Upsert, Request, TypeOK
  <2> HIDE DEF t
  <2>5. /\ disk' \in Tables /\ mem' \in Tables /\ tx' \in Tables /\ UNCHANGED backend
        /\ req' \in [Requests -> Request]
    BY <2>1, <2>2, <2>3, WriteType, RequestTypes
  <2> QED
    BY <1>1, <2>1, <2>4, <2>5 DEF TypeOK, boot
<1>4. CASE Find(r)
  <2>1. req' \in [Requests -> Request] /\ UNCHANGED <<tables, asked, cut, work>>
    BY <1>4, RequestTypes DEF Find
  <2> QED
    BY <1>1, <2>1 DEF TypeOK, boot, tables
<1>5. CASE Trim(r)
  <2>1. /\ Write([db EXCEPT !.saved = Kept(db.saved)]) /\ req' \in [Requests -> Request]
        /\ cut' = FALSE /\ UNCHANGED <<asked, work>>
    BY <1>5, RequestTypes DEF Trim
  <2>2. [db EXCEPT !.saved = Kept(db.saved)] \in Tables
    BY <1>1, CappedType
  <2>3. cut' \in BOOLEAN
    BY <2>1, Zenon
  <2> QED
    BY <1>1, <2>1, <2>2, <2>3, WriteType DEF TypeOK, boot
<1>6. CASE Cancel(r)
  <2>1. req' \in [Requests -> Request] /\ UNCHANGED <<tables, asked, work>>
    BY <1>6, RequestTypes DEF Cancel
  <2>2. cut' \in BOOLEAN
    BY <1>6, Zenon DEF Cancel, TypeOK
  <2> QED
    BY <1>1, <2>1, <2>2 DEF TypeOK, boot, tables
<1> QED
  BY <1>2, <1>3, <1>4, <1>5, <1>6 DEF SavingStep

(* Every step of the marketplace keeps types. *)
LEMMA TypeNext == TypeInv /\ [Next]_vars => TypeInv'
<1> SUFFICES ASSUME TypeInv, [Next]_vars PROVE TypeInv'
  OBVIOUS
<1>1. CASE Next
  BY <1>1, BootTypes, SeedingTypes, CrashTypes, PipelineTypes, SavingTypes DEF Next, StartStep
<1>2. CASE UNCHANGED vars
  BY <1>2 DEF TypeInv, vars, tables, boot, history, TypeOK
<1> QED
  BY <1>1, <1>2

(* The files, the store in memory, start-up, requests and the history keep *)
(* their types, whatever release left the file behind.                      *)
THEOREM TypeCorrect == Spec => []TypeOK
<1>1. Init => TypeInv
  BY TypeInit
<1>2. TypeInv /\ [Next]_vars => TypeInv'
  BY TypeNext
<1>3. TypeInv => TypeOK
  BY DEF TypeInv
<1> QED
  BY <1>1, <1>2, <1>3, PTL DEF Spec
=============================================================================

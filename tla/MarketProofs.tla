---------------------------- MODULE MarketProofs ----------------------------
(***************************************************************************)
(* For every set of requests, seeds, demo market, old file and number of   *)
(* restarts and failures: migrations are applied wholly and once, the      *)
(* full-text index follows its table, a card of SQLite is never mistaken   *)
(* for another offer's, moves that overlap leave an offer whole, the demo   *)
(* market is complete, the newest searches are kept, and start-up takes     *)
(* back nothing that people did.                                            *)
(***************************************************************************)
EXTENDS MarketTypes, FiniteSetTheorems

----------------------------------------------------------------------------
\* The invariant

(* Ids are a primary key. *)
UniqueIds(t) == \A i, j \in DOMAIN t.offers : t.offers[i].id = t.offers[j].id => i = j

(* Migrations are recorded in their order. *)
InOrder(t) == \A a, b \in Versions : a < b /\ b \in t.recorded => a \in t.recorded

(* RecordedIsDone, of any tables. *)
DoneAsRecorded(t) ==
  /\ 2 \in t.recorded <=> t.columns
  /\ 4 \in t.recorded <=> t.unique
  /\ 5 \in t.recorded <=> t.triggers
  /\ \A i \in DOMAIN t.offers :
       /\ 2 \in t.recorded => t.offers[i].facets # "absent"
       /\ 3 \in t.recorded => t.offers[i].facets # "default"
       /\ 3 \notin t.recorded => t.offers[i].facets \in {"absent", "default"}
       /\ 6 \in t.recorded => t.offers[i].title # "english"
  /\ 4 \in t.recorded => EachOnce(t.saved)

(* Until duplicates are removed, saved searches have ids of their own. *)
SavedIds(t) == 4 \notin t.recorded => \A s, u \in t.saved : s.id = u.id => s = u

(* Seeds only were written in English. *)
EnglishSeeds(t) == \A i \in DOMAIN t.offers : t.offers[i].title = "english" => t.offers[i].id \in Elems(SeedIds)

(* IndexFollowsTable, of any tables. *)
Indexes(t) == t.triggers => t.index = Entries(t.offers)

(* What a file is like, whatever happens. *)
Sound(t) ==
  UniqueIds(t) /\ InOrder(t) /\ DoneAsRecorded(t) /\ SavedIds(t) /\ EnglishSeeds(t) /\ Indexes(t)

(* Where start-up is: what it has done, what the open transaction holds,   *)
(* and that nothing is served meanwhile.                                    *)
BootInv ==
  /\ stage \in {"open", "check", "apply", "commit", "count", "seed"} => backend = "sqlite"
  /\ stage # "serving" => \A r \in Requests : req[r].pc = "idle"
  /\ stage \in {"check", "apply", "commit"} => \A v \in Versions : v < version => v \in disk.recorded
  /\ stage \in {"apply", "commit"} => version \notin disk.recorded
  /\ stage = "apply" => tx = disk
  /\ stage = "commit" => tx = Recorded(version, Effect(version, disk))
  /\ backend = "sqlite" /\ stage \in {"count", "seed", "demo", "market", "serving"} =>
       Versions \subseteq disk.recorded

(* The seeds that are left to insert are not there yet, and differ. *)
SeedsLeft ==
  stage = "seed" =>
    /\ \A k \in DOMAIN todo : todo[k] \in Elems(SeedIds) => ~HasOffer(disk, todo[k])
    /\ \A j, k \in DOMAIN todo : todo[j] = todo[k] /\ todo[j] \in Elems(SeedIds) => j = k

(* A row of SQLite that has this id and is the offer with this name. *)
OnDisk(id, name) == \E i \in DOMAIN disk.offers : disk.offers[i].id = id /\ disk.offers[i].name = name

(* Offers that SQLite has shown are there, and so are those being moved. *)
CardsOnDisk == \A card \in shown : card.store = "sqlite" => OnDisk(card.id, card.name)

CopiesOnDisk ==
  \A r \in Requests : req[r].pc = "update" /\ backend = "sqlite" =>
    /\ OnDisk(req[r].copy.id, req[r].copy.name)
    /\ req[r].copy.facets \notin {"absent", "default"} /\ req[r].copy.title # "english"

(* The inductive invariant. *)
IInv == TypeInv /\ Sound(disk) /\ BootInv /\ SeedsLeft /\ CardsOnDisk /\ CopiesOnDisk /\ OpensUnlessBroken

----------------------------------------------------------------------------
\* What keeps a file sound

(* One more row is indexed, when there is an index. *)
LEMMA InsertSound ==
  ASSUME NEW t \in Tables, NEW o \in Offer, Sound(t), ~HasOffer(t, o.id), Versions \subseteq t.recorded,
         o.facets \notin {"absent", "default"}, o.title # "english"
  PROVE  Sound(Insert(t, o)) /\ Insert(t, o).recorded = t.recorded
<1> DEFINE u == Insert(t, o)
<1>1. /\ t.offers \in Seq(Offer) /\ u.offers = Append(t.offers, o)
      /\ u.recorded = t.recorded /\ u.columns = t.columns /\ u.unique = t.unique
      /\ u.triggers = t.triggers /\ u.saved = t.saved
      /\ t.triggers => u.index = t.index \cup {Entry(o)}
  BY DEF Insert, Tables
<1> HIDE DEF u
<1>2. /\ DOMAIN u.offers = DOMAIN t.offers \cup {Len(t.offers) + 1}
      /\ Len(t.offers) + 1 \notin DOMAIN t.offers
      /\ \A i \in DOMAIN t.offers : u.offers[i] = t.offers[i]
      /\ u.offers[Len(t.offers) + 1] = o
  BY <1>1, AppendProperties
<1>3. UniqueIds(u)
  BY <1>2 DEF Sound, UniqueIds, HasOffer
<1>4. InOrder(u) /\ SavedIds(u) /\ EnglishSeeds(u)
  BY <1>1, <1>2 DEF Sound, InOrder, SavedIds, EnglishSeeds
<1>5. DoneAsRecorded(u)
  BY <1>1, <1>2 DEF Sound, DoneAsRecorded, Versions
<1>6. Indexes(u)
  BY <1>1, <1>2 DEF Sound, Indexes, Entries
<1> QED
  BY <1>1, <1>3, <1>4, <1>5, <1>6 DEF Sound, u

(* Rows that are rewritten under their ids are indexed anew, one by one. *)
LEMMA UpdateIndexes ==
  ASSUME NEW t \in Tables, UniqueIds(t), Indexes(t), NEW rows \in [DOMAIN t.offers -> Offer],
         \A i \in DOMAIN t.offers : rows[i].id = t.offers[i].id
  PROVE  /\ Indexes(Update(t, rows)) /\ UniqueIds(Update(t, rows))
         /\ Update(t, rows).offers = rows /\ Update(t, rows).recorded = t.recorded
         /\ Update(t, rows).columns = t.columns /\ Update(t, rows).unique = t.unique
         /\ Update(t, rows).triggers = t.triggers /\ Update(t, rows).saved = t.saved
<1> DEFINE changed == {i \in DOMAIN rows : rows[i] # t.offers[i]}
           old == {Entry(t.offers[i]) : i \in changed}
           new == {Entry(rows[i]) : i \in changed}
           u == Update(t, rows)
<1>1. /\ u.offers = rows /\ u.recorded = t.recorded /\ u.columns = t.columns /\ u.unique = t.unique
      /\ u.triggers = t.triggers /\ u.saved = t.saved
      /\ t.triggers => u.index = (t.index \ old) \cup new
  BY DEF Update, Tables
<1> HIDE DEF u
<1>2. UniqueIds(u)
  BY <1>1 DEF UniqueIds
<1>3. ASSUME t.triggers PROVE (t.index \ old) \cup new = Entries(rows)
  <2>1. t.index = Entries(t.offers)
    BY <1>3 DEF Indexes
  <2>2. ASSUME NEW e \in (t.index \ old) \cup new PROVE e \in Entries(rows)
    <3>1. CASE e \in new
      BY <3>1 DEF Entries
    <3>2. CASE e \in t.index \ old
      <4>1. PICK i \in DOMAIN t.offers : e = Entry(t.offers[i])
        BY <2>1, <3>2 DEF Entries
      <4>2. rows[i] = t.offers[i]
        BY <3>2, <4>1
      <4> QED
        BY <4>1, <4>2 DEF Entries
    <3> QED
      BY <3>1, <3>2
  <2>3. ASSUME NEW e \in Entries(rows) PROVE e \in (t.index \ old) \cup new
    <3>1. PICK i \in DOMAIN rows : e = Entry(rows[i])
      BY DEF Entries
    <3>2. CASE i \in changed
      BY <3>1, <3>2
    <3>3. CASE i \notin changed
      <4>1. rows[i] = t.offers[i] /\ e \in t.index
        BY <2>1, <3>1, <3>3 DEF Entries
      <4>2. ASSUME NEW j \in changed PROVE Entry(t.offers[j]) # e
        <5>1. j \in DOMAIN t.offers /\ j # i
          BY <3>3
        <5> QED
          BY <3>1, <4>1, <5>1 DEF Entry, UniqueIds
      <4> QED
        BY <4>1, <4>2
    <3> QED
      BY <3>2, <3>3
  <2> QED
    BY <2>2, <2>3
<1>4. Indexes(u)
  BY <1>1, <1>3 DEF Indexes
<1> QED
  BY <1>1, <1>2, <1>4 DEF u

(* Of rows with ids of their own, deduplication leaves one for each query. *)
LEMMA DedupedOnce ==
  ASSUME NEW rows \in SUBSET Saved, \A s, u \in rows : s.id = u.id => s = u
  PROVE  EachOnce(Deduped(rows))
<1> SUFFICES ASSUME NEW s \in Deduped(rows), NEW u \in Deduped(rows), s.query = u.query PROVE s = u
  BY DEF EachOnce
<1>1. s \in rows /\ u \in rows /\ s.id <= u.id /\ u.id <= s.id
  BY DEF Deduped
<1>2. s.id = u.id
  BY <1>1 DEF Saved
<1> QED
  BY <1>1, <1>2

(* A migration whose predecessors are recorded, and itself is not, leaves  *)
(* a sound file.                                                            *)
LEMMA MigrationSound ==
  ASSUME NEW t \in Tables, Sound(t), NEW v \in Versions, v \notin t.recorded,
         \A a \in Versions : a < v => a \in t.recorded
  PROVE  /\ Sound(Recorded(v, Effect(v, t)))
         /\ Recorded(v, Effect(v, t)).recorded = t.recorded \cup {v}
         /\ DOMAIN Recorded(v, Effect(v, t)).offers = DOMAIN t.offers
         /\ \A i \in DOMAIN t.offers :
              /\ Recorded(v, Effect(v, t)).offers[i].id = t.offers[i].id
              /\ Recorded(v, Effect(v, t)).offers[i].name = t.offers[i].name
<1> DEFINE e == Effect(v, t)
           u == Recorded(v, e)
<1>1. e \in Tables
  BY EffectType
<1>2. /\ u.offers = e.offers /\ u.columns = e.columns /\ u.unique = e.unique
      /\ u.triggers = e.triggers /\ u.saved = e.saved /\ u.index = e.index
      /\ u.recorded = e.recorded \cup {v}
  BY <1>1, RecordedType
<1>3. \A i \in DOMAIN t.offers : t.offers[i] \in Offer
  BY DEF Tables
<1>4. v \in {2, 3, 4, 5, 6} /\ {2, 3, 4, 5, 6} = Versions
  BY DEF Versions
<1>5. \A a \in Versions : v < a => a \notin t.recorded
  BY DEF Sound, InOrder
<1> HIDE DEF u
<1>6. ASSUME e.recorded = t.recorded PROVE InOrder(u)
  BY <1>2, <1>6 DEF Sound, InOrder
<1>7. CASE v = 2
  <2> DEFINE rows == [i \in DOMAIN t.offers |-> [t.offers[i] EXCEPT !.facets = "default"]]
  <2>1. e = [t EXCEPT !.columns = TRUE, !.offers = rows]
    BY <1>7 DEF Effect
  <2>2. /\ \A i \in DOMAIN t.offers :
             rows[i].facets = "default" /\ rows[i].id = t.offers[i].id /\ rows[i].name = t.offers[i].name
        /\ \A i \in DOMAIN t.offers : rows[i].title = t.offers[i].title
        /\ DOMAIN rows = DOMAIN t.offers
    BY <1>3 DEF Offer
  <2> HIDE DEF rows
  <2>3. /\ e.offers = rows /\ e.columns = TRUE /\ e.recorded = t.recorded /\ e.unique = t.unique
        /\ e.triggers = t.triggers /\ e.saved = t.saved
    BY <2>1 DEF Tables
  <2> HIDE DEF e
  <2>4. 3 \notin t.recorded /\ 4 \notin t.recorded /\ 5 \notin t.recorded /\ 6 \notin t.recorded
    BY <1>4, <1>5, <1>7
  <2>5. DoneAsRecorded(u)
    BY <1>2, <1>7, <2>2, <2>3, <2>4 DEF Sound, DoneAsRecorded
  <2>6. UniqueIds(u) /\ SavedIds(u) /\ EnglishSeeds(u) /\ Indexes(u)
    BY <1>2, <1>7, <2>2, <2>3, <2>4 DEF Sound, UniqueIds, SavedIds, EnglishSeeds, Indexes, DoneAsRecorded
  <2> QED
    BY <1>2, <1>6, <2>2, <2>3, <2>5, <2>6 DEF Sound, e, u
<1>8. CASE v = 3
  <2> DEFINE rows == [i \in DOMAIN t.offers |-> Backfilled(t.offers[i])]
  <2>1. e = Update(t, rows)
    BY <1>8 DEF Effect
  <2>2. \A i \in DOMAIN t.offers :
          /\ rows[i] \in Offer /\ rows[i].facets \in {"given", "derived"} /\ rows[i].id = t.offers[i].id
          /\ rows[i].name = t.offers[i].name /\ rows[i].title = t.offers[i].title
    BY <1>3 DEF Offer, Backfilled
  <2>3. rows \in [DOMAIN t.offers -> Offer]
    BY <2>2
  <2> HIDE DEF rows
  <2>4. /\ Indexes(e) /\ UniqueIds(e) /\ e.offers = rows /\ e.recorded = t.recorded
        /\ e.columns = t.columns /\ e.unique = t.unique /\ e.triggers = t.triggers /\ e.saved = t.saved
    BY <2>1, <2>2, <2>3, UpdateIndexes DEF Sound
  <2> HIDE DEF e
  <2>5. 2 \in t.recorded /\ 4 \notin t.recorded /\ 5 \notin t.recorded /\ 6 \notin t.recorded
    BY <1>4, <1>5, <1>8
  <2>6. DoneAsRecorded(u)
    BY <1>2, <1>8, <2>2, <2>3, <2>4, <2>5 DEF Sound, DoneAsRecorded
  <2>7. UniqueIds(u) /\ SavedIds(u) /\ EnglishSeeds(u) /\ Indexes(u)
    BY <1>2, <1>8, <2>2, <2>3, <2>4 DEF Sound, UniqueIds, SavedIds, EnglishSeeds, Indexes
  <2> QED
    BY <1>2, <1>6, <2>2, <2>3, <2>4, <2>6, <2>7 DEF Sound, e, u
<1>9. CASE v = 4
  <2>1. e = [t EXCEPT !.saved = Deduped(t.saved), !.unique = TRUE]
    BY <1>9 DEF Effect
  <2>2. /\ e.offers = t.offers /\ e.columns = t.columns /\ e.recorded = t.recorded /\ e.unique = TRUE
        /\ e.triggers = t.triggers /\ e.saved = Deduped(t.saved) /\ e.index = t.index
    BY <2>1 DEF Tables
  <2>3. EachOnce(Deduped(t.saved))
    BY <1>9, DedupedOnce DEF Sound, SavedIds, Tables
  <2> HIDE DEF e
  <2>4. DoneAsRecorded(u)
    BY <1>2, <1>9, <2>2, <2>3 DEF Sound, DoneAsRecorded
  <2>5. UniqueIds(u) /\ SavedIds(u) /\ EnglishSeeds(u) /\ Indexes(u)
    BY <1>2, <1>9, <2>2 DEF Sound, UniqueIds, SavedIds, EnglishSeeds, Indexes
  <2> QED
    BY <1>2, <1>6, <2>2, <2>4, <2>5 DEF Sound, e, u
<1>10. CASE v = 5
  <2>1. e = [t EXCEPT !.triggers = TRUE, !.index = Entries(t.offers)]
    BY <1>10 DEF Effect, Rebuilt
  <2>2. /\ e.offers = t.offers /\ e.columns = t.columns /\ e.recorded = t.recorded /\ e.unique = t.unique
        /\ e.triggers = TRUE /\ e.saved = t.saved /\ e.index = Entries(t.offers)
    BY <2>1 DEF Tables
  <2> HIDE DEF e
  <2>3. DoneAsRecorded(u)
    BY <1>2, <1>10, <2>2 DEF Sound, DoneAsRecorded
  <2>4. UniqueIds(u) /\ SavedIds(u) /\ EnglishSeeds(u) /\ Indexes(u)
    BY <1>2, <1>10, <2>2 DEF Sound, UniqueIds, SavedIds, EnglishSeeds, Indexes
  <2> QED
    BY <1>2, <1>6, <2>2, <2>3, <2>4 DEF Sound, e, u
<1>11. CASE v = 6
  <2> DEFINE rows == [i \in DOMAIN t.offers |-> Germanised(t.offers[i])]
  <2>1. e = Update(t, rows)
    BY <1>11 DEF Effect
  <2>2. \A i \in DOMAIN t.offers :
          /\ rows[i] \in Offer /\ rows[i].facets = t.offers[i].facets /\ rows[i].id = t.offers[i].id
          /\ rows[i].name = t.offers[i].name
    BY <1>3 DEF Offer, Germanised
  <2>3. rows \in [DOMAIN t.offers -> Offer]
    BY <2>2
  <2>4. \A i \in DOMAIN t.offers : rows[i].title # "english"
    BY <1>3 DEF Offer, Germanised, Sound, EnglishSeeds
  <2> HIDE DEF rows
  <2>5. /\ Indexes(e) /\ UniqueIds(e) /\ e.offers = rows /\ e.recorded = t.recorded
        /\ e.columns = t.columns /\ e.unique = t.unique /\ e.triggers = t.triggers /\ e.saved = t.saved
    BY <2>1, <2>2, <2>3, UpdateIndexes DEF Sound
  <2> HIDE DEF e
  <2>6. DoneAsRecorded(u)
    BY <1>2, <1>11, <2>2, <2>3, <2>4, <2>5 DEF Sound, DoneAsRecorded
  <2>7. UniqueIds(u) /\ SavedIds(u) /\ EnglishSeeds(u) /\ Indexes(u)
    BY <1>2, <1>11, <2>3, <2>4, <2>5 DEF Sound, UniqueIds, SavedIds, EnglishSeeds, Indexes
  <2> QED
    BY <1>2, <1>6, <2>2, <2>3, <2>5, <2>6, <2>7 DEF Sound, e, u
<1> QED
  BY <1>4, <1>7, <1>8, <1>9, <1>10, <1>11

(* The files that older releases left behind are sound. *)
LEMMA FilesSound == ASSUME NEW t \in Files PROVE Sound(t)
<1>1. CASE t = NewFile
  BY <1>1 DEF NewFile, Sound, UniqueIds, InOrder, DoneAsRecorded, SavedIds, EnglishSeeds, Indexes, EachOnce
<1>2. ASSUME NEW k \in 1 .. 6, NEW id \in FreeIds, NEW title \in {"english", "german", "own"},
             k = 6 => title # "english"
      PROVE  Sound(OldFile(k, id, title))
  <2> DEFINE facets(new) == IF k < 2 THEN "absent" ELSE IF k = 2 THEN "default" ELSE new
             seeds == [i \in DOMAIN SeedIds |->
                         [SeedOffer(SeedIds[i]) EXCEPT !.title = title, !.facets = facets("given")]]
             created == [id |-> id, name |-> [from |-> "file", nr |-> 0], title |-> "own",
                         facets |-> facets("derived"), status |-> "done", progress |-> 100, signal |-> "Review"]
             n == Len(OldQueries)
             copies == IF k < 4 THEN {0, 1} ELSE {0}
             saved == {[query |-> OldQueries[i], id |-> i + m * n, at |-> 0] : i \in 1 .. n, m \in copies}
             rows == Append(seeds, created)
             file == OldFile(k, id, title)
  <2>1. /\ file.columns = (k >= 2) /\ file.recorded = 2 .. k /\ file.offers = rows /\ file.triggers = (k >= 5)
        /\ file.unique = (k >= 4) /\ file.saved = saved
        /\ file.index = IF k >= 5 THEN Entries(rows) ELSE {}
    <3>1. file = [columns |-> k >= 2, recorded |-> 2 .. k, offers |-> rows,
                  triggers |-> k >= 5, index |-> IF k >= 5 THEN Entries(rows) ELSE {},
                  unique |-> k >= 4, saved |-> saved, nextId |-> 2 * n + 1,
                  crews |-> [c \in Elems(CrewIds) |-> IF title = "own" THEN "edited" ELSE "none"],
                  static |-> Elems(Static)]
      BY DEF OldFile
    <3> HIDE DEF file, rows, saved, n
    <3> QED
      BY <3>1
  <2>2. DOMAIN SeedIds = 1 .. Len(SeedIds) /\ Len(SeedIds) \in Nat /\ n \in Nat
    BY MarketAssumption
  <2>3. \A i \in DOMAIN SeedIds : /\ seeds[i].id = SeedIds[i] /\ seeds[i].title = title
                                  /\ seeds[i].facets = facets("given")
    BY DEF SeedOffer
  <2>4. seeds = [i \in 1 .. Len(SeedIds) |-> seeds[i]]
    BY <2>2
  <2>5. created.id = id /\ created.title = "own" /\ created.facets = facets("derived")
    OBVIOUS
  <2> HIDE DEF seeds, created, facets, n, copies, saved
  <2>6. seeds \in Seq({seeds[i] : i \in DOMAIN SeedIds}) /\ Len(seeds) = Len(SeedIds)
    BY <2>2, <2>4
  <2>7. /\ DOMAIN rows = DOMAIN SeedIds \cup {Len(SeedIds) + 1} /\ Len(SeedIds) + 1 \notin DOMAIN SeedIds
        /\ \A i \in DOMAIN SeedIds : rows[i] = seeds[i]
        /\ rows[Len(SeedIds) + 1] = created
    BY <2>2, <2>6
  <2> HIDE DEF rows, file
  <2>8. UniqueIds(file)
    <3>1. \A i, j \in DOMAIN SeedIds : SeedIds[i] = SeedIds[j] => i = j
      BY MarketAssumption DEF Distinct
    <3>2. \A i \in DOMAIN SeedIds : SeedIds[i] # id
      BY DEF FreeIds, Elems
    <3>3. \A i \in DOMAIN rows : rows[i].id = IF i \in DOMAIN SeedIds THEN SeedIds[i] ELSE id
      BY <2>3, <2>5, <2>7
    <3> QED
      BY <2>1, <2>7, <3>1, <3>2, <3>3 DEF UniqueIds
  <2>9. InOrder(file)
    BY <2>1 DEF InOrder, Versions
  <2>10. DoneAsRecorded(file)
    <3>1. \A v \in Versions : v \in file.recorded <=> k >= v
      BY <2>1 DEF Versions
    <3>2. /\ facets("given") = IF k < 2 THEN "absent" ELSE IF k = 2 THEN "default" ELSE "given"
          /\ facets("derived") = IF k < 2 THEN "absent" ELSE IF k = 2 THEN "default" ELSE "derived"
      BY DEF facets
    <3>3. \A i \in DOMAIN rows : /\ rows[i].facets = facets("given") \/ rows[i].facets = facets("derived")
                                 /\ rows[i].title \in {title, "own"}
      BY <2>3, <2>5, <2>7
    <3>4. \A i \in DOMAIN rows :
            /\ k >= 2 => rows[i].facets # "absent"
            /\ k >= 3 => rows[i].facets # "default"
            /\ ~(k >= 3) => rows[i].facets \in {"absent", "default"}
            /\ k >= 6 => rows[i].title # "english"
      BY <1>2, <3>2, <3>3
    <3>5. k >= 4 => EachOnce(saved)
      <4> SUFFICES ASSUME k >= 4, NEW s \in saved, NEW u \in saved, s.query = u.query PROVE s = u
        BY DEF EachOnce
      <4>1. PICK i \in 1 .. n : s = [query |-> OldQueries[i], id |-> i + 0 * n, at |-> 0]
        BY DEF saved, copies
      <4>2. PICK j \in 1 .. n : u = [query |-> OldQueries[j], id |-> j + 0 * n, at |-> 0]
        BY DEF saved, copies
      <4>3. OldQueries[i] = OldQueries[j] /\ i \in DOMAIN OldQueries /\ j \in DOMAIN OldQueries
        BY <4>1, <4>2, MarketAssumption DEF n
      <4>4. i = j
        BY <4>3, MarketAssumption DEF Distinct
      <4> QED
        BY <4>1, <4>2, <4>4
    <3>6. 2 \in Versions /\ 3 \in Versions /\ 4 \in Versions /\ 5 \in Versions /\ 6 \in Versions
      BY DEF Versions
    <3> QED
      BY <2>1, <3>1, <3>4, <3>5, <3>6 DEF DoneAsRecorded
  <2>11. SavedIds(file)
    <3> SUFFICES ASSUME NEW s \in saved, NEW u \in saved, s.id = u.id PROVE s = u
      BY <2>1 DEF SavedIds
    <3>1. copies \subseteq {0, 1}
      BY DEF copies
    <3>2. PICK i \in 1 .. n, m \in copies : s = [query |-> OldQueries[i], id |-> i + m * n, at |-> 0]
      BY DEF saved
    <3>3. PICK j \in 1 .. n, l \in copies : u = [query |-> OldQueries[j], id |-> j + l * n, at |-> 0]
      BY DEF saved
    <3>4. i + m * n = j + l * n
      BY <3>2, <3>3
    <3>5. (m = 0 \/ m = 1) /\ (l = 0 \/ l = 1)
      BY <3>1
    <3>6. 0 * n = 0 /\ 1 * n = n
      BY <2>2
    <3>7. i = j
      BY <2>2, <3>4, <3>5, <3>6
    <3>8. m * n = l * n
      BY <2>2, <3>4, <3>5, <3>6
    <3> QED
      BY <3>2, <3>3, <3>7, <3>8
  <2>12. EnglishSeeds(file)
    <3>1. \A i \in DOMAIN rows : i \in DOMAIN SeedIds \/ rows[i].title = "own"
      BY <2>5, <2>7
    <3>2. \A i \in DOMAIN SeedIds : rows[i].id \in Elems(SeedIds)
      BY <2>3, <2>7 DEF Elems
    <3> QED
      BY <2>1, <3>1, <3>2 DEF EnglishSeeds
  <2>13. Indexes(file)
    BY <2>1 DEF Indexes
  <2> QED
    BY <2>8, <2>9, <2>10, <2>11, <2>12, <2>13 DEF Sound, file
<1> QED
  BY <1>1, <1>2 DEF Files

(* Tables that differ from sound ones in crews, static content and saved   *)
(* searches only are sound, if each search is there once.                   *)
LEMMA SameOffersSound ==
  ASSUME NEW t \in Tables, NEW u \in Tables, Sound(t), Versions \subseteq t.recorded, EachOnce(u.saved),
         u.offers = t.offers, u.recorded = t.recorded, u.columns = t.columns, u.unique = t.unique,
         u.triggers = t.triggers, u.index = t.index
  PROVE  Sound(u)
<1>1. UniqueIds(u) /\ InOrder(u) /\ EnglishSeeds(u) /\ Indexes(u)
  BY DEF Sound, UniqueIds, InOrder, EnglishSeeds, Indexes
<1>2. DoneAsRecorded(u)
  BY DEF Sound, DoneAsRecorded
<1>3. SavedIds(u)
  BY DEF SavedIds, Versions
<1> QED
  BY <1>1, <1>2, <1>3 DEF Sound

(* No row leaves, or becomes another offer. *)
Follows(t, u) ==
  \A i \in DOMAIN t.offers :
    i \in DOMAIN u.offers /\ u.offers[i].id = t.offers[i].id /\ u.offers[i].name = t.offers[i].name

(* What was on disk stays there, so cards and copies keep naming it. *)
LEMMA StaysOnDisk ==
  ASSUME CardsOnDisk, CopiesOnDisk, Follows(disk, disk'), UNCHANGED shown,
         \A r \in Requests : req'[r].pc = "update" /\ backend' = "sqlite" => req'[r] = req[r] /\ backend = "sqlite"
  PROVE  CardsOnDisk' /\ CopiesOnDisk'
<1>1. \A id, name : OnDisk(id, name) => \E i \in DOMAIN disk'.offers : disk'.offers[i].id = id /\ disk'.offers[i].name = name
  BY DEF OnDisk, Follows
<1>2. CardsOnDisk'
  BY <1>1 DEF CardsOnDisk, OnDisk
<1>3. CopiesOnDisk'
  BY <1>1 DEF CopiesOnDisk, OnDisk
<1> QED
  BY <1>2, <1>3

----------------------------------------------------------------------------
\* Every step keeps the invariant

(* The first start finds a sound file, and has shown nothing. *)
LEMMA InvInit == Init => IInv
<1> SUFFICES ASSUME Init PROVE IInv
  OBVIOUS
<1>1. Sound(disk)
  BY FilesSound DEF Init
<1>2. BootInv
  BY DEF Init, BootInv, Idle
<1>3. SeedsLeft /\ CardsOnDisk /\ OpensUnlessBroken
  BY DEF Init, SeedsLeft, CardsOnDisk, OpensUnlessBroken
<1>4. CopiesOnDisk
  BY DEF Init, CopiesOnDisk, Idle
<1> QED
  BY <1>1, <1>2, <1>3, <1>4, TypeInit DEF IInv

(* Opening the store: a migration that is due applies. *)
LEMMA BootKeeps ==
  ASSUME IInv, Open \/ OpenFails \/ Check \/ Apply \/ Commit
  PROVE  IInv'
<1>1. TypeInv'
  BY BootTypes DEF IInv
<1>2. /\ UNCHANGED <<req, shown>> /\ stage # "serving"
      /\ \A r \in Requests : req[r].pc = "idle"
      /\ disk \in Tables
  BY DEF Open, OpenFails, Check, Apply, Commit, outside, history, IInv, BootInv, TypeInv, TypeOK
<1>3. CASE Open
  <2>1. /\ UNCHANGED disk /\ backend' = "sqlite" /\ stage' = "check" /\ version' = 2
    BY <1>3 DEF Open
  <2>2. BootInv'
    BY <1>2, <2>1 DEF BootInv, Versions
  <2>3. SeedsLeft' /\ OpensUnlessBroken'
    BY <2>1 DEF SeedsLeft, OpensUnlessBroken
  <2>4. CardsOnDisk' /\ CopiesOnDisk'
    BY <1>2, <2>1, StaysOnDisk DEF Follows, IInv
  <2> QED
    BY <1>1, <2>1, <2>2, <2>3, <2>4 DEF IInv
<1>4. CASE OpenFails
  <2>1. UNCHANGED disk /\ backend' = "memory" /\ cause' = "io" /\ stage' = "demo"
    BY <1>4 DEF OpenFails, FallBack
  <2>2. BootInv'
    BY <1>2, <2>1 DEF BootInv
  <2>3. SeedsLeft' /\ OpensUnlessBroken'
    BY <2>1 DEF SeedsLeft, OpensUnlessBroken
  <2>4. CardsOnDisk' /\ CopiesOnDisk'
    BY <1>2, <2>1, StaysOnDisk DEF Follows, IInv
  <2> QED
    BY <1>1, <2>1, <2>2, <2>3, <2>4 DEF IInv
<1>5. CASE Check
  <2>1. /\ UNCHANGED <<disk, backend, cause>> /\ stage = "check" /\ backend = "sqlite"
        /\ \A v \in Versions : v < version => v \in disk.recorded
        /\ version \in 2 .. 7
    BY <1>5 DEF Check, IInv, BootInv, TypeInv, TypeOK
  <2>2. BootInv'
    <3>1. CASE version > 6
      <4>1. stage' = "count" /\ Versions \subseteq disk.recorded
        BY <1>2, <1>5, <2>1, <3>1 DEF Check, Versions, Tables
      <4> QED
        BY <1>2, <2>1, <4>1 DEF BootInv
    <3>2. CASE version <= 6 /\ version \in disk.recorded
      <4>1. stage' = "check" /\ version' = version + 1
        BY <1>5, <2>1, <3>2 DEF Check
      <4>2. \A v \in Versions : v < version' => v \in disk'.recorded
        BY <2>1, <3>2, <4>1 DEF Versions
      <4> QED
        BY <1>2, <2>1, <4>1, <4>2 DEF BootInv
    <3>3. CASE version <= 6 /\ version \notin disk.recorded
      <4>1. stage' = "apply" /\ version' = version /\ tx' = disk
        BY <1>5, <2>1, <3>3 DEF Check
      <4> QED
        BY <1>2, <2>1, <3>3, <4>1 DEF BootInv
    <3> QED
      BY <2>1, <3>1, <3>2, <3>3
  <2>3. SeedsLeft' /\ OpensUnlessBroken'
    <3>1. stage' # "seed"
      BY <1>5 DEF Check
    <3> QED
      BY <2>1, <3>1 DEF SeedsLeft, OpensUnlessBroken
  <2>4. CardsOnDisk' /\ CopiesOnDisk'
    BY <1>2, <2>1, StaysOnDisk DEF Follows, IInv
  <2> QED
    BY <1>1, <2>1, <2>2, <2>3, <2>4 DEF IInv
<1>6. CASE Apply
  <2>1. /\ version \in Versions /\ version \notin disk.recorded /\ tx = disk /\ backend = "sqlite"
        /\ \A v \in Versions : v < version => v \in disk.recorded
    BY <1>6 DEF Apply, IInv, BootInv, TypeInv
  <2>2. Applicable(version, tx)
    <3>1. version = 2 => ~disk.columns
      BY <2>1 DEF IInv, Sound, DoneAsRecorded
    <3>2. version = 4 => EachOnce(Deduped(disk.saved))
      BY <1>2, <2>1, DedupedOnce DEF IInv, Sound, SavedIds, Tables
    <3> QED
      BY <2>1, <3>1, <3>2 DEF Applicable
  <2>3. /\ tx' = Recorded(version, Effect(version, disk)) /\ stage' = "commit"
        /\ UNCHANGED <<disk, backend, version, cause>>
    BY <1>6, <2>1, <2>2 DEF Apply
  <2>4. BootInv'
    BY <1>2, <2>1, <2>3 DEF BootInv
  <2>5. SeedsLeft' /\ OpensUnlessBroken'
    BY <2>1, <2>3 DEF SeedsLeft, OpensUnlessBroken
  <2>6. CardsOnDisk' /\ CopiesOnDisk'
    BY <1>2, <2>3, StaysOnDisk DEF Follows, IInv
  <2> QED
    BY <1>1, <2>3, <2>4, <2>5, <2>6 DEF IInv
<1>7. CASE Commit
  <2>1. /\ version \in Versions /\ version \notin disk.recorded /\ backend = "sqlite"
        /\ disk' = Recorded(version, Effect(version, disk))
        /\ \A v \in Versions : v < version => v \in disk.recorded
    BY <1>7 DEF Commit, IInv, BootInv, TypeInv
  <2>2. stage' = "check" /\ version' = version + 1 /\ UNCHANGED <<backend, cause>>
    BY <1>7 DEF Commit
  <2>3. /\ Sound(disk') /\ disk'.recorded = disk.recorded \cup {version}
        /\ Follows(disk, disk')
    BY <1>2, <2>1, MigrationSound DEF Follows, IInv
  <2>4. \A v \in Versions : v < version' => v \in disk'.recorded
    BY <2>1, <2>2, <2>3 DEF Versions
  <2>5. BootInv'
    BY <1>2, <2>1, <2>2, <2>4 DEF BootInv
  <2>6. SeedsLeft' /\ OpensUnlessBroken'
    BY <2>1, <2>2 DEF SeedsLeft, OpensUnlessBroken
  <2>7. CardsOnDisk' /\ CopiesOnDisk'
    BY <1>2, <2>3, StaysOnDisk DEF IInv
  <2> QED
    BY <1>1, <2>3, <2>5, <2>6, <2>7 DEF IInv
<1> QED
  BY <1>3, <1>4, <1>5, <1>6, <1>7

(* One more row follows the others. *)
LEMMA InsertFollows ==
  ASSUME NEW t \in Tables, NEW o \in Offer
  PROVE  /\ Follows(t, Insert(t, o))
         /\ \A id : HasOffer(Insert(t, o), id) <=> HasOffer(t, id) \/ id = o.id
<1>1. t.offers \in Seq(Offer) /\ Insert(t, o).offers = Append(t.offers, o)
  BY InsertType DEF Tables
<1>2. /\ DOMAIN Insert(t, o).offers = DOMAIN t.offers \cup {Len(t.offers) + 1}
      /\ \A i \in DOMAIN t.offers : Insert(t, o).offers[i] = t.offers[i]
      /\ Insert(t, o).offers[Len(t.offers) + 1] = o
  BY <1>1, AppendProperties
<1> QED
  BY <1>2 DEF Follows, HasOffer

(* A turn of the demo market's loops that adds no offer writes a crew. *)
LEMMA CrewWrite ==
  ASSUME NEW t \in Tables, NEW x \in Elems(DemoIds) \cup Elems(CrewIds)
  PROVE  \/ x \in Elems(DemoIds) /\ ~HasOffer(t, x) /\ WithDemo(t, x) = Insert(t, DemoOffer(x))
         \/ WithDemo(t, x) = [t EXCEPT !.crews = WithDemo(t, x).crews]
<1>1. CASE x \in Elems(DemoIds)
  BY <1>1 DEF WithDemo, Tables
<1>2. CASE x \notin Elems(DemoIds)
  <2> DEFINE crew == IF t.crews[x] = "none" THEN "seed" ELSE Merged(t.crews[x], "seed")
  <2>1. WithDemo(t, x) = [t EXCEPT !.crews = [t.crews EXCEPT ![x] = crew]]
    BY <1>2 DEF WithDemo
  <2> HIDE DEF crew
  <2> QED
    BY <2>1 DEF Tables
<1> QED
  BY <1>1, <1>2

(* Seeding inserts what is not there. *)
LEMMA SeedingKeeps ==
  ASSUME IInv, Count \/ Seed \/ Demo \/ Market \/ MarketFails
  PROVE  IInv'
<1>1. TypeInv'
  BY SeedingTypes DEF IInv
<1>2. /\ UNCHANGED <<req, shown, backend, cause, version, tx>> /\ stage # "serving"
      /\ \A r \in Requests : req[r].pc = "idle"
      /\ disk \in Tables /\ Sound(disk) /\ OpensUnlessBroken'
      /\ backend = "sqlite" => Versions \subseteq disk.recorded
  BY DEF Count, Seed, Demo, Market, MarketFails, Write, outside, history, tables, IInv, BootInv, TypeInv, TypeOK,
         OpensUnlessBroken
<1>3. ASSUME stage' \in {"seed", "demo", "market", "serving"}, stage' = "seed" => backend = "sqlite",
             disk'.recorded = disk.recorded
      PROVE  BootInv'
  BY <1>2, <1>3 DEF BootInv
<1>4. ASSUME Follows(disk, disk') PROVE CardsOnDisk' /\ CopiesOnDisk'
  BY <1>2, <1>4, StaysOnDisk DEF IInv
<1>5. ASSUME UNCHANGED disk PROVE Follows(disk, disk')
  BY <1>5 DEF Follows
<1>6. CASE Count
  <2>1. UNCHANGED disk /\ stage' = "seed" /\ backend = "sqlite"
    BY <1>6 DEF Count, tables, IInv, BootInv
  <2> DEFINE a == IF disk.offers = <<>> THEN SeedIds ELSE <<>>
             b == IF disk.static = {} THEN Static ELSE <<>>
  <2>2. /\ todo' = a \o b
        /\ a \in Seq(Ids) /\ b \in Seq(Elems(Static))
    BY <1>6, MarketAssumption DEF Count
  <2>3. \A k \in DOMAIN a : disk.offers = <<>> /\ a = SeedIds
    OBVIOUS
  <2> HIDE DEF a, b
  <2>4. \A k \in DOMAIN todo' : todo'[k] \in Elems(SeedIds) => k \in DOMAIN a /\ todo'[k] = a[k]
    <3>1. ASSUME NEW k \in DOMAIN (a \o b), (a \o b)[k] \in Elems(SeedIds) PROVE k \in DOMAIN a /\ (a \o b)[k] = a[k]
      <4>1. k \in 1 .. Len(a) + Len(b) /\ Len(a) \in Nat /\ Len(b) \in Nat
        BY <2>2
      <4>2. CASE k > Len(a)
        <5>1. (a \o b)[k] = b[k - Len(a)] /\ k - Len(a) \in DOMAIN b
          BY <2>2, <4>1, <4>2
        <5>2. (a \o b)[k] \in Elems(Static) /\ (a \o b)[k] \in Ids
          BY <2>2, <3>1, <5>1, ElemsType, MarketAssumption
        <5> QED
          BY <5>2, MarketAssumption
      <4>3. CASE k <= Len(a)
        BY <2>2, <4>1, <4>3
      <4> QED
        BY <4>1, <4>2, <4>3
    <3> QED
      BY <2>2, <3>1
  <2>5. SeedsLeft'
    BY <2>1, <2>3, <2>4, MarketAssumption DEF SeedsLeft, HasOffer, Distinct
  <2> QED
    BY <1>1, <1>2, <1>3, <1>4, <1>5, <2>1, <2>5 DEF IInv
<1>7. CASE Seed
  <2>1. backend = "sqlite" /\ stage = "seed"
    BY <1>7 DEF Seed, IInv, BootInv
  <2>2. CASE todo = <<>>
    <3>1. UNCHANGED disk /\ stage' = "demo"
      BY <1>7, <2>2 DEF Seed
    <3> QED
      BY <1>1, <1>2, <1>3, <1>4, <1>5, <3>1 DEF IInv, SeedsLeft
  <2>3. CASE todo # <<>>
    <3>1. /\ todo \in Seq(Elems(SeedIds) \cup Elems(Static)) /\ stage' = "seed" /\ todo' = Tail(todo)
          /\ disk' = IF Head(todo) \in Elems(SeedIds) THEN Insert(disk, SeedOffer(Head(todo)))
                     ELSE [disk EXCEPT !.static = disk.static \cup {Head(todo)}]
      BY <1>7, <2>1, <2>3 DEF Seed, IInv, TypeInv
    <3>2. /\ Head(todo) = todo[1] /\ 1 \in DOMAIN todo
          /\ \A k \in DOMAIN todo' : k + 1 \in DOMAIN todo /\ todo'[k] = todo[k + 1] /\ k + 1 # 1
          /\ \A j, k \in DOMAIN todo' : j + 1 = k + 1 => j = k
      BY <2>3, <3>1
    <3>3. CASE Head(todo) \in Elems(SeedIds)
      <4> DEFINE o == SeedOffer(Head(todo))
      <4>1. o \in Offer /\ o.id = Head(todo)
        BY <3>3, ElemsType, SeedsType, MarketAssumption DEF SeedOffer
      <4>2. o.facets = "given" /\ o.title = "german" /\ disk' = Insert(disk, o)
        BY <3>1, <3>3 DEF SeedOffer
      <4> HIDE DEF o
      <4>3. ~HasOffer(disk, o.id)
        BY <2>1, <3>2, <3>3, <4>1 DEF IInv, SeedsLeft
      <4>4. Sound(disk') /\ disk'.recorded = disk.recorded
        BY <1>2, <2>1, <4>1, <4>2, <4>3, InsertSound
      <4>5. Follows(disk, disk') /\ \A id : HasOffer(disk', id) <=> HasOffer(disk, id) \/ id = o.id
        BY <1>2, <4>1, <4>2, InsertFollows
      <4>6. \A k \in DOMAIN todo' : todo'[k] \in Elems(SeedIds) => ~HasOffer(disk', todo'[k])
        BY <2>1, <3>2, <4>1, <4>5 DEF IInv, SeedsLeft
      <4>7. \A j, k \in DOMAIN todo' : todo'[j] = todo'[k] /\ todo'[j] \in Elems(SeedIds) => j = k
        BY <2>1, <3>2 DEF IInv, SeedsLeft
      <4>8. SeedsLeft'
        BY <4>6, <4>7 DEF SeedsLeft
      <4> QED
        BY <1>1, <1>2, <1>3, <1>4, <2>1, <3>1, <4>4, <4>5, <4>8 DEF IInv
    <3>4. CASE Head(todo) \notin Elems(SeedIds)
      <4>1. disk' = [disk EXCEPT !.static = disk.static \cup {Head(todo)}]
        BY <3>1, <3>4
      <4>2. /\ disk'.offers = disk.offers /\ disk'.recorded = disk.recorded /\ disk'.columns = disk.columns
            /\ disk'.unique = disk.unique /\ disk'.triggers = disk.triggers /\ disk'.index = disk.index
            /\ disk'.saved = disk.saved
        BY <1>2, <4>1 DEF Tables
      <4>3. disk' \in Tables /\ EachOnce(disk'.saved)
        BY <1>1, <1>2, <2>1, <4>2 DEF TypeInv, TypeOK, Sound, DoneAsRecorded, Versions
      <4>4. Sound(disk')
        BY <1>2, <2>1, <4>2, <4>3, SameOffersSound
      <4>5. Follows(disk, disk') /\ \A id : HasOffer(disk', id) <=> HasOffer(disk, id)
        BY <4>2 DEF Follows, HasOffer
      <4>6. \A k \in DOMAIN todo' : todo'[k] \in Elems(SeedIds) => ~HasOffer(disk', todo'[k])
        BY <2>1, <3>2, <4>5 DEF IInv, SeedsLeft
      <4>7. \A j, k \in DOMAIN todo' : todo'[j] = todo'[k] /\ todo'[j] \in Elems(SeedIds) => j = k
        BY <2>1, <3>2 DEF IInv, SeedsLeft
      <4>8. SeedsLeft'
        BY <4>6, <4>7 DEF SeedsLeft
      <4> QED
        BY <1>1, <1>2, <1>3, <1>4, <2>1, <3>1, <4>2, <4>4, <4>5, <4>8 DEF IInv
    <3> QED
      BY <3>3, <3>4
  <2> QED
    BY <2>2, <2>3
<1>8. CASE Demo
  BY <1>1, <1>2, <1>3, <1>4, <1>5, <1>8 DEF Demo, tables, SeedsLeft, IInv
<1>9. CASE Market
  <2>1. stage' # "seed" /\ stage' \in {"market", "serving"}
    BY <1>9 DEF Market
  <2>2. CASE todo = <<>> \/ backend = "memory"
    <3>1. UNCHANGED disk
      BY <1>9, <2>2 DEF Market, tables, Write
    <3> QED
      BY <1>1, <1>2, <1>3, <1>4, <1>5, <2>1, <3>1 DEF SeedsLeft, IInv
  <2>3. CASE todo # <<>> /\ backend = "sqlite"
    <3>1. disk' = WithDemo(disk, Head(todo))
      BY <1>9, <2>3 DEF Market, Write, db
    <3>2. Head(todo) \in Elems(DemoIds) \cup Elems(CrewIds)
      BY <1>9, <2>3, HeadTailProperties DEF Market, IInv, TypeInv
    <3>3. CASE /\ Head(todo) \in Elems(DemoIds) /\ ~HasOffer(disk, Head(todo))
               /\ disk' = Insert(disk, DemoOffer(Head(todo)))
      <4> DEFINE o == DemoOffer(Head(todo))
      <4>1. o \in Offer /\ o.id = Head(todo) /\ o.facets = "given" /\ o.title = "german"
        BY <3>3, ElemsType, SeedsType, MarketAssumption DEF DemoOffer
      <4> HIDE DEF o
      <4>2. Sound(disk') /\ disk'.recorded = disk.recorded /\ Follows(disk, disk')
        BY <1>2, <2>3, <3>3, <4>1, InsertSound, InsertFollows DEF o
      <4> QED
        BY <1>1, <1>2, <1>3, <1>4, <2>1, <4>2 DEF SeedsLeft, IInv
    <3>4. CASE disk' = [disk EXCEPT !.crews = disk'.crews]
      <4>1. /\ disk'.offers = disk.offers /\ disk'.recorded = disk.recorded /\ disk'.columns = disk.columns
            /\ disk'.unique = disk.unique /\ disk'.triggers = disk.triggers /\ disk'.index = disk.index
            /\ disk'.saved = disk.saved
        <5> DEFINE c == disk'.crews
        <5>1. disk' = [disk EXCEPT !.crews = c]
          BY <3>4
        <5> HIDE DEF c
        <5> QED
          BY <1>2, <5>1 DEF Tables
      <4>2. disk' \in Tables /\ EachOnce(disk'.saved)
        BY <1>1, <1>2, <2>3, <4>1 DEF TypeInv, TypeOK, Sound, DoneAsRecorded, Versions
      <4>3. Sound(disk')
        BY <1>2, <2>3, <4>1, <4>2, SameOffersSound
      <4>4. Follows(disk, disk')
        BY <4>1 DEF Follows
      <4> QED
        BY <1>1, <1>2, <1>3, <1>4, <2>1, <4>1, <4>3, <4>4 DEF SeedsLeft, IInv
    <3> QED
      BY <1>2, <3>1, <3>2, <3>3, <3>4, CrewWrite
  <2> QED
    BY <1>1, <2>2, <2>3 DEF TypeInv, TypeOK, IInv
<1>10. CASE MarketFails
  BY <1>1, <1>2, <1>3, <1>4, <1>5, <1>10 DEF MarketFails, tables, SeedsLeft, IInv
<1> QED
  BY <1>6, <1>7, <1>8, <1>9, <1>10

(* The process dies, or time passes. *)
LEMMA CrashKeeps ==
  ASSUME IInv, Crash \/ Tick
  PROVE  IInv'
<1>1. TypeInv'
  BY CrashTypes DEF IInv
<1>2. UNCHANGED <<disk, shown>> /\ Follows(disk, disk')
  BY DEF Crash, Tick, tables, history, Follows
<1>3. CASE Crash
  <2>1. stage' = "open" /\ backend' = "sqlite" /\ \A r \in Requests : req'[r].pc = "idle"
    BY <1>3 DEF Crash, Idle
  <2>2. BootInv'
    BY <2>1 DEF BootInv
  <2>3. SeedsLeft' /\ OpensUnlessBroken'
    BY <2>1 DEF SeedsLeft, OpensUnlessBroken
  <2>4. CardsOnDisk' /\ CopiesOnDisk'
    BY <1>2, <2>1, StaysOnDisk DEF IInv
  <2> QED
    BY <1>1, <1>2, <2>2, <2>3, <2>4 DEF IInv
<1>4. CASE Tick
  <2>1. UNCHANGED <<tables, boot, req, cause>>
    BY <1>4 DEF Tick
  <2>2. BootInv' /\ SeedsLeft' /\ OpensUnlessBroken'
    BY <2>1 DEF BootInv, SeedsLeft, OpensUnlessBroken, tables, boot, HasOffer, IInv
  <2>3. CardsOnDisk' /\ CopiesOnDisk'
    BY <1>2, <2>1, StaysOnDisk DEF IInv, tables
  <2> QED
    BY <1>1, <1>2, <2>2, <2>3 DEF IInv
<1> QED
  BY <1>3, <1>4

(* What serving leaves to show: nothing of start-up changes. *)
LEMMA ServingKeeps ==
  ASSUME IInv, TypeInv', NEW r \in Requests, PipelineStep(r) \/ SavingStep(r),
         Sound(disk'), disk'.recorded = disk.recorded, CardsOnDisk', CopiesOnDisk'
  PROVE  IInv'
<1>1. stage = "serving" /\ UNCHANGED <<boot, backend, cause>>
  BY DEF PipelineStep, SavingStep, Create, Click, Advance, Page, Save, Upsert, Find, Trim, Cancel, Accepts,
         pipelineRest, savingRest, Write, tables, IInv, BootInv
<1>2. stage' = "serving" /\ BootInv' /\ SeedsLeft' /\ OpensUnlessBroken'
  BY <1>1 DEF BootInv, SeedsLeft, OpensUnlessBroken, boot, IInv
<1> QED
  BY <1>2 DEF IInv

(* Pages, the form and the buttons. *)
LEMMA PipelineKeeps ==
  ASSUME IInv, NEW r \in Requests, PipelineStep(r)
  PROVE  IInv'
<1>1. TypeInv'
  BY PipelineTypes DEF IInv
<1>2. /\ stage = "serving" /\ UNCHANGED backend
      /\ backend = "sqlite" => Versions \subseteq disk.recorded
      /\ disk \in Tables /\ Sound(disk)
      /\ req \in [Requests -> Request]
      /\ backend \in {"sqlite", "memory"}
  BY DEF PipelineStep, Create, Click, Advance, Page, Accepts, pipelineRest, Write, tables, IInv, BootInv, TypeInv, TypeOK
<1>3. CASE Create(r)
  <2>1. work' \in Nat /\ UNCHANGED shown
    BY <1>1, <1>3 DEF Create, TypeInv
  <2>2. PICK st \in Statuses :
          LET o == [id |-> now % Wrap, name |-> [from |-> "form", nr |-> work'], title |-> "own",
                    facets |-> "unset", status |-> st, progress |-> 0, signal |-> "OK"]
          IN IF CanCreate(db, o.id)
               THEN Write(Insert(db, o)) /\ Continues(r, "page")
               ELSE UNCHANGED <<tables, req>>
    BY <1>3 DEF Create
  <2> DEFINE o == [id |-> now % Wrap, name |-> [from |-> "form", nr |-> work'], title |-> "own",
                   facets |-> "unset", status |-> st, progress |-> 0, signal |-> "OK"]
  <2>3. o \in Offer /\ o.facets = "unset" /\ o.title = "own"
    BY <2>1, FormOffer DEF IInv, TypeInv
  <2>4. \/ CanCreate(db, o.id) /\ Write(Insert(db, o)) /\ Continues(r, "page")
        \/ UNCHANGED <<tables, req>>
    BY <2>2
  <2> HIDE DEF o
  <2>5. CASE backend = "sqlite" /\ CanCreate(db, o.id) /\ Write(Insert(db, o)) /\ Continues(r, "page")
    <3>1. ~HasOffer(disk, o.id) /\ disk' = Insert(disk, o)
      BY <2>5 DEF CanCreate, db, Write
    <3>2. Sound(disk') /\ disk'.recorded = disk.recorded /\ Follows(disk, disk')
      BY <1>2, <2>3, <2>5, <3>1, InsertSound, InsertFollows
    <3>3. \A x \in Requests : req'[x].pc = "update" => req'[x] = req[x]
      BY <1>2, <2>5 DEF Continues, Request
    <3> QED
      BY <1>1, <1>2, <2>1, <3>2, <3>3, StaysOnDisk, ServingKeeps DEF IInv
  <2>6. CASE UNCHANGED disk
    <3>1. \A x \in Requests : req'[x].pc = "update" => req'[x] = req[x]
      BY <1>2, <2>4 DEF Continues, Request
    <3>2. Follows(disk, disk')
      BY <2>6 DEF Follows
    <3> QED
      BY <1>1, <1>2, <2>1, <2>6, <3>1, <3>2, StaysOnDisk, ServingKeeps DEF IInv
  <2> QED
    BY <1>2, <2>4, <2>5, <2>6 DEF Write, tables
<1>4. CASE Click(r)
  <2>1. UNCHANGED <<disk, shown>>
    BY <1>4 DEF Click, tables
  <2>2. CardsOnDisk'
    BY <2>1 DEF CardsOnDisk, OnDisk, IInv
  <2>3. PICK card \in shown, st \in Statuses :
          \/ UNCHANGED req
          \/ /\ HasOffer(db, card.id)
             /\ req' = [req EXCEPT ![r] = [Idle EXCEPT !.pc = "update", !.card = card, !.status = st,
                                                       !.copy = db.offers[RowOf(db, card.id)]]]
    BY <1>4 DEF Click
  <2>4. CASE UNCHANGED req
    <3>1. CopiesOnDisk'
      BY <1>2, <2>1, <2>4 DEF CopiesOnDisk, OnDisk, IInv
    <3> QED
      BY <1>1, <1>2, <2>1, <2>2, <3>1, ServingKeeps DEF IInv
  <2>5. CASE /\ HasOffer(db, card.id)
             /\ req' = [req EXCEPT ![r] = [Idle EXCEPT !.pc = "update", !.card = card, !.status = st,
                                                       !.copy = db.offers[RowOf(db, card.id)]]]
    <3>1. \A x \in Requests \ {r} : req'[x] = req[x]
      BY <1>2, <2>5
    <3>2. req'[r].copy = db.offers[RowOf(db, card.id)]
      BY <1>2, <2>5 DEF Idle
    <3>3. ASSUME backend = "sqlite" PROVE
             /\ OnDisk(req'[r].copy.id, req'[r].copy.name)
             /\ req'[r].copy.facets \notin {"absent", "default"} /\ req'[r].copy.title # "english"
      <4>1. PICK i \in DOMAIN disk.offers : req'[r].copy = disk.offers[i]
        BY <1>2, <2>5, <3>2, <3>3, RowOfHas DEF db
      <4> QED
        BY <1>2, <3>3, <4>1 DEF OnDisk, Sound, DoneAsRecorded, Versions
    <3>4. CopiesOnDisk'
      BY <1>2, <2>1, <3>1, <3>3 DEF CopiesOnDisk, OnDisk, IInv
    <3> QED
      BY <1>1, <1>2, <2>1, <2>2, <3>4, ServingKeeps DEF IInv
  <2> QED
    BY <2>3, <2>4, <2>5
<1>5. CASE Advance(r)
  <2> DEFINE o == Moved(req[r].copy, req[r].status)
  <2>1. /\ Write(Update(db, [db.offers EXCEPT ![RowOf(db, o.id)] = o]))
        /\ req' = [req EXCEPT ![r] = [Idle EXCEPT !.pc = "page"]] /\ UNCHANGED shown
        /\ req[r].pc = "update"
    BY <1>5 DEF Advance
  <2>2. \A x \in Requests : req'[x].pc = "update" => req'[x] = req[x]
    BY <1>2, <2>1 DEF Idle
  <2>3. CASE backend = "memory"
    <3>1. UNCHANGED disk /\ Follows(disk, disk')
      BY <2>1, <2>3 DEF Write, Follows
    <3> QED
      BY <1>1, <1>2, <2>1, <2>2, <3>1, StaysOnDisk, ServingKeeps DEF IInv
  <2>4. CASE backend = "sqlite"
    <3>1. /\ o \in Offer /\ OnDisk(o.id, o.name) /\ o.facets \notin {"absent", "default"} /\ o.title # "english"
      <4>1. req[r].copy \in Offer /\ req[r].status \in Statuses
        BY <1>2 DEF Request
      <4>2. /\ OnDisk(req[r].copy.id, req[r].copy.name)
            /\ req[r].copy.facets \notin {"absent", "default"} /\ req[r].copy.title # "english"
        BY <2>1, <2>4 DEF CopiesOnDisk, IInv
      <4>3. o \in Offer /\ o.id = req[r].copy.id /\ o.name = req[r].copy.name
            /\ o.title = req[r].copy.title /\ o.facets = req[r].copy.facets
        BY <4>1, MovedType
      <4> HIDE DEF o
      <4> QED
        BY <4>2, <4>3
    <3> HIDE DEF o
    <3> DEFINE at == RowOf(disk, o.id)
               rows == [disk.offers EXCEPT ![at] = o]
    <3>2. at \in DOMAIN disk.offers /\ disk.offers[at].id = o.id
      BY <1>2, <3>1, RowOfHas DEF OnDisk, HasOffer
    <3>3. disk.offers[at].name = o.name
      BY <1>2, <3>1, <3>2 DEF OnDisk, Sound, UniqueIds
    <3>4. disk' = Update(disk, rows)
      BY <2>1, <2>4 DEF Write, db
    <3>5. /\ rows \in [DOMAIN disk.offers -> Offer]
          /\ \A i \in DOMAIN disk.offers : rows[i].id = disk.offers[i].id /\ rows[i].name = disk.offers[i].name
          /\ \A i \in DOMAIN disk.offers : rows[i] = o \/ rows[i] = disk.offers[i]
      <4>1. disk.offers \in [DOMAIN disk.offers -> Offer]
        BY <1>2 DEF Tables
      <4> QED
        BY <3>1, <3>2, <3>3, <4>1
    <3> HIDE DEF rows, at
    <3>6. /\ Indexes(disk') /\ UniqueIds(disk') /\ disk'.offers = rows /\ disk'.recorded = disk.recorded
          /\ disk'.columns = disk.columns /\ disk'.unique = disk.unique /\ disk'.triggers = disk.triggers
          /\ disk'.saved = disk.saved
      BY <1>2, <3>4, <3>5, UpdateIndexes DEF Sound
    <3>7. Follows(disk, disk')
      BY <3>5, <3>6 DEF Follows
    <3>8. DoneAsRecorded(disk')
      BY <1>2, <2>4, <3>1, <3>5, <3>6 DEF Sound, DoneAsRecorded, Versions
    <3>9. InOrder(disk') /\ SavedIds(disk') /\ EnglishSeeds(disk')
      BY <1>2, <3>1, <3>5, <3>6 DEF Sound, InOrder, SavedIds, EnglishSeeds
    <3>10. Sound(disk')
      BY <3>6, <3>8, <3>9 DEF Sound
    <3> QED
      BY <1>1, <1>2, <2>1, <2>2, <3>6, <3>7, <3>10, StaysOnDisk, ServingKeeps DEF IInv
  <2> QED
    BY <1>2, <2>3, <2>4
<1>6. CASE Page(r)
  <2>1. UNCHANGED disk /\ Returns(r)
        /\ shown' = shown \cup {[id |-> db.offers[i].id, name |-> db.offers[i].name, store |-> backend] :
                                  i \in DOMAIN db.offers}
    BY <1>6 DEF Page, tables
  <2>2. CardsOnDisk'
    <3>1. ASSUME NEW card \in shown', card.store = "sqlite"
          PROVE  \E i \in DOMAIN disk.offers : disk.offers[i].id = card.id /\ disk.offers[i].name = card.name
      <4>1. CASE card \in shown
        BY <3>1, <4>1 DEF IInv, CardsOnDisk, OnDisk
      <4>2. CASE card \notin shown
        <5>1. PICK i \in DOMAIN db.offers :
                card = [id |-> db.offers[i].id, name |-> db.offers[i].name, store |-> backend]
          BY <2>1, <4>2
        <5> QED
          BY <3>1, <5>1 DEF db
      <4> QED
        BY <4>1, <4>2
    <3> QED
      BY <2>1, <3>1 DEF CardsOnDisk, OnDisk
  <2>3. \A x \in Requests : req'[x].pc = "update" => req'[x] = req[x]
    BY <1>2, <2>1 DEF Returns, Idle
  <2>4. CopiesOnDisk'
    BY <1>2, <2>1, <2>3 DEF CopiesOnDisk, OnDisk, IInv
  <2> QED
    BY <1>1, <1>2, <2>1, <2>2, <2>4, ServingKeeps DEF IInv
<1> QED
  BY <1>3, <1>4, <1>5, <1>6 DEF PipelineStep

(* A saved search is renewed in its row, or added. *)
LEMMA RenewOnce ==
  ASSUME NEW t \in Tables, EachOnce(t.saved), NEW q \in Queries, NEW time \in Nat
  PROVE  /\ EachOnce(Renew(t, q, time).saved)
         /\ Renew(t, q, time) = [t EXCEPT !.saved = Renew(t, q, time).saved, !.nextId = Renew(t, q, time).nextId]
<1>1. t.saved \in SUBSET Saved
  BY DEF Tables
<1>2. CASE \E s \in t.saved : s.query = q
  <2> DEFINE renewed == {IF s.query = q THEN [s EXCEPT !.at = time] ELSE s : s \in t.saved}
  <2>1. Renew(t, q, time) = [t EXCEPT !.saved = renewed]
    BY <1>2 DEF Renew
  <2>2. EachOnce(renewed)
    <3> SUFFICES ASSUME NEW a \in renewed, NEW b \in renewed, a.query = b.query PROVE a = b
      BY DEF EachOnce
    <3>1. PICK s \in t.saved : a = IF s.query = q THEN [s EXCEPT !.at = time] ELSE s
      OBVIOUS
    <3>2. PICK u \in t.saved : b = IF u.query = q THEN [u EXCEPT !.at = time] ELSE u
      OBVIOUS
    <3>3. a.query = s.query /\ b.query = u.query
      BY <1>1, <3>1, <3>2 DEF Saved
    <3>4. s = u
      BY <3>3 DEF EachOnce
    <3> QED
      BY <3>1, <3>2, <3>4
  <2> HIDE DEF renewed
  <2> QED
    BY <2>1, <2>2 DEF Tables
<1>3. CASE ~(\E s \in t.saved : s.query = q)
  <2> DEFINE new == [query |-> q, id |-> t.nextId, at |-> time]
  <2>1. Renew(t, q, time) = [t EXCEPT !.saved = t.saved \cup {new}, !.nextId = t.nextId + 1]
    BY <1>3 DEF Renew
  <2>2. EachOnce(t.saved \cup {new})
    BY <1>3 DEF EachOnce
  <2> HIDE DEF new
  <2> QED
    BY <2>1, <2>2 DEF Tables
<1> QED
  BY <1>2, <1>3

(* Saving a search leaves the offers alone, and no search twice. *)
LEMMA SavingKeeps ==
  ASSUME IInv, NEW r \in Requests, SavingStep(r)
  PROVE  IInv'
<1>1. TypeInv'
  BY SavingTypes DEF IInv
<1>2. /\ stage = "serving" /\ UNCHANGED <<backend, shown>>
      /\ backend = "sqlite" => Versions \subseteq disk.recorded
      /\ disk \in Tables /\ Sound(disk)
      /\ req \in [Requests -> Request]
      /\ backend \in {"sqlite", "memory"}
  BY DEF SavingStep, Save, Upsert, Find, Trim, Cancel, savingRest, Write, tables, IInv, BootInv, TypeInv, TypeOK
<1>3. \A x \in Requests : req'[x].pc = "update" => req'[x] = req[x]
  <2>1. PICK own \in Request : req' = [req EXCEPT ![r] = own] /\ own.pc # "update"
    <3>1. \A step \in {"find", "trim"} : [req[r] EXCEPT !.pc = step] \in Request
      BY <1>2 DEF Request
    <3>2. Idle \in Request /\ Idle.pc = "idle"
      BY IdleRequest DEF Idle
    <3>3. CASE Save(r)
      <4>1. PICK q \in Queries : req' = [req EXCEPT ![r] = [Idle EXCEPT !.pc = "upsert", !.query = q, !.at = now]]
        BY <3>3 DEF Save
      <4>2. now \in 0 .. MaxNow
        BY DEF IInv, TypeInv, TypeOK
      <4>3. [Idle EXCEPT !.pc = "upsert", !.query = q, !.at = now] \in Request
        BY <4>2, IdleRequest DEF Request
      <4>4. [Idle EXCEPT !.pc = "upsert", !.query = q, !.at = now].pc = "upsert"
        BY DEF Idle
      <4> QED
        BY <4>1, <4>3, <4>4
    <3>4. CASE Returns(r)
      BY <3>2, <3>4 DEF Returns
    <3>5. ASSUME NEW step \in {"find", "trim"}, Continues(r, step)
          PROVE  \E own \in Request : req' = [req EXCEPT ![r] = own] /\ own.pc # "update"
      <4>1. req' = [req EXCEPT ![r] = [req[r] EXCEPT !.pc = step]]
        BY <3>5 DEF Continues
      <4>2. [req[r] EXCEPT !.pc = step].pc # "update"
        BY <1>2 DEF Request
      <4> QED
        BY <3>1, <4>1, <4>2
    <3> QED
      BY <3>3, <3>4, <3>5 DEF SavingStep, Upsert, Find, Trim, Cancel
  <2> QED
    BY <1>2, <2>1
<1>4. ASSUME UNCHANGED disk PROVE IInv'
  <2>1. Follows(disk, disk')
    BY <1>4 DEF Follows
  <2> QED
    BY <1>1, <1>2, <1>3, <1>4, <2>1, StaysOnDisk, ServingKeeps DEF IInv
<1>5. ASSUME backend = "sqlite", NEW saved, NEW n, disk' = [disk EXCEPT !.saved = saved, !.nextId = n], EachOnce(saved)
      PROVE  IInv'
  <2>1. /\ disk'.offers = disk.offers /\ disk'.recorded = disk.recorded /\ disk'.columns = disk.columns
        /\ disk'.unique = disk.unique /\ disk'.triggers = disk.triggers /\ disk'.index = disk.index
        /\ disk'.saved = saved
    BY <1>2, <1>5 DEF Tables
  <2>2. disk' \in Tables
    BY <1>1 DEF TypeInv, TypeOK
  <2>3. Sound(disk')
    <3>1. EachOnce(disk'.saved)
      BY <1>5, <2>1
    <3>2. Versions \subseteq disk.recorded
      BY <1>2, <1>5
    <3> QED
      BY <1>2, <2>1, <2>2, <3>1, <3>2, SameOffersSound
  <2>4. Follows(disk, disk')
    BY <2>1 DEF Follows
  <2> QED
    BY <1>1, <1>2, <1>3, <2>1, <2>3, <2>4, StaysOnDisk, ServingKeeps DEF IInv
<1>6. backend = "sqlite" => EachOnce(disk.saved)
  BY <1>2 DEF Sound, DoneAsRecorded, Versions
<1>7. CASE Save(r) \/ Find(r) \/ Cancel(r)
  BY <1>4, <1>7 DEF Save, Find, Cancel, tables
<1>8. CASE Upsert(r)
  <2>1. CASE backend = "sqlite"
    <3> DEFINE t == Renew(disk, req[r].query, req[r].at)
    <3>1. disk' = t
      BY <1>8, <2>1 DEF Upsert, Write, db
    <3>2. req[r].query \in Queries /\ req[r].at \in Nat
      BY <1>2 DEF Request
    <3>3. EachOnce(t.saved) /\ t = [disk EXCEPT !.saved = t.saved, !.nextId = t.nextId]
      BY <1>2, <1>6, <2>1, <3>2, RenewOnce
    <3> HIDE DEF t
    <3> QED
      BY <1>5, <2>1, <3>1, <3>3
  <2>2. CASE backend = "memory"
    BY <1>4, <1>8, <2>2 DEF Upsert, Write
  <2> QED
    BY <1>2, <2>1, <2>2
<1>9. CASE Trim(r)
  <2>1. CASE backend = "sqlite"
    <3>1. disk' = [disk EXCEPT !.saved = Kept(disk.saved)]
      BY <1>9, <2>1 DEF Trim, Write, db
    <3>2. EachOnce(Kept(disk.saved))
      BY <1>2, <1>6, <2>1, CappedType DEF EachOnce
    <3>3. disk' = [disk EXCEPT !.saved = Kept(disk.saved), !.nextId = disk.nextId]
      BY <1>2, <3>1 DEF Tables
    <3> QED
      BY <1>5, <2>1, <3>2, <3>3
  <2>2. CASE backend = "memory"
    BY <1>4, <1>9, <2>2 DEF Trim, Write
  <2> QED
    BY <1>2, <2>1, <2>2
<1> QED
  BY <1>7, <1>8, <1>9 DEF SavingStep

(* The steps together. *)
LEMMA InvNext == IInv /\ [Next]_vars => IInv'
<1> SUFFICES ASSUME IInv, [Next]_vars PROVE IInv'
  OBVIOUS
<1>1. CASE Next
  BY <1>1, BootKeeps, SeedingKeeps, CrashKeeps, PipelineKeeps, SavingKeeps DEF Next, StartStep
<1>2. CASE UNCHANGED vars
  <2>1. TypeInv'
    BY <1>2, TypeNext DEF IInv
  <2>2. UNCHANGED <<tables, boot, req, shown, cause>>
    BY <1>2 DEF vars, history
  <2>3. UNCHANGED <<disk, tx, backend, stage, version, todo>>
    BY <2>2 DEF tables, boot
  <2>4. BootInv' /\ SeedsLeft' /\ OpensUnlessBroken' /\ CardsOnDisk' /\ CopiesOnDisk'
    BY <2>2, <2>3 DEF BootInv, SeedsLeft, OpensUnlessBroken, HasOffer, CardsOnDisk, CopiesOnDisk, OnDisk, IInv
  <2> QED
    BY <2>1, <2>3, <2>4 DEF IInv
<1> QED
  BY <1>1, <1>2

(* The invariant holds of every behaviour. *)
LEMMA Invariance == Spec => []IInv
BY InvInit, InvNext, PTL DEF Spec

----------------------------------------------------------------------------
\* Theorems

(* However often migrations are interrupted, one is recorded exactly when  *)
(* its work is in the tables: both are committed together.                  *)
THEOREM MigrationsAreWhole == Spec => []RecordedIsDone
<1>1. IInv => RecordedIsDone
  BY DEF IInv, Sound, DoneAsRecorded, RecordedIsDone
<1> QED
  BY <1>1, Invariance, PTL

(* Start-up falls back to memory for a failing disk only: on no file of an *)
(* older release, and after no restart, does a migration fail.              *)
THEOREM MigrationsApply == Spec => []OpensUnlessBroken
<1>1. IInv => OpensUnlessBroken
  BY DEF IInv
<1> QED
  BY <1>1, Invariance, PTL

(* The triggers and the rebuilding migration keep the full-text index at   *)
(* what the offers say, whatever updates, moves and restarts come.          *)
THEOREM IndexIsTrue == Spec => []IndexFollowsTable
<1>1. IInv => IndexFollowsTable
  BY DEF IInv, Sound, Indexes, IndexFollowsTable
<1> QED
  BY <1>1, Invariance, PTL

(* A card that SQLite filled means one offer for good: its row stays, ids  *)
(* are unique, and an id that time gives again creates nothing.             *)
THEOREM CardsMeanOneOffer == Spec => []CardsAreNeverMistaken
<1>1. IInv => CardsAreNeverMistaken
  <2> SUFFICES ASSUME IInv, NEW card \in shown, card.store = "sqlite", NEW i \in DOMAIN disk.offers,
                      disk.offers[i].id = card.id
               PROVE  disk.offers[i].name = card.name
    BY DEF CardsAreNeverMistaken
  <2>1. PICK j \in DOMAIN disk.offers : disk.offers[j].id = card.id /\ disk.offers[j].name = card.name
    BY DEF IInv, CardsOnDisk, OnDisk
  <2>2. i = j
    BY <2>1 DEF IInv, Sound, UniqueIds
  <2> QED
    BY <2>1, <2>2
<1> QED
  BY <1>1, Invariance, PTL

----------------------------------------------------------------------------
\* What is being moved

(* A button's copy of an offer is of the row it will be written to.         *)
CopiesNamed ==
  \A r \in Requests : req[r].pc = "update" =>
    HasOffer(db, req[r].copy.id) /\ db.offers[RowOf(db, req[r].copy.id)].name = req[r].copy.name

(* The first row with an id stays the first, since rows are added behind.   *)
LEMMA RowOfStays ==
  ASSUME NEW t \in Tables, NEW u \in Tables, Follows(t, u), NEW id, HasOffer(t, id)
  PROVE  /\ HasOffer(u, id) /\ RowOf(u, id) = RowOf(t, id)
         /\ u.offers[RowOf(u, id)].name = t.offers[RowOf(t, id)].name
<1> DEFINE rows(x) == {i \in DOMAIN x.offers : x.offers[i].id = id}
           First(x, i) == /\ i \in DOMAIN x.offers
                          /\ x.offers[i].id = id
                          /\ \A j \in DOMAIN x.offers : x.offers[j].id = id => i <= j
<1>1. /\ DOMAIN t.offers = 1 .. Len(t.offers) /\ Len(t.offers) \in Nat
      /\ DOMAIN u.offers = 1 .. Len(u.offers) /\ Len(u.offers) \in Nat
  BY DEF Tables
<1>2. rows(t) \in SUBSET Nat /\ rows(t) # {}
  BY <1>1 DEF HasOffer
<1>3. PICK f \in rows(t) : \A j \in rows(t) : f <= j
  BY <1>2, LeastNumber
<1>4. First(t, f)
  BY <1>3
<1>5. First(u, f)
  <2>1. f \in DOMAIN u.offers /\ u.offers[f].id = id
    BY <1>4 DEF Follows
  <2>2. ASSUME NEW j \in DOMAIN u.offers, u.offers[j].id = id PROVE f <= j
    <3>1. CASE j \in DOMAIN t.offers
      BY <1>4, <2>2, <3>1 DEF Follows
    <3>2. CASE j \notin DOMAIN t.offers
      BY <1>1, <1>4, <3>2
    <3> QED
      BY <3>1, <3>2
  <2> QED
    BY <2>1, <2>2
<1>6. \A i : (First(t, i) => i = f) /\ (First(u, i) => i = f)
  BY <1>1, <1>4, <1>5
<1>7. RowOf(t, id) = f /\ RowOf(u, id) = f
  <2>1. RowOf(t, id) = CHOOSE i \in DOMAIN t.offers :
          t.offers[i].id = id /\ \A j \in DOMAIN t.offers : t.offers[j].id = id => i <= j
    BY DEF RowOf
  <2>2. RowOf(u, id) = CHOOSE i \in DOMAIN u.offers :
          u.offers[i].id = id /\ \A j \in DOMAIN u.offers : u.offers[j].id = id => i <= j
    BY DEF RowOf
  <2>3. First(t, RowOf(t, id))
    BY <1>4, <2>1
  <2>4. First(u, RowOf(u, id))
    BY <1>5, <2>2
  <2> HIDE DEF First
  <2> QED
    BY <1>6, <2>3, <2>4
<1> QED
  BY <1>4, <1>5, <1>7 DEF Follows, HasOffer

(* Writing a row back under its id and its name leaves the others alone.    *)
LEMMA RowWritten ==
  ASSUME NEW t \in Tables, NEW o \in Offer, HasOffer(t, o.id), t.offers[RowOf(t, o.id)].name = o.name
  PROVE  LET u == Update(t, [t.offers EXCEPT ![RowOf(t, o.id)] = o])
         IN  /\ u \in Tables /\ Follows(t, u) /\ DOMAIN u.offers = DOMAIN t.offers
             /\ \A i \in DOMAIN t.offers : u.offers[i] = IF i = RowOf(t, o.id) THEN o ELSE t.offers[i]
             /\ u.crews = t.crews /\ u.saved = t.saved /\ u.nextId = t.nextId
<1> DEFINE at == RowOf(t, o.id)
           rows == [t.offers EXCEPT ![at] = o]
           u == Update(t, rows)
<1>1. at \in DOMAIN t.offers /\ t.offers[at].id = o.id /\ t.offers \in [DOMAIN t.offers -> Offer]
  BY RowOfHas DEF Tables
<1>2. /\ rows \in [DOMAIN t.offers -> Offer]
      /\ \A i \in DOMAIN t.offers : rows[i] = IF i = at THEN o ELSE t.offers[i]
  BY <1>1
<1>3. t.offers[at].name = o.name
  OBVIOUS
<1> HIDE DEF rows, at
<1>4. u \in Tables /\ u.offers = rows
  BY <1>2, UpdateType
<1>5. u.crews = t.crews /\ u.saved = t.saved /\ u.nextId = t.nextId
  BY DEF Update, Tables
<1> HIDE DEF u
<1>6. Follows(t, u) /\ DOMAIN u.offers = DOMAIN t.offers
  BY <1>1, <1>2, <1>3, <1>4 DEF Follows
<1> QED
  BY <1>2, <1>4, <1>5, <1>6 DEF u, rows, at

(* The offer a button writes. *)
LEMMA AdvanceRow ==
  ASSUME IInv, CopiesNamed, NEW r \in Requests, Advance(r)
  PROVE  LET o == Moved(req[r].copy, req[r].status)
         IN  /\ o \in Offer /\ HasOffer(db, o.id) /\ db.offers[RowOf(db, o.id)].name = o.name
             /\ o.status = "done" => o.progress = 100 /\ o.signal = "Review"
             /\ o.status = "open" => o.signal = "OK"
<1>1. req[r].copy \in Offer /\ req[r].status \in Statuses /\ req[r].pc = "update"
  BY DEF IInv, TypeInv, TypeOK, Request, Advance
<1> DEFINE o == Moved(req[r].copy, req[r].status)
<1>2. /\ o \in Offer /\ o.id = req[r].copy.id /\ o.name = req[r].copy.name
      /\ o.status = "done" => o.progress = 100 /\ o.signal = "Review"
      /\ o.status = "open" => o.signal = "OK"
  BY <1>1, MovedType
<1> HIDE DEF o
<1> QED
  BY <1>1, <1>2 DEF CopiesNamed, o

(* While the process serves, no offer leaves the tables in use or becomes  *)
(* another, and crews stay.                                                 *)
LEMMA ServingFollows ==
  ASSUME IInv, CopiesNamed, NEW r \in Requests, PipelineStep(r) \/ SavingStep(r)
  PROVE  /\ stage = "serving" /\ UNCHANGED <<boot, backend>>
         /\ db \in Tables /\ db' \in Tables /\ Follows(db, db') /\ db'.crews = db.crews
<1>1. stage = "serving" /\ UNCHANGED <<boot, backend>>
  BY DEF PipelineStep, SavingStep, Create, Click, Advance, Page, Save, Upsert, Find, Trim, Cancel, Accepts,
         pipelineRest, savingRest, Write, tables, IInv, BootInv
<1>2. TypeOK /\ db \in Tables /\ req[r] \in Request
  BY DbType DEF IInv, TypeInv, TypeOK
<1>3. ASSUME NEW t \in Tables, Write(t), Follows(db, t), t.crews = db.crews
      PROVE  db' \in Tables /\ Follows(db, db') /\ db'.crews = db.crews
  BY <1>2, <1>3, WriteType
<1>4. ASSUME UNCHANGED tables PROVE db' \in Tables /\ Follows(db, db') /\ db'.crews = db.crews
  BY <1>2, <1>4 DEF tables, db, Follows
<1>5. CASE Create(r)
  <2> DEFINE o(st) == [id |-> now % Wrap, name |-> [from |-> "form", nr |-> work'], title |-> "own",
                       facets |-> "unset", status |-> st, progress |-> 0, signal |-> "OK"]
  <2>1. PICK st \in Statuses : Write(Insert(db, o(st))) \/ UNCHANGED tables
    BY <1>5 DEF Create
  <2>2. o(st) \in Offer
    BY <1>2, <1>5, FormOffer DEF Create, Accepts, IInv, TypeInv
  <2> HIDE DEF o
  <2>3. Insert(db, o(st)) \in Tables /\ Follows(db, Insert(db, o(st)))
    BY <1>2, <2>2, InsertType, InsertFollows
  <2>4. Insert(db, o(st)).crews = db.crews
    BY <1>2 DEF Insert, Tables
  <2> QED
    BY <1>1, <1>2, <1>3, <1>4, <2>1, <2>3, <2>4
<1>6. CASE Advance(r)
  <2> DEFINE o == Moved(req[r].copy, req[r].status)
             t == Update(db, [db.offers EXCEPT ![RowOf(db, o.id)] = o])
  <2>1. o \in Offer /\ HasOffer(db, o.id) /\ db.offers[RowOf(db, o.id)].name = o.name
    BY <1>6, AdvanceRow
  <2>2. Write(t)
    BY <1>6 DEF Advance
  <2> HIDE DEF o
  <2>3. t \in Tables /\ Follows(db, t) /\ t.crews = db.crews
    BY <1>2, <2>1, RowWritten
  <2> QED
    BY <1>1, <1>2, <1>3, <2>2, <2>3
<1>7. CASE Upsert(r)
  <2> DEFINE t == Renew(db, req[r].query, req[r].at)
             c == [t EXCEPT !.saved = Kept(t.saved)]
  <2>1. Write(t) \/ Write(c)
    BY <1>7 DEF Upsert
  <2>2. t \in Tables /\ t.offers = db.offers
    BY <1>2, RenewType DEF Request
  <2>3. t.crews = db.crews
    BY <1>2 DEF Renew, Tables
  <2> HIDE DEF t
  <2>4. c \in Tables /\ c.offers = t.offers /\ c.crews = t.crews
    BY <2>2, CappedType DEF Tables
  <2> QED
    BY <1>1, <1>2, <1>3, <2>1, <2>2, <2>3, <2>4 DEF Follows
<1>8. CASE Trim(r)
  <2> DEFINE c == [db EXCEPT !.saved = Kept(db.saved)]
  <2>1. c \in Tables /\ c.offers = db.offers /\ c.crews = db.crews
    BY <1>2, CappedType DEF Tables
  <2> QED
    BY <1>1, <1>2, <1>3, <1>8, <2>1 DEF Trim, Follows
<1>9. CASE Click(r) \/ Page(r) \/ Save(r) \/ Find(r) \/ Cancel(r)
  BY <1>1, <1>2, <1>4, <1>9 DEF Click, Page, Save, Find, Cancel
<1> QED
  BY <1>5, <1>6, <1>7, <1>8, <1>9 DEF PipelineStep, SavingStep

(* Which step of a request makes a copy, and which keep theirs. *)
LEMMA CopySteps ==
  ASSUME IInv, NEW r \in Requests, PipelineStep(r) \/ SavingStep(r), NEW x \in Requests,
         req'[x].pc = "update"
  PROVE  \/ req'[x] = req[x]
         \/ /\ UNCHANGED tables
            /\ \E card \in shown : HasOffer(db, card.id) /\ req'[x].copy = db.offers[RowOf(db, card.id)]
<1>1. req \in [Requests -> Request]
  BY DEF IInv, TypeInv, TypeOK
<1>2. CASE Click(r)
  <2>1. PICK card \in shown, st \in Statuses :
          \/ UNCHANGED req
          \/ /\ HasOffer(db, card.id)
             /\ req' = [req EXCEPT ![r] = [Idle EXCEPT !.pc = "update", !.card = card, !.status = st,
                                                       !.copy = db.offers[RowOf(db, card.id)]]]
    BY <1>2 DEF Click
  <2>2. UNCHANGED tables
    BY <1>2 DEF Click
  <2> QED
    BY <1>1, <2>1, <2>2 DEF Idle
<1>3. ASSUME NEW step \in {"page", "find", "trim"}, Continues(r, step) PROVE req'[x] = req[x]
  <2>1. req' = [req EXCEPT ![r] = [req[r] EXCEPT !.pc = step]]
    BY <1>3 DEF Continues
  <2>2. [req[r] EXCEPT !.pc = step].pc = step
    BY <1>1 DEF Request
  <2> QED
    BY <1>1, <2>1, <2>2
<1>4. ASSUME Returns(r) PROVE req'[x] = req[x]
  BY <1>1, <1>4 DEF Returns, Idle
<1>5. ASSUME UNCHANGED req PROVE req'[x] = req[x]
  BY <1>5
<1>6. CASE Create(r)
  BY <1>3, <1>5, <1>6 DEF Create
<1>7. CASE Advance(r)
  BY <1>1, <1>7 DEF Advance, Idle
<1>8. CASE Save(r)
  <2>1. PICK q \in Queries : req' = [req EXCEPT ![r] = [Idle EXCEPT !.pc = "upsert", !.query = q, !.at = now]]
    BY <1>8 DEF Save
  <2>2. [Idle EXCEPT !.pc = "upsert", !.query = q, !.at = now].pc = "upsert"
    BY DEF Idle
  <2> QED
    BY <1>1, <2>1, <2>2
<1>9. CASE Page(r) \/ Upsert(r) \/ Find(r) \/ Trim(r) \/ Cancel(r)
  BY <1>3, <1>4, <1>9 DEF Page, Upsert, Find, Trim, Cancel
<1> QED
  BY <1>2, <1>6, <1>7, <1>8, <1>9 DEF PipelineStep, SavingStep

(* Start-up leaves requests alone, and there are none. *)
LEMMA BootSteps ==
  ASSUME IInv, StartStep
  PROVE  stage # "serving" /\ \A r \in Requests : req[r].pc = "idle" /\ req'[r].pc = "idle"
BY DEF StartStep, Open, OpenFails, Check, Apply, Commit, Count, Seed, Demo, Market, MarketFails, outside,
       IInv, BootInv

(* Copies keep naming their rows: rows stay where they are. *)
LEMMA CopiesNamedNext == IInv /\ CopiesNamed /\ [Next]_vars => CopiesNamed'
<1> SUFFICES ASSUME IInv, CopiesNamed, [Next]_vars, NEW x \in Requests, req'[x].pc = "update"
             PROVE  HasOffer(db, req[x].copy.id)' /\ db'.offers[RowOf(db, req[x].copy.id)'].name = req'[x].copy.name
  BY DEF CopiesNamed
<1>1. CASE StartStep
  BY <1>1, BootSteps
<1>2. CASE Crash
  BY <1>2 DEF Crash, Idle
<1>3. CASE Tick \/ UNCHANGED vars
  <2>1. UNCHANGED <<tables, req>>
    BY <1>3 DEF Tick, vars
  <2> QED
    BY <2>1 DEF CopiesNamed, tables, db, HasOffer, RowOf
<1>4. ASSUME NEW r \in Requests, PipelineStep(r) \/ SavingStep(r)
      PROVE  HasOffer(db, req[x].copy.id)' /\ db'.offers[RowOf(db, req[x].copy.id)'].name = req'[x].copy.name
  <2>1. db \in Tables /\ db' \in Tables /\ Follows(db, db')
    BY <1>4, ServingFollows
  <2> DEFINE id == req'[x].copy.id
  <2>2. HasOffer(db, id) /\ db.offers[RowOf(db, id)].name = req'[x].copy.name
    <3>1. CASE req'[x] = req[x]
      BY <3>1 DEF CopiesNamed
    <3>2. ASSUME NEW card \in shown, HasOffer(db, card.id), req'[x].copy = db.offers[RowOf(db, card.id)]
          PROVE  HasOffer(db, id) /\ db.offers[RowOf(db, id)].name = req'[x].copy.name
      <4>1. id = card.id
        BY <2>1, <3>2, RowOfHas
      <4> QED
        BY <3>2, <4>1
    <3> QED
      BY <1>4, <3>1, <3>2, CopySteps
  <2> HIDE DEF id
  <2>3. HasOffer(db', id) /\ db'.offers[RowOf(db', id)].name = req'[x].copy.name
    BY <2>1, <2>2, RowOfStays
  <2> QED
    BY <2>3 DEF id, HasOffer, RowOf
<1> QED
  BY <1>1, <1>2, <1>3, <1>4 DEF Next

(* There are none at first. *)
LEMMA CopiesNamedInit == Init => CopiesNamed
BY DEF Init, CopiesNamed, Idle

----------------------------------------------------------------------------
\* The demo market

(* What is not there yet is left to insert, also when seeding gives up and *)
(* the process serves what there is.                                        *)
DemoInv ==
  stage \in {"market", "serving"} /\ demoOn =>
    /\ \A x \in Elems(DemoIds) : HasOffer(db, x) \/ x \in Elems(todo)
    /\ \A c \in Elems(CrewIds) : db.crews[c] # "none" \/ c \in Elems(todo)

(* The elements of a sequence are its head and those of its tail. *)
LEMMA ElemsOfTail ==
  ASSUME NEW S, NEW s \in Seq(S), s # <<>>, NEW x \in Elems(s)
  PROVE  x = Head(s) \/ x \in Elems(Tail(s))
<1>1. PICK i \in DOMAIN s : x = s[i]
  BY DEF Elems
<1>2. CASE i = 1
  BY <1>1, <1>2
<1>3. CASE i # 1
  <2>1. i - 1 \in DOMAIN Tail(s) /\ Tail(s)[i - 1] = s[i]
    BY <1>3
  <2> QED
    BY <1>1, <2>1 DEF Elems
<1> QED
  BY <1>2, <1>3

(* The elements of two lists are those of either. *)
LEMMA ElemsOfConcat ==
  ASSUME NEW S, NEW s \in Seq(S), NEW u \in Seq(S)
  PROVE  Elems(s) \subseteq Elems(s \o u) /\ Elems(u) \subseteq Elems(s \o u)
<1>1. \A i \in DOMAIN s : i \in DOMAIN (s \o u) /\ (s \o u)[i] = s[i]
  BY ConcatProperties
<1>2. \A i \in DOMAIN u : Len(s) + i \in DOMAIN (s \o u) /\ (s \o u)[Len(s) + i] = u[i]
  BY ConcatProperties
<1>3. Elems(s) \subseteq Elems(s \o u)
  BY <1>1 DEF Elems
<1>4. Elems(u) \subseteq Elems(s \o u)
  BY <1>2 DEF Elems
<1> QED
  BY <1>3, <1>4

(* A turn of the loops puts its offer or crew there, and removes none. *)
LEMMA TurnAdds ==
  ASSUME NEW t \in Tables, NEW x \in Elems(DemoIds) \cup Elems(CrewIds)
  PROVE  /\ \A id : HasOffer(t, id) => HasOffer(WithDemo(t, x), id)
         /\ x \in Elems(DemoIds) => HasOffer(WithDemo(t, x), x)
         /\ \A c \in Elems(CrewIds) : t.crews[c] # "none" => WithDemo(t, x).crews[c] # "none"
         /\ x \in Elems(CrewIds) => WithDemo(t, x).crews[x] # "none"
         /\ \A c \in Elems(CrewIds) : t.crews[c] = "edited" => WithDemo(t, x).crews[c] = "edited"
<1>1. CASE x \in Elems(DemoIds)
  <2>1. x \notin Elems(CrewIds)
    BY <1>1, ElemsType, MarketAssumption
  <2>2. DemoOffer(x) \in Offer /\ DemoOffer(x).id = x
    BY <1>1, ElemsType, SeedsType, MarketAssumption DEF DemoOffer
  <2>3. Insert(t, DemoOffer(x)).crews = t.crews
    BY DEF Insert, Tables
  <2> QED
    BY <1>1, <2>1, <2>2, <2>3, InsertFollows DEF WithDemo
<1>2. CASE x \notin Elems(DemoIds)
  <2> DEFINE crew == IF t.crews[x] = "none" THEN "seed" ELSE Merged(t.crews[x], "seed")
  <2>1. WithDemo(t, x) = [t EXCEPT !.crews = [t.crews EXCEPT ![x] = crew]]
    BY <1>2 DEF WithDemo
  <2>2. crew # "none" /\ (t.crews[x] = "edited" => crew = "edited")
    BY DEF Merged
  <2> HIDE DEF crew
  <2>3. WithDemo(t, x).offers = t.offers /\ WithDemo(t, x).crews = [t.crews EXCEPT ![x] = crew]
    BY <2>1 DEF Tables
  <2>4. t.crews \in [Elems(CrewIds) -> {"none", "seed", "edited"}]
    BY DEF Tables
  <2> QED
    BY <1>2, <2>2, <2>3, <2>4 DEF HasOffer
<1> QED
  BY <1>1, <1>2

(* What has left the list of what to insert is there. *)
LEMMA DemoInvNext == IInv /\ CopiesNamed /\ DemoInv /\ [Next]_vars => DemoInv'
<1> SUFFICES ASSUME IInv, CopiesNamed, DemoInv, [Next]_vars, stage' \in {"market", "serving"}, demoOn'
             PROVE  /\ \A x \in Elems(DemoIds) : HasOffer(db', x) \/ x \in Elems(todo')
                    /\ \A c \in Elems(CrewIds) : db'.crews[c] # "none" \/ c \in Elems(todo')
  BY DEF DemoInv, HasOffer
<1>1. ASSUME stage \in {"market", "serving"}, UNCHANGED <<todo, demoOn>>,
             \A id : HasOffer(db, id) => HasOffer(db', id), db'.crews = db.crews
      PROVE  /\ \A x \in Elems(DemoIds) : HasOffer(db', x) \/ x \in Elems(todo')
             /\ \A c \in Elems(CrewIds) : db'.crews[c] # "none" \/ c \in Elems(todo')
  BY <1>1 DEF DemoInv
<1>2. ASSUME UNCHANGED tables PROVE db' = db
  BY <1>2 DEF tables, db
<1>3. CASE Demo
  <2>1. DemoIds \in Seq(Ids \cup Elems(CrewIds)) /\ CrewIds \in Seq(Ids \cup Elems(CrewIds))
    BY MarketAssumption
  <2>2. todo' = DemoIds \o CrewIds
    BY <1>3 DEF Demo
  <2> QED
    BY <2>1, <2>2, ElemsOfConcat
<1>4. CASE Market
  <2>1. CASE todo = <<>>
    BY <1>1, <1>2, <1>4, <2>1 DEF Market
  <2>2. CASE todo # <<>>
    <3>1. /\ stage = "market" /\ Write(WithDemo(db, Head(todo))) /\ todo' = Tail(todo) /\ demoOn' = demoOn
          /\ todo \in Seq(Elems(DemoIds) \cup Elems(CrewIds)) /\ TypeOK
      BY <1>4, <2>2 DEF Market, IInv, TypeInv
    <3>2. Head(todo) \in Elems(DemoIds) \cup Elems(CrewIds) /\ db \in Tables
      BY <2>2, <3>1, HeadTailProperties, DbType
    <3>3. db' = WithDemo(db, Head(todo))
      BY <3>1, <3>2, WithDemoType, WriteType
    <3>4. ASSUME NEW x \in Elems(DemoIds) PROVE HasOffer(db', x) \/ x \in Elems(todo')
      <4>1. CASE HasOffer(db, x)
        BY <3>2, <3>3, <4>1, TurnAdds
      <4>2. CASE x \in Elems(todo)
        BY <2>2, <3>1, <3>2, <3>3, <4>2, ElemsOfTail, TurnAdds
      <4> QED
        BY <3>1, <4>1, <4>2 DEF DemoInv
    <3>5. ASSUME NEW c \in Elems(CrewIds) PROVE db'.crews[c] # "none" \/ c \in Elems(todo')
      <4>1. CASE db.crews[c] # "none"
        BY <3>2, <3>3, <4>1, TurnAdds
      <4>2. CASE c \in Elems(todo)
        BY <2>2, <3>1, <3>2, <3>3, <4>2, ElemsOfTail, TurnAdds
      <4> QED
        BY <3>1, <4>1, <4>2 DEF DemoInv
    <3> QED
      BY <3>4, <3>5
  <2> QED
    BY <2>1, <2>2
<1>5. CASE MarketFails
  BY <1>1, <1>2, <1>5 DEF MarketFails
<1>6. CASE Tick \/ UNCHANGED vars
  BY <1>1, <1>2, <1>6 DEF Tick, vars, boot
<1>7. CASE Open \/ OpenFails \/ Check \/ Apply \/ Commit \/ Count \/ Seed \/ Crash
  BY <1>7 DEF Open, OpenFails, Check, Apply, Commit, Count, Seed, Crash, FallBack
<1>8. ASSUME NEW r \in Requests, PipelineStep(r) \/ SavingStep(r)
      PROVE  /\ \A x \in Elems(DemoIds) : HasOffer(db', x) \/ x \in Elems(todo')
             /\ \A c \in Elems(CrewIds) : db'.crews[c] # "none" \/ c \in Elems(todo')
  BY <1>1, <1>8, ServingFollows DEF Follows, HasOffer, boot
<1> QED
  BY <1>3, <1>4, <1>5, <1>6, <1>7, <1>8 DEF Next, StartStep

(* The first start inserts before it serves. *)
LEMMA DemoInvInit == Init => DemoInv
BY DEF Init, DemoInv

(* Once seeding has come to its end the demo market is complete and stays  *)
(* so, whatever a start before it left undone.                              *)
THEOREM DemoIsComplete == Spec => []DemoComplete
<1>1. DemoInv => DemoComplete
  <2>1. Elems(<<>>) = {}
    BY DEF Elems
  <2> QED
    BY <2>1 DEF DemoInv, DemoComplete
<1>2. IInv /\ CopiesNamed /\ DemoInv /\ [Next]_vars => CopiesNamed' /\ DemoInv'
  BY CopiesNamedNext, DemoInvNext
<1> QED
  BY <1>1, <1>2, CopiesNamedInit, DemoInvInit, Invariance, PTL DEF Spec

----------------------------------------------------------------------------
\* Moves

(* An offer as a move leaves it. *)
Whole(o) ==
  /\ o.status = "done" => o.progress = 100 /\ o.signal = "Review"
  /\ o.status = "open" => o.signal = "OK"

(* Only a form makes an offer that is not whole; its offers are numbered,   *)
(* in one store or the other, and a moved one is whole.                     *)
Numbered(name, n) == name.from = "form" => name.nr <= n
RowsOK(t, names, n) ==
  /\ \A i \in DOMAIN t.offers :
       /\ t.offers[i].name.from # "form" \/ t.offers[i].name \in names => Whole(t.offers[i])
       /\ Numbered(t.offers[i].name, n)
  /\ \A i, j \in DOMAIN t.offers :
       t.offers[i].name = t.offers[j].name /\ t.offers[i].name.from = "form" => i = j
Apart(t, u) ==
  \A i \in DOMAIN t.offers, j \in DOMAIN u.offers :
    t.offers[i].name = u.offers[j].name => t.offers[i].name.from # "form"

MovesInv ==
  /\ RowsOK(disk, moved, work) /\ RowsOK(mem, moved, work) /\ Apart(disk, mem)
  /\ \A name \in moved : name.nr \in Nat /\ Numbered(name, work)

(* The tables that are not in use. *)
Spare == IF backend = "sqlite" THEN mem ELSE disk

(* Rows that say the same of their offers. *)
SameRows(t, u) ==
  /\ DOMAIN u.offers = DOMAIN t.offers
  /\ \A i \in DOMAIN t.offers :
       <<u.offers[i].name, u.offers[i].status, u.offers[i].progress, u.offers[i].signal>>
         = <<t.offers[i].name, t.offers[i].status, t.offers[i].progress, t.offers[i].signal>>

(* Names are numbered. *)
LEMMA NamesHaveNumbers ==
  /\ \A o \in Offer : o.name.nr \in Nat
  /\ \A t \in Tables : \A i \in DOMAIN t.offers : t.offers[i].name.nr \in Nat
<1>1. ASSUME NEW o \in Offer PROVE o.name.nr \in Nat
  <2>1. o.name \in Names
    BY DEF Offer
  <2> QED
    BY <2>1 DEF Names
<1>2. \A t \in Tables : \A i \in DOMAIN t.offers : t.offers[i] \in Offer
  BY DEF Tables
<1> QED
  BY <1>1, <1>2

(* Rows that say the same stay in order when the form's numbers go on. *)
LEMMA RowsSame ==
  ASSUME NEW t \in Tables, NEW u \in Tables, SameRows(t, u), NEW names, NEW n \in Nat, NEW m \in Nat, n <= m,
         RowsOK(t, names, n)
  PROVE  RowsOK(u, names, m) /\ \A x : Apart(t, x) => Apart(u, x)
<1>1. \A i \in DOMAIN t.offers : t.offers[i].name.nr \in Nat
  BY NamesHaveNumbers
<1>2. \A i \in DOMAIN t.offers :
        /\ u.offers[i].name = t.offers[i].name /\ u.offers[i].status = t.offers[i].status
        /\ u.offers[i].progress = t.offers[i].progress /\ u.offers[i].signal = t.offers[i].signal
  BY DEF SameRows
<1>3. DOMAIN u.offers = DOMAIN t.offers
  BY DEF SameRows
<1>4. ASSUME NEW i \in DOMAIN t.offers
      PROVE  /\ t.offers[i].name.from # "form" \/ t.offers[i].name \in names => Whole(u.offers[i])
             /\ Numbered(t.offers[i].name, m)
  BY <1>1, <1>2 DEF RowsOK, Whole, Numbered
<1>5. RowsOK(u, names, m)
  BY <1>2, <1>3, <1>4 DEF RowsOK
<1>6. \A x : Apart(t, x) => Apart(u, x)
  BY <1>2, <1>3 DEF Apart
<1> QED
  BY <1>5, <1>6

(* One more row: whole and of no form, or the form's next. *)
LEMMA RowsInsert ==
  ASSUME NEW t \in Tables, NEW o \in Offer, NEW names, NEW n \in Nat, NEW m \in Nat, n <= m,
         RowsOK(t, names, n), \A name \in names : Numbered(name, n),
         (o.name.from # "form" /\ Whole(o)) \/ (o.name.from = "form" /\ n < o.name.nr /\ o.name.nr <= m)
  PROVE  /\ RowsOK(Insert(t, o), names, m)
         /\ \A x \in Tables : Apart(t, x) /\ RowsOK(x, names, n) => Apart(Insert(t, o), x)
<1> DEFINE u == Insert(t, o)
           k == Len(t.offers) + 1
<1>1. t.offers \in Seq(Offer) /\ u.offers = Append(t.offers, o)
  BY InsertType DEF Tables
<1>2. /\ DOMAIN u.offers = DOMAIN t.offers \cup {k} /\ k \notin DOMAIN t.offers
      /\ \A i \in DOMAIN t.offers : u.offers[i] = t.offers[i]
      /\ u.offers[k] = o
  BY <1>1, AppendProperties
<1>3. o.name.nr \in Nat /\ \A x \in Tables : \A i \in DOMAIN x.offers : x.offers[i].name.nr \in Nat
  BY NamesHaveNumbers
<1>4. \A x \in Tables : RowsOK(x, names, n) => \A i \in DOMAIN x.offers :
        x.offers[i].name = o.name => o.name.from # "form"
  BY <1>3 DEF RowsOK, Numbered
<1>5. o.name \in names => o.name.from # "form"
  BY <1>3 DEF Numbered
<1> HIDE DEF u, k
<1>6. ASSUME NEW i \in DOMAIN u.offers
      PROVE  /\ u.offers[i].name.from # "form" \/ u.offers[i].name \in names => Whole(u.offers[i])
             /\ Numbered(u.offers[i].name, m)
  <2>1. CASE i = k
    BY <1>2, <1>3, <1>5, <2>1 DEF Numbered
  <2>2. CASE i \in DOMAIN t.offers
    BY <1>2, <1>3, <2>2 DEF RowsOK, Numbered
  <2> QED
    BY <1>2, <2>1, <2>2
<1>7. \A i, j \in DOMAIN u.offers :
        u.offers[i].name = u.offers[j].name /\ u.offers[i].name.from = "form" => i = j
  BY <1>2, <1>4 DEF RowsOK
<1>8. RowsOK(u, names, m)
  BY <1>6, <1>7 DEF RowsOK
<1>9. \A x \in Tables : Apart(t, x) /\ RowsOK(x, names, n) => Apart(u, x)
  BY <1>2, <1>4 DEF Apart
<1> QED
  BY <1>8, <1>9 DEF u

(* A call of the store, by the tables it leaves. *)
LEMMA WriteMoves ==
  ASSUME TypeOK, NEW u \in Tables, Write(u), RowsOK(u, moved', work'), RowsOK(Spare, moved', work'),
         Apart(u, Spare), \A name \in moved' : name.nr \in Nat /\ Numbered(name, work')
  PROVE  MovesInv'
<1>1. \A x, y : Apart(x, y) => Apart(y, x)
  BY DEF Apart
<1>2. CASE backend = "sqlite"
  BY <1>2, WriteType DEF Spare, MovesInv
<1>3. CASE backend = "memory"
  <2>1. mem' = u /\ disk' = disk /\ Apart(disk, u)
    BY <1>1, <1>3, WriteType DEF Spare
  <2> QED
    BY <1>3, <2>1 DEF Spare, MovesInv
<1> QED
  BY <1>2, <1>3 DEF TypeOK

(* Of the tables in use and the spare ones. *)
LEMMA SpareOK ==
  ASSUME TypeOK, MovesInv
  PROVE  /\ RowsOK(db, moved, work) /\ RowsOK(Spare, moved, work) /\ Apart(db, Spare)
         /\ db \in Tables /\ Spare \in Tables
<1>1. \A x, y : Apart(x, y) => Apart(y, x)
  BY DEF Apart
<1> QED
  BY <1>1, DbType DEF Spare, MovesInv, db, TypeOK

(* Both stores keep their rows. *)
LEMMA SameMoves ==
  ASSUME IInv, TypeInv', MovesInv, SameRows(disk, disk'), SameRows(mem, mem'), UNCHANGED moved,
         work' = work \/ work' = work + 1
  PROVE  MovesInv'
<1>1. /\ disk \in Tables /\ disk' \in Tables /\ mem \in Tables /\ mem' \in Tables
      /\ work \in Nat /\ work' \in Nat /\ work <= work'
  BY DEF IInv, TypeInv, TypeOK
<1>2. RowsOK(disk', moved, work') /\ RowsOK(mem', moved, work')
  BY <1>1, RowsSame DEF MovesInv
<1>3. Apart(disk', mem')
  <2>1. Apart(disk', mem)
    BY <1>1, RowsSame DEF MovesInv
  <2>2. Apart(mem, disk')
    BY <2>1 DEF Apart
  <2>3. Apart(mem', disk')
    BY <1>1, <2>2, RowsSame DEF MovesInv
  <2> QED
    BY <2>3 DEF Apart
<1>4. \A name \in moved : name.nr \in Nat /\ Numbered(name, work')
  <2>1. \A name \in moved : name.nr \in Nat /\ Numbered(name, work)
    BY DEF MovesInv
  <2> QED
    BY <1>1, <2>1 DEF Numbered
<1> QED
  BY <1>2, <1>3, <1>4 DEF MovesInv

(* The store in memory starts anew, with the seeds. *)
LEMMA NewMoves ==
  ASSUME IInv, MovesInv, UNCHANGED <<disk, moved, work>>, mem' = NewMemory
  PROVE  MovesInv'
<1>1. \A i \in DOMAIN NewMemory.offers : NewMemory.offers[i].name.from # "form" /\ Whole(NewMemory.offers[i])
  BY NewTables DEF SeedOffer, Whole
<1>2. RowsOK(NewMemory, moved, work)
  BY <1>1 DEF RowsOK, Numbered
<1>3. Apart(disk, NewMemory)
  BY <1>1 DEF Apart
<1> QED
  BY <1>2, <1>3 DEF MovesInv

(* A migration rewrites what it is about, and nothing else. *)
LEMMA MigrationKeeps ==
  ASSUME NEW v \in Versions, NEW t \in Tables
  PROVE  LET u == Recorded(v, Effect(v, t))
         IN  /\ DOMAIN u.offers = DOMAIN t.offers
             /\ \A i \in DOMAIN t.offers :
                  /\ u.offers[i].id = t.offers[i].id
                  /\ u.offers[i].name = t.offers[i].name
                  /\ u.offers[i].status = t.offers[i].status
                  /\ u.offers[i].progress = t.offers[i].progress
                  /\ u.offers[i].signal = t.offers[i].signal
                  /\ t.offers[i].title = "own" => u.offers[i].title = "own"
             /\ u.crews = t.crews /\ u.nextId = t.nextId
             /\ u.saved = IF v = 4 THEN Deduped(t.saved) ELSE t.saved
<1> DEFINE e == Effect(v, t)
           u == Recorded(v, e)
           Keeps(rows) == /\ DOMAIN rows = DOMAIN t.offers
                          /\ \A i \in DOMAIN t.offers :
                               /\ rows[i].id = t.offers[i].id
                               /\ rows[i].name = t.offers[i].name
                               /\ rows[i].status = t.offers[i].status
                               /\ rows[i].progress = t.offers[i].progress
                               /\ rows[i].signal = t.offers[i].signal
                               /\ t.offers[i].title = "own" => rows[i].title = "own"
<1>1. \A i \in DOMAIN t.offers : t.offers[i] \in Offer
  BY DEF Tables
<1>2. v \in {2, 3, 4, 5, 6}
  BY DEF Versions
<1>3. /\ Keeps(e.offers) /\ e.crews = t.crews /\ e.nextId = t.nextId
      /\ e.saved = IF v = 4 THEN Deduped(t.saved) ELSE t.saved
  <2>1. CASE v = 2
    <3> DEFINE rows == [i \in DOMAIN t.offers |-> [t.offers[i] EXCEPT !.facets = "default"]]
    <3>1. Keeps(rows)
      BY <1>1 DEF Offer
    <3> HIDE DEF rows, Keeps
    <3>2. e = [t EXCEPT !.columns = TRUE, !.offers = rows]
      BY <2>1 DEF Effect, rows
    <3>3. e.offers = rows /\ e.crews = t.crews /\ e.nextId = t.nextId /\ e.saved = t.saved
      BY <3>2 DEF Tables
    <3> QED
      BY <2>1, <3>1, <3>3
  <2>2. ASSUME NEW rows, Keeps(rows), e = Update(t, rows), v # 4
        PROVE  /\ Keeps(e.offers) /\ e.crews = t.crews /\ e.nextId = t.nextId
               /\ e.saved = IF v = 4 THEN Deduped(t.saved) ELSE t.saved
    <3>1. e.offers = rows /\ e.crews = t.crews /\ e.nextId = t.nextId /\ e.saved = t.saved
      BY <2>2 DEF Update, Tables
    <3> HIDE DEF Keeps
    <3> QED
      BY <2>2, <3>1
  <2>3. CASE v = 3
    <3> DEFINE rows == [i \in DOMAIN t.offers |-> Backfilled(t.offers[i])]
    <3>1. Keeps(rows)
      BY <1>1 DEF Offer, Backfilled
    <3>2. e = Update(t, rows)
      BY <2>3 DEF Effect
    <3> HIDE DEF rows, e, Keeps
    <3> QED
      BY <2>2, <2>3, <3>1, <3>2
  <2>4. CASE v = 4
    <3>1. e = [t EXCEPT !.saved = Deduped(t.saved), !.unique = TRUE]
      BY <2>4 DEF Effect
    <3>2. e.offers = t.offers /\ e.crews = t.crews /\ e.nextId = t.nextId /\ e.saved = Deduped(t.saved)
      BY <3>1 DEF Tables
    <3> QED
      BY <2>4, <3>2
  <2>5. CASE v = 5
    <3>1. e = [t EXCEPT !.triggers = TRUE, !.index = Entries(t.offers)]
      BY <2>5 DEF Effect, Rebuilt
    <3>2. e.offers = t.offers /\ e.crews = t.crews /\ e.nextId = t.nextId /\ e.saved = t.saved
      BY <3>1 DEF Tables
    <3> QED
      BY <2>5, <3>2
  <2>6. CASE v = 6
    <3> DEFINE rows == [i \in DOMAIN t.offers |-> Germanised(t.offers[i])]
    <3>1. Keeps(rows)
      BY <1>1 DEF Offer, Germanised
    <3>2. e = Update(t, rows)
      BY <2>6 DEF Effect
    <3> HIDE DEF rows, e, Keeps
    <3> QED
      BY <2>2, <2>6, <3>1, <3>2
  <2> QED
    BY <1>2, <2>1, <2>3, <2>4, <2>5, <2>6
<1>4. e \in Tables
  BY EffectType
<1> HIDE DEF e
<1>5. u.offers = e.offers /\ u.crews = e.crews /\ u.nextId = e.nextId /\ u.saved = e.saved
  BY <1>4 DEF Recorded, Tables
<1> HIDE DEF u
<1> QED
  BY <1>3, <1>5 DEF e, u

(* Steps that write no table. *)
LEMMA QuietSteps ==
  ASSUME \/ Open \/ Check \/ Apply \/ Count \/ Demo \/ MarketFails \/ Tick \/ UNCHANGED vars
         \/ (Seed \/ Market) /\ todo = <<>>
         \/ \E r \in Requests : Click(r) \/ Page(r) \/ Save(r) \/ Find(r) \/ Cancel(r),
         IInv
  PROVE  UNCHANGED <<disk, mem>> /\ UNCHANGED moved /\ (work' = work \/ work' = work + 1)
<1>1. CASE Apply
  <2>1. Applicable(version, tx)
    <3>1. version \in Versions /\ version \notin disk.recorded /\ tx = disk /\ disk \in Tables
      BY <1>1 DEF Apply, IInv, BootInv, TypeInv, TypeOK
    <3>2. version = 2 => ~disk.columns
      BY <3>1 DEF IInv, Sound, DoneAsRecorded
    <3>3. version = 4 => EachOnce(Deduped(disk.saved))
      BY <3>1, DedupedOnce DEF IInv, Sound, SavedIds, Tables
    <3> QED
      BY <3>1, <3>2, <3>3 DEF Applicable
  <2> QED
    BY <1>1, <2>1 DEF Apply, outside, history
<1>2. CASE \E r \in Requests : Click(r) \/ Page(r) \/ Save(r) \/ Find(r) \/ Cancel(r)
  BY <1>2 DEF Click, Page, Save, Find, Cancel, Accepts, tables, savingRest, pipelineRest
<1>3. CASE \/ Open \/ Check \/ Count \/ Demo \/ MarketFails \/ Tick \/ UNCHANGED vars
           \/ (Seed \/ Market) /\ todo = <<>>
  BY <1>3 DEF Open, Check, Count, Demo, MarketFails, Tick, vars, Seed, Market, outside, history, tables
<1> QED
  BY <1>1, <1>2, <1>3

(* Steps that write no row of an offer. *)
LEMMA SavingWrites ==
  ASSUME IInv, NEW r \in Requests, Upsert(r) \/ Trim(r)
  PROVE  SameRows(disk, disk') /\ SameRows(mem, mem') /\ UNCHANGED <<moved, work>>
<1>1. TypeOK /\ db \in Tables /\ req[r] \in Request
  BY DbType DEF IInv, TypeInv, TypeOK
<1>2. ASSUME NEW t \in Tables, Write(t), t.offers = db.offers
      PROVE  SameRows(disk, disk') /\ SameRows(mem, mem')
  BY <1>1, <1>2 DEF Write, db, SameRows
<1>3. CASE Upsert(r)
  <2> DEFINE t == Renew(db, req[r].query, req[r].at)
             c == [t EXCEPT !.saved = Kept(t.saved)]
  <2>1. (Write(t) \/ Write(c)) /\ UNCHANGED <<moved, work>>
    BY <1>3 DEF Upsert, savingRest
  <2>2. t \in Tables /\ t.offers = db.offers
    BY <1>1, RenewType DEF Request
  <2> HIDE DEF t
  <2>3. c \in Tables /\ c.offers = t.offers
    BY <2>2, CappedType
  <2> QED
    BY <1>2, <2>1, <2>2, <2>3
<1>4. CASE Trim(r)
  BY <1>1, <1>2, <1>4, CappedType DEF Trim, savingRest
<1> QED
  BY <1>3, <1>4

(* Every step keeps moved offers whole and the form's numbers apart. *)
LEMMA MovesInvNext == IInv /\ CopiesNamed /\ MovesInv /\ [Next]_vars => MovesInv'
<1> SUFFICES ASSUME IInv, CopiesNamed, MovesInv, [Next]_vars PROVE MovesInv'
  OBVIOUS
<1>1. /\ TypeOK /\ TypeInv' /\ disk \in Tables /\ mem \in Tables /\ work \in Nat
      /\ db \in Tables /\ Spare \in Tables
      /\ RowsOK(db, moved, work) /\ RowsOK(Spare, moved, work) /\ Apart(db, Spare)
      /\ \A name \in moved : name.nr \in Nat /\ Numbered(name, work)
  BY TypeNext, SpareOK DEF IInv, TypeInv, TypeOK, MovesInv
<1>2. \A t : SameRows(t, t)
  BY DEF SameRows
<1>3. CASE \/ Open \/ Check \/ Apply \/ Count \/ Demo \/ MarketFails \/ Tick \/ UNCHANGED vars
           \/ (Seed \/ Market) /\ todo = <<>>
           \/ \E r \in Requests : Click(r) \/ Page(r) \/ Save(r) \/ Find(r) \/ Cancel(r)
  BY <1>1, <1>2, <1>3, QuietSteps, SameMoves
<1>4. CASE OpenFails \/ Crash
  BY <1>4, NewMoves DEF OpenFails, FallBack, Crash, outside, history
<1>5. CASE Commit
  <2>1. /\ version \in Versions /\ disk' = Recorded(version, Effect(version, disk))
        /\ UNCHANGED <<mem, moved, work>>
    BY <1>5 DEF Commit, outside, history, IInv, BootInv, TypeInv
  <2>2. SameRows(disk, disk')
    BY <1>1, <2>1, MigrationKeeps DEF SameRows
  <2> QED
    BY <1>1, <1>2, <2>1, <2>2, SameMoves
<1>6. ASSUME NEW o \in Offer, o.name.from # "form", Whole(o), Write(Insert(db, o)), UNCHANGED <<moved, work>>
      PROVE  MovesInv'
  <2>1. RowsOK(Insert(db, o), moved, work) /\ Apart(Insert(db, o), Spare)
    BY <1>1, <1>6, RowsInsert
  <2> QED
    BY <1>1, <1>6, <2>1, InsertType, WriteMoves
<1>7. CASE Seed /\ todo # <<>>
  <2>1. /\ todo \in Seq(Elems(SeedIds) \cup Elems(Static)) /\ backend = "sqlite"
        /\ disk' = IF Head(todo) \in Elems(SeedIds) THEN Insert(disk, SeedOffer(Head(todo)))
                   ELSE [disk EXCEPT !.static = disk.static \cup {Head(todo)}]
        /\ UNCHANGED <<tx, mem, backend, moved, work>>
    BY <1>7 DEF Seed, outside, history, IInv, BootInv, TypeInv
  <2>2. CASE Head(todo) \in Elems(SeedIds)
    <3> DEFINE o == SeedOffer(Head(todo))
    <3>1. o \in Offer /\ o.name.from # "form" /\ Whole(o)
      BY <2>2, ElemsType, SeedsType, MarketAssumption DEF SeedOffer, Whole
    <3>2. disk' = Insert(disk, o)
      BY <2>1, <2>2
    <3> HIDE DEF o
    <3>3. Write(Insert(db, o))
      BY <2>1, <3>2 DEF Write, db
    <3> QED
      BY <1>6, <2>1, <3>1, <3>3
  <2>3. CASE Head(todo) \notin Elems(SeedIds)
    <3>1. SameRows(disk, disk')
      BY <1>1, <2>1, <2>3 DEF SameRows, Tables
    <3> QED
      BY <1>1, <1>2, <2>1, <3>1, SameMoves
  <2> QED
    BY <2>2, <2>3
<1>8. CASE Market /\ todo # <<>>
  <2>1. /\ todo \in Seq(Elems(DemoIds) \cup Elems(CrewIds)) /\ Write(WithDemo(db, Head(todo)))
        /\ UNCHANGED <<moved, work>>
    BY <1>8 DEF Market, outside, history, IInv, TypeInv
  <2>2. Head(todo) \in Elems(DemoIds) \cup Elems(CrewIds)
    BY <1>8, <2>1, HeadTailProperties
  <2>3. CASE Head(todo) \in Elems(DemoIds) /\ WithDemo(db, Head(todo)) = Insert(db, DemoOffer(Head(todo)))
    <3> DEFINE o == DemoOffer(Head(todo))
    <3>1. o \in Offer /\ o.name.from # "form" /\ Whole(o)
      BY <2>3, ElemsType, SeedsType, MarketAssumption DEF DemoOffer, Whole
    <3>2. Write(Insert(db, o))
      BY <2>1, <2>3
    <3> HIDE DEF o
    <3> QED
      BY <1>6, <2>1, <3>1, <3>2
  <2>4. CASE WithDemo(db, Head(todo)).offers = db.offers
    <3>1. WithDemo(db, Head(todo)) \in Tables
      BY <1>1, <2>2, WithDemoType
    <3>2. CASE backend = "sqlite"
      BY <1>1, <1>2, <2>1, <2>4, <3>1, <3>2, WriteType, SameMoves DEF SameRows, db
    <3>3. CASE backend = "memory"
      BY <1>1, <1>2, <2>1, <2>4, <3>1, <3>3, WriteType, SameMoves DEF SameRows, db
    <3> QED
      BY <1>1, <3>2, <3>3 DEF TypeOK
  <2> QED
    BY <1>1, <2>2, <2>3, <2>4, WithDemoType
<1>9. ASSUME NEW r \in Requests, Upsert(r) \/ Trim(r) PROVE MovesInv'
  BY <1>1, <1>9, SavingWrites, SameMoves
<1>10. ASSUME NEW r \in Requests, Create(r) PROVE MovesInv'
  <2> DEFINE o(st) == [id |-> now % Wrap, name |-> [from |-> "form", nr |-> work'], title |-> "own",
                       facets |-> "unset", status |-> st, progress |-> 0, signal |-> "OK"]
  <2>1. PICK st \in Statuses : Write(Insert(db, o(st))) \/ UNCHANGED tables
    BY <1>10 DEF Create
  <2>2. work' = work + 1 /\ work' \in Nat /\ UNCHANGED moved
    BY <1>1, <1>10 DEF Create, Accepts
  <2>3. o(st) \in Offer /\ o(st).name.from = "form" /\ o(st).name.nr = work'
    BY <1>1, <2>2, FormOffer
  <2> HIDE DEF o
  <2>4. CASE Write(Insert(db, o(st)))
    <3>1. RowsOK(Insert(db, o(st)), moved, work') /\ Apart(Insert(db, o(st)), Spare)
      BY <1>1, <2>2, <2>3, RowsInsert
    <3>2. RowsOK(Spare, moved, work') /\ \A name \in moved : name.nr \in Nat /\ Numbered(name, work')
      <4>1. SameRows(Spare, Spare)
        BY <1>2
      <4>2. RowsOK(Spare, moved, work')
        BY <1>1, <2>2, <4>1, RowsSame
      <4>3. \A name \in moved : name.nr \in Nat /\ Numbered(name, work')
        BY <1>1, <2>2 DEF Numbered
      <4> QED
        BY <4>2, <4>3
    <3> QED
      BY <1>1, <2>2, <2>3, <2>4, <3>1, <3>2, InsertType, WriteMoves
  <2>5. CASE UNCHANGED tables
    BY <1>1, <1>2, <2>2, <2>5, SameMoves DEF tables
  <2> QED
    BY <2>1, <2>4, <2>5
<1>11. ASSUME NEW r \in Requests, Advance(r) PROVE MovesInv'
  <2> DEFINE o == Moved(req[r].copy, req[r].status)
             at == RowOf(db, o.id)
             u == Update(db, [db.offers EXCEPT ![at] = o])
  <2>1. o \in Offer /\ HasOffer(db, o.id) /\ db.offers[at].name = o.name /\ Whole(o)
    BY <1>11, AdvanceRow DEF Whole
  <2>2. Write(u) /\ moved' = moved \cup {o.name} /\ work' = work
    BY <1>11 DEF Advance
  <2> HIDE DEF o
  <2>3. /\ u \in Tables /\ DOMAIN u.offers = DOMAIN db.offers
        /\ \A i \in DOMAIN db.offers : u.offers[i] = IF i = at THEN o ELSE db.offers[i]
    BY <1>1, <2>1, RowWritten
  <2>4. at \in DOMAIN db.offers
    BY <1>1, <2>1, RowOfHas
  <2> HIDE DEF u, at
  <2>5. \A i \in DOMAIN db.offers : u.offers[i].name = db.offers[i].name
    BY <2>1, <2>3
  <2>6. ASSUME NEW i \in DOMAIN u.offers
        PROVE  /\ u.offers[i].name.from # "form" \/ u.offers[i].name \in moved' => Whole(u.offers[i])
               /\ Numbered(u.offers[i].name, work)
    <3>1. CASE i = at
      BY <1>1, <2>1, <2>3, <2>4, <3>1 DEF RowsOK
    <3>2. CASE i # at
      <4>1. u.offers[i] = db.offers[i] /\ (db.offers[i].name.from = "form" => db.offers[i].name # o.name)
        BY <1>1, <2>1, <2>3, <2>4, <3>2 DEF RowsOK
      <4> QED
        BY <1>1, <2>2, <2>3, <4>1 DEF RowsOK
    <3> QED
      BY <3>1, <3>2
  <2>7. RowsOK(u, moved', work')
    BY <1>1, <2>2, <2>3, <2>5, <2>6 DEF RowsOK
  <2>8. RowsOK(Spare, moved', work')
    <3>1. ASSUME NEW i \in DOMAIN Spare.offers, Spare.offers[i].name = o.name PROVE o.name.from # "form"
      BY <1>1, <2>1, <2>4, <3>1 DEF Apart
    <3> QED
      BY <1>1, <2>2, <3>1 DEF RowsOK
  <2>9. Apart(u, Spare)
    BY <1>1, <2>3, <2>5 DEF Apart
  <2>10. \A name \in moved' : name.nr \in Nat /\ Numbered(name, work')
    BY <1>1, <2>1, <2>2, <2>4, NamesHaveNumbers DEF RowsOK
  <2> QED
    BY <1>1, <2>2, <2>3, <2>7, <2>8, <2>9, <2>10, WriteMoves
<1> QED
  BY <1>3, <1>4, <1>5, <1>7, <1>8, <1>9, <1>10, <1>11 DEF Next, StartStep, PipelineStep, SavingStep

(* The saved searches of a file of release k. *)
OldSaved(t, k) ==
  LET n == Len(OldQueries)
      copies == IF k < 4 THEN {0, 1} ELSE {0}
  IN /\ t.saved = {[query |-> OldQueries[i], id |-> i + m * n, at |-> 0] : i \in 1 .. n, m \in copies}
     /\ t.nextId = 2 * n + 1

(* The offers of old files were moved before, or never; their searches are *)
(* numbered.                                                                *)
LEMMA FilesWhole ==
  ASSUME NEW t \in Files
  PROVE  /\ \A i \in DOMAIN t.offers : t.offers[i].name.from # "form" /\ Whole(t.offers[i])
         /\ t = NewFile \/ \E k \in 1 .. 6 : OldSaved(t, k)
<1>1. CASE t = NewFile
  BY <1>1, NewTables
<1>2. ASSUME NEW k \in 1 .. 6, NEW id \in FreeIds, NEW title \in {"english", "german", "own"},
             t = OldFile(k, id, title)
      PROVE  (\A i \in DOMAIN t.offers : t.offers[i].name.from # "form" /\ Whole(t.offers[i])) /\ OldSaved(t, k)
  <2> DEFINE facets(new) == IF k < 2 THEN "absent" ELSE IF k = 2 THEN "default" ELSE new
             seeds == [j \in DOMAIN SeedIds |->
                         [SeedOffer(SeedIds[j]) EXCEPT !.title = title, !.facets = facets("given")]]
             created == [id |-> id, name |-> [from |-> "file", nr |-> 0], title |-> "own",
                         facets |-> facets("derived"), status |-> "done", progress |-> 100, signal |-> "Review"]
             n == Len(OldQueries)
             copies == IF k < 4 THEN {0, 1} ELSE {0}
             saved == {[query |-> OldQueries[i], id |-> i + m * n, at |-> 0] : i \in 1 .. n, m \in copies}
             rows == Append(seeds, created)
             crews == [c \in Elems(CrewIds) |-> IF title = "own" THEN "edited" ELSE "none"]
  <2>1. OldFile(k, id, title) =
          [columns |-> k >= 2, recorded |-> 2 .. k, offers |-> rows,
           triggers |-> k >= 5, index |-> IF k >= 5 THEN Entries(rows) ELSE {},
           unique |-> k >= 4, saved |-> saved, nextId |-> 2 * n + 1, crews |-> crews,
           static |-> Elems(Static)]
    BY DEF OldFile
  <2>2. \A j \in DOMAIN SeedIds : seeds[j].name.from = "seed" /\ seeds[j].status = "process"
    BY DEF SeedOffer
  <2>3. created.name.from = "file" /\ Whole(created)
    BY DEF Whole
  <2>4. DOMAIN SeedIds = 1 .. Len(SeedIds) /\ Len(SeedIds) \in Nat
    BY MarketAssumption
  <2>5. seeds = [j \in 1 .. Len(SeedIds) |-> seeds[j]]
    BY <2>4
  <2>6. t.saved = saved /\ t.nextId = 2 * n + 1
    <3> HIDE DEF rows, saved, n, crews
    <3> QED
      BY <1>2, <2>1
  <2>7. OldSaved(t, k)
    BY <2>6 DEF OldSaved
  <2>8. t.offers = rows
    <3> HIDE DEF rows, saved, n, crews
    <3> QED
      BY <1>2, <2>1
  <2> HIDE DEF seeds, created
  <2>9. seeds \in Seq({seeds[j] : j \in DOMAIN SeedIds}) /\ Len(seeds) = Len(SeedIds)
    BY <2>4, <2>5
  <2>10. /\ DOMAIN rows = DOMAIN SeedIds \cup {Len(SeedIds) + 1}
         /\ \A j \in DOMAIN SeedIds : rows[j] = seeds[j]
         /\ rows[Len(SeedIds) + 1] = created
    BY <2>4, <2>9
  <2> HIDE DEF rows
  <2> QED
    BY <2>2, <2>3, <2>7, <2>8, <2>10 DEF Whole
<1> QED
  BY <1>1, <1>2 DEF Files

(* Nothing was moved at first, and no offer is of a form. *)
LEMMA MovesInvInit == Init => MovesInv
<1> SUFFICES ASSUME Init PROVE MovesInv
  OBVIOUS
<1>1. \A i \in DOMAIN disk.offers : disk.offers[i].name.from # "form" /\ Whole(disk.offers[i])
  BY FilesWhole DEF Init
<1>2. \A i \in DOMAIN mem.offers : mem.offers[i].name.from # "form" /\ Whole(mem.offers[i])
  BY NewTables DEF Init, SeedOffer, Whole
<1>3. moved = {}
  BY DEF Init
<1> QED
  BY <1>1, <1>2, <1>3 DEF MovesInv, RowsOK, Apart, Numbered

(* However moves of one offer overlap, and although each writes the whole  *)
(* row as it was read, the row that stands is the whole of one move.        *)
THEOREM MovesStayWhole == Spec => []MovesAreWhole
<1>1. IInv /\ MovesInv => MovesAreWhole
  BY SpareOK DEF IInv, TypeInv, RowsOK, Whole, MovesAreWhole
<1>2. IInv /\ CopiesNamed /\ MovesInv /\ [Next]_vars => CopiesNamed' /\ MovesInv'
  BY CopiesNamedNext, MovesInvNext
<1> QED
  BY <1>1, <1>2, CopiesNamedInit, MovesInvInit, Invariance, PTL DEF Spec

----------------------------------------------------------------------------
\* Which saved searches are kept

(* No two rows have the same id. *)
DistinctIds(rows) == \A s, u \in rows : s.id = u.id => s = u

Sought(rows) == {s.query : s \in rows}

(* A set has at least as many elements as any image of it. *)
LEMMA ImageSize ==
  ASSUME NEW S, IsFiniteSet(S), NEW f, DOMAIN f = S
  PROVE  LET T == {f[x] : x \in S} IN IsFiniteSet(T) /\ Cardinality(T) \in Nat /\ Cardinality(T) <= Cardinality(S)
<1> DEFINE T == {f[x] : x \in S}
           g == [x \in S |-> f[x]]
<1>1. g \in Surjection(S, T)
  BY DEF Surjection
<1> HIDE DEF T, g
<1>2. IsFiniteSet(T) /\ Cardinality(T) <= Cardinality(S)
  BY <1>1, FS_Surjection
<1>3. Cardinality(T) \in Nat
  BY <1>2, FS_CardinalityType
<1> QED
  BY <1>2, <1>3 DEF T

(* Rows with ids of their own are in one order, from the newest on. *)
LEMMA NewerOrders ==
  ASSUME NEW rows \in SUBSET Saved, DistinctIds(rows)
  PROVE  /\ \A s \in rows : ~Newer(s, s)
         /\ \A s, u, w \in rows : Newer(s, u) /\ Newer(u, w) => Newer(s, w)
         /\ \A s, u \in rows : s = u \/ Newer(s, u) \/ Newer(u, s)
<1>1. \A s \in rows : s.at \in Nat /\ s.id \in Nat
  BY DEF Saved
<1> QED
  BY <1>1 DEF Newer, DistinctIds

Above(rows, s) == {u \in rows : Newer(u, s)}

(* The newer a row, the fewer rows are newer than it. *)
LEMMA AboveSize ==
  ASSUME NEW rows \in SUBSET Saved, DistinctIds(rows), IsFiniteSet(rows)
  PROVE  /\ \A s \in rows : IsFiniteSet(Above(rows, s)) /\ Cardinality(Above(rows, s)) \in Nat
         /\ \A s, u \in rows : Newer(s, u) => Cardinality(Above(rows, s)) < Cardinality(Above(rows, u))
<1>1. ASSUME NEW s \in rows PROVE IsFiniteSet(Above(rows, s)) /\ Cardinality(Above(rows, s)) \in Nat
  <2>1. IsFiniteSet(Above(rows, s))
    BY FS_Subset DEF Above
  <2> QED
    BY <2>1, FS_CardinalityType
<1>2. ASSUME NEW s \in rows, NEW u \in rows, Newer(s, u)
      PROVE  Cardinality(Above(rows, s)) < Cardinality(Above(rows, u))
  <2>1. Above(rows, s) \subseteq Above(rows, u) /\ s \in Above(rows, u) /\ s \notin Above(rows, s)
    BY <1>2, NewerOrders DEF Above
  <2>2. /\ Cardinality(Above(rows, s)) <= Cardinality(Above(rows, u))
        /\ Cardinality(Above(rows, u)) = Cardinality(Above(rows, s)) => Above(rows, u) = Above(rows, s)
    BY <1>1, <2>1, FS_Subset
  <2> QED
    BY <1>1, <2>1, <2>2
<1> QED
  BY <1>1, <1>2

(* Some rows have a newest and an oldest. *)
LEMMA NewestAndOldest ==
  ASSUME NEW rows \in SUBSET Saved, DistinctIds(rows), IsFiniteSet(rows), NEW S \in SUBSET rows, S # {}
  PROVE  /\ \E s \in S : \A u \in S : u = s \/ Newer(s, u)
         /\ \E s \in S : \A u \in S : u = s \/ Newer(u, s)
<1> DEFINE rank(s) == Cardinality(Above(rows, s))
           depth(s) == Cardinality(rows) - rank(s)
           ranks == {rank(s) : s \in S}
           depths == {depth(s) : s \in S}
<1>1. \A s \in S : rank(s) \in Nat
  BY AboveSize
<1>2. \A s, u \in S : Newer(s, u) => rank(s) < rank(u)
  BY AboveSize
<1>3. \A s \in S : rank(s) <= Cardinality(rows) /\ Cardinality(rows) \in Nat
  <2>1. \A s \in S : Above(rows, s) \subseteq rows
    BY DEF Above
  <2> QED
    BY <2>1, FS_Subset, FS_CardinalityType
<1> HIDE DEF rank
<1>4. \A s \in S : depth(s) \in Nat
  BY <1>1, <1>3
<1>5. PICK i \in ranks : \A j \in ranks : i <= j
  <2>1. ranks \in SUBSET Nat /\ ranks # {}
    BY <1>1
  <2> HIDE DEF ranks
  <2> QED
    BY <2>1, LeastNumber
<1>6. PICK k \in depths : \A j \in depths : k <= j
  <2>1. depths \in SUBSET Nat /\ depths # {}
    BY <1>4
  <2> HIDE DEF depths
  <2> QED
    BY <2>1, LeastNumber
<1>7. \E s \in S : \A u \in S : u = s \/ Newer(s, u)
  <2>1. PICK s \in S : i = rank(s)
    BY <1>5
  <2>2. \A u \in S : ~(rank(u) < rank(s))
    <3>1. \A u \in S : rank(u) \in ranks
      OBVIOUS
    <3> HIDE DEF ranks
    <3> QED
      BY <1>1, <1>5, <2>1, <3>1
  <2>3. \A u \in S : ~Newer(u, s)
    BY <1>2, <2>2
  <2> QED
    BY <2>3, NewerOrders
<1>8. \E s \in S : \A u \in S : u = s \/ Newer(u, s)
  <2>1. PICK s \in S : k = depth(s)
    BY <1>6
  <2>2. \A u \in S : ~(rank(s) < rank(u))
    <3>1. \A u \in S : depth(u) \in depths
      OBVIOUS
    <3> HIDE DEF depths
    <3>2. \A u \in S : depth(s) <= depth(u)
      BY <1>6, <2>1, <3>1
    <3> QED
      BY <1>1, <1>3, <3>2
  <2>3. \A u \in S : ~Newer(s, u)
    BY <1>2, <2>2
  <2> QED
    BY <2>3, NewerOrders
<1> QED
  BY <1>7, <1>8

(* Of any rows no more than Keep are kept; when one is dropped, Keep are    *)
(* kept, and each of them was saved no earlier.                             *)
LEMMA KeptAre ==
  ASSUME NEW rows \in SUBSET Saved, DistinctIds(rows), IsFiniteSet(rows)
  PROVE  /\ Kept(rows) \subseteq rows /\ IsFiniteSet(Kept(rows))
         /\ Cardinality(Kept(rows)) \in Nat /\ Cardinality(Kept(rows)) <= Keep
         /\ \A s \in rows \ Kept(rows) :
              Cardinality(Kept(rows)) >= Keep /\ \A u \in Kept(rows) : u.at >= s.at
<1> DEFINE K == Kept(rows)
<1>1. Keep \in Nat /\ Keep > 0
  BY MarketAssumption
<1>2. K = {s \in rows : Cardinality(Above(rows, s)) < Keep}
  BY DEF Kept, NewestOf, Above
<1>3. K \subseteq rows
  BY <1>2
<1>4. IsFiniteSet(K) /\ Cardinality(K) \in Nat
  BY <1>3, FS_Subset, FS_CardinalityType
<1> HIDE DEF K
<1>5. Cardinality(K) <= Keep
  <2>1. CASE K = {}
    BY <1>1, <2>1, FS_EmptySet
  <2>2. CASE K # {}
    <3>1. PICK s \in K : \A u \in K : u = s \/ Newer(u, s)
      BY <1>3, <2>2, NewestAndOldest
    <3>2. K \ {s} \subseteq Above(rows, s)
      BY <1>3, <3>1 DEF Above
    <3>3. Cardinality(K \ {s}) <= Cardinality(Above(rows, s)) /\ Cardinality(K \ {s}) = Cardinality(K) - 1
      BY <1>3, <1>4, <3>1, <3>2, AboveSize, FS_Subset, FS_RemoveElement
    <3>4. Cardinality(Above(rows, s)) \in Nat /\ Cardinality(Above(rows, s)) < Keep
      BY <1>2, <1>3, <3>1, AboveSize
    <3> QED
      BY <1>1, <1>4, <3>3, <3>4
  <2> QED
    BY <2>1, <2>2
<1>6. ASSUME NEW s \in rows \ K PROVE Cardinality(K) >= Keep /\ \A u \in K : u.at >= s.at
  <2>1. PICK x \in rows \ K : \A u \in rows \ K : u = x \/ Newer(x, u)
    BY <1>6, NewestAndOldest
  <2>2. Above(rows, x) \subseteq K
    BY <2>1, NewerOrders DEF Above
  <2>3. Cardinality(Above(rows, x)) <= Cardinality(K) /\ Cardinality(Above(rows, x)) \in Nat
    BY <1>4, <2>1, <2>2, FS_Subset, AboveSize
  <2>4. ~(Cardinality(Above(rows, x)) < Keep)
    BY <1>2, <2>1
  <2>5. ASSUME NEW u \in K PROVE u.at >= s.at
    <3>1. u \in rows /\ s \in rows /\ u # s
      BY <1>3, <1>6
    <3>2. Cardinality(Above(rows, u)) < Keep /\ ~(Cardinality(Above(rows, s)) < Keep)
      BY <1>2, <1>6, <3>1
    <3>3. ~Newer(s, u)
      <4>1. /\ Cardinality(Above(rows, s)) \in Nat /\ Cardinality(Above(rows, u)) \in Nat
            /\ Newer(s, u) => Cardinality(Above(rows, s)) < Cardinality(Above(rows, u))
        BY <3>1, AboveSize
      <4> QED
        BY <1>1, <3>2, <4>1
    <3>4. Newer(u, s)
      BY <3>1, <3>3, NewerOrders
    <3>5. u.at \in Nat /\ s.at \in Nat
      BY <3>1 DEF Saved
    <3> QED
      BY <3>4, <3>5 DEF Newer
  <2> QED
    BY <1>1, <1>4, <2>3, <2>4, <2>5
<1> QED
  BY <1>3, <1>4, <1>5, <1>6 DEF K

(* Each query has a newest row, so removing duplicates loses no search. *)
LEMMA DedupedSought ==
  ASSUME NEW rows \in SUBSET Saved, NEW n \in Nat, \A s \in rows : s.id < n
  PROVE  Deduped(rows) \subseteq rows /\ Sought(Deduped(rows)) = Sought(rows)
<1>1. Deduped(rows) \subseteq rows
  BY DEF Deduped
<1>2. ASSUME NEW s \in rows PROVE s.query \in Sought(Deduped(rows))
  <2> DEFINE same == {u \in rows : u.query = s.query}
             left == {n - u.id : u \in same}
  <2>1. \A u \in same : u.id \in Nat /\ u.id < n
    BY DEF Saved
  <2>2. left \in SUBSET Nat
    BY <2>1
  <2>3. left # {}
    OBVIOUS
  <2>4. PICK i \in left : \A j \in left : i <= j
    <3> HIDE DEF left
    <3> QED
      BY <2>2, <2>3, LeastNumber
  <2>5. PICK u \in same : i = n - u.id
    BY <2>4
  <2>6. \A w \in same : n - u.id <= n - w.id
    BY <2>4, <2>5
  <2>7. \A w \in same : w.id <= u.id
    BY <2>1, <2>6
  <2>8. u \in Deduped(rows)
    BY <2>7 DEF Deduped
  <2> QED
    BY <2>8 DEF Sought
<1> QED
  BY <1>1, <1>2 DEF Sought

----------------------------------------------------------------------------
\* Saved searches

(* The rows there are, with ids of their own that have been given out. *)
SavedOK(t) == IsFiniteSet(t.saved) /\ DistinctIds(t.saved) /\ \A s \in t.saved : s.id < t.nextId

(* A row on disk says when its search was last saved, and in memory the cap *)
(* always holds.                                                            *)
SavedInv ==
  /\ SavedOK(disk) /\ SavedOK(mem)
  /\ EachOnce(mem.saved) /\ Cardinality(mem.saved) <= Keep
  /\ \A s \in disk.saved : s.at = asked[s.query]
  /\ backend = "memory" => \A r \in Requests : ~Saving(r)

(* Saves that will still come to the statement that caps. *)
WillTrim(r) == req[r].pc = "trim" \/ (req[r].pc = "find" /\ req[r].query \in Sought(disk.saved))

TrimInv == Cardinality(Sought(disk.saved)) > Keep => cut \/ \E r \in Requests : WillTrim(r)

SameSaved(t, u) == u.saved = t.saved /\ u.nextId = t.nextId

(* Saving a search adds it or renews it. *)
LEMMA RenewSaved ==
  ASSUME NEW t \in Tables, SavedOK(t), NEW q \in Queries, NEW time \in Nat
  PROVE  LET u == Renew(t, q, time)
         IN  /\ SavedOK(u) /\ Sought(u.saved) = Sought(t.saved) \cup {q}
             /\ \A s \in u.saved : IF s.query = q THEN s.at = time ELSE s \in t.saved
<1> DEFINE u == Renew(t, q, time)
<1>1. t.saved \in SUBSET Saved /\ t.nextId \in Nat
  BY DEF Tables
<1>2. CASE \E s \in t.saved : s.query = q
  <2> DEFINE f == [s \in t.saved |-> IF s.query = q THEN [s EXCEPT !.at = time] ELSE s]
             renewed == {f[s] : s \in t.saved}
  <2>1. u.saved = renewed /\ u.nextId = t.nextId
    <3>1. renewed = {IF s.query = q THEN [s EXCEPT !.at = time] ELSE s : s \in t.saved}
      OBVIOUS
    <3>2. u = [t EXCEPT !.saved = renewed]
      BY <1>2, <3>1 DEF Renew
    <3> HIDE DEF renewed, u
    <3> QED
      BY <3>2 DEF Tables
  <2>2. \A s \in t.saved : /\ f[s].query = s.query /\ f[s].id = s.id
                           /\ IF s.query = q THEN f[s].at = time ELSE f[s] = s
    BY <1>1 DEF Saved
  <2>3. DOMAIN f = t.saved
    OBVIOUS
  <2> HIDE DEF f
  <2>4. IsFiniteSet(renewed)
    BY <2>3, ImageSize DEF SavedOK
  <2> HIDE DEF u
  <2>5. SavedOK(u)
    BY <2>1, <2>2, <2>4 DEF SavedOK, DistinctIds
  <2>6. Sought(u.saved) = Sought(t.saved) \cup {q}
    BY <1>2, <2>1, <2>2 DEF Sought
  <2> QED
    BY <2>1, <2>2, <2>5, <2>6 DEF u
<1>3. CASE ~ \E s \in t.saved : s.query = q
  <2> DEFINE new == [query |-> q, id |-> t.nextId, at |-> time]
  <2>1. u.saved = t.saved \cup {new} /\ u.nextId = t.nextId + 1
    <3>1. u = [t EXCEPT !.saved = t.saved \cup {new}, !.nextId = t.nextId + 1]
      BY <1>3 DEF Renew
    <3> HIDE DEF new, u
    <3> QED
      BY <3>1 DEF Tables
  <2>2. new.query = q /\ new.id = t.nextId /\ new.at = time
    OBVIOUS
  <2> HIDE DEF u, new
  <2>3. IsFiniteSet(u.saved)
    BY <2>1, FS_AddElement DEF SavedOK
  <2>4. \A s \in t.saved : s.id \in Nat /\ s.id < t.nextId
    BY <1>1 DEF Saved, SavedOK
  <2>5. SavedOK(u)
    BY <1>1, <2>1, <2>2, <2>3, <2>4 DEF SavedOK, DistinctIds
  <2> QED
    BY <1>3, <2>1, <2>2, <2>5 DEF u, Sought
<1> QED
  BY <1>2, <1>3

(* A call of the store that leaves its saved searches alone. *)
LEMMA SavedUntouched ==
  ASSUME TypeOK, NEW u, Write(u), SameSaved(db, u)
  PROVE  SameSaved(disk, disk') /\ SameSaved(mem, mem')
<1>1. CASE backend = "sqlite"
  BY <1>1 DEF Write, db, SameSaved
<1>2. CASE backend = "memory"
  BY <1>2 DEF Write, db, SameSaved
<1> QED
  BY <1>1, <1>2 DEF TypeOK

(* The memory a process starts with has no searches. *)
LEMMA NoSearches ==
  /\ NewFile.saved = {} /\ NewMemory.saved = {} /\ NewFile.nextId = 1 /\ NewMemory.nextId = 1
  /\ SavedOK(NewFile) /\ SavedOK(NewMemory) /\ EachOnce({}) /\ Cardinality({}) <= Keep
<1>1. NewFile.saved = {} /\ NewFile.nextId = 1
  BY DEF NewFile
<1>2. NewMemory.saved = {} /\ NewMemory.nextId = 1
  <2>1. NewFile \in Tables
    BY NewTables
  <2> QED
    BY <1>1, <2>1 DEF NewMemory, Tables
<1> QED
  BY <1>1, <1>2, FS_EmptySet, MarketAssumption DEF SavedOK, DistinctIds, EachOnce

(* Start-up leaves the searches of the file alone, but for duplicates. *)
LEMMA BootSaved ==
  ASSUME IInv, StartStep
  PROVE  /\ UNCHANGED <<req, asked, cut>>
         /\ disk'.nextId = disk.nextId /\ disk'.saved \in {disk.saved, Deduped(disk.saved)}
         /\ (SameSaved(mem, mem') \/ mem' = NewMemory)
<1>1. UNCHANGED <<req, asked, cut>>
  BY DEF StartStep, Open, OpenFails, Check, Apply, Commit, Count, Seed, Demo, Market, MarketFails, outside, history
<1>2. TypeOK /\ disk \in Tables /\ db \in Tables
  BY DbType DEF IInv, TypeInv, TypeOK
<1>3. CASE \/ Open \/ Check \/ Apply \/ Count \/ Demo \/ MarketFails
           \/ (Seed \/ Market) /\ todo = <<>>
  BY <1>1, <1>3, QuietSteps DEF SameSaved
<1>4. CASE OpenFails
  BY <1>1, <1>4 DEF OpenFails, FallBack
<1>5. CASE Commit
  <2>1. version \in Versions /\ disk' = Recorded(version, Effect(version, disk)) /\ mem' = mem
    BY <1>5 DEF Commit, IInv, BootInv, TypeInv
  <2> QED
    BY <1>1, <1>2, <2>1, MigrationKeeps DEF SameSaved
<1>6. CASE Seed /\ todo # <<>>
  <2>1. mem' = mem
    BY <1>6 DEF Seed
  <2>2. CASE disk' = Insert(disk, SeedOffer(Head(todo)))
    BY <1>1, <1>2, <2>1, <2>2 DEF Insert, Tables, SameSaved
  <2>3. CASE disk' = [disk EXCEPT !.static = disk.static \cup {Head(todo)}]
    BY <1>1, <1>2, <2>1, <2>3 DEF Tables, SameSaved
  <2> QED
    BY <1>6, <2>2, <2>3 DEF Seed
<1>7. CASE Market /\ todo # <<>>
  <2>1. Write(WithDemo(db, Head(todo)))
    BY <1>7 DEF Market
  <2>2. SameSaved(db, WithDemo(db, Head(todo)))
    BY <1>2 DEF WithDemo, Insert, Tables, SameSaved
  <2>3. SameSaved(disk, disk') /\ SameSaved(mem, mem')
    BY <1>2, <2>1, <2>2, SavedUntouched
  <2> QED
    BY <1>1, <2>3 DEF SameSaved
<1> QED
  BY <1>1, <1>3, <1>4, <1>5, <1>6, <1>7 DEF StartStep

(* The pipeline leaves searches alone. *)
LEMMA PipelineSaved ==
  ASSUME TypeOK, NEW r \in Requests, PipelineStep(r)
  PROVE  SameSaved(disk, disk') /\ SameSaved(mem, mem') /\ UNCHANGED <<asked, cut, backend>>
<1>1. db \in Tables /\ UNCHANGED <<asked, cut, backend>>
  BY DbType DEF PipelineStep, Create, Click, Advance, Page, pipelineRest, Write, tables
<1>2. CASE UNCHANGED tables
  BY <1>1, <1>2 DEF tables, SameSaved
<1>3. ASSUME NEW o, Write(Insert(db, o)) PROVE SameSaved(disk, disk') /\ SameSaved(mem, mem')
  <2>1. SameSaved(db, Insert(db, o))
    BY <1>1 DEF Insert, Tables, SameSaved
  <2> QED
    BY <1>3, <2>1, SavedUntouched
<1>4. ASSUME NEW rows, Write(Update(db, rows)) PROVE SameSaved(disk, disk') /\ SameSaved(mem, mem')
  <2>1. SameSaved(db, Update(db, rows))
    BY <1>1 DEF Update, Tables, SameSaved
  <2> QED
    BY <1>4, <2>1, SavedUntouched
<1>5. CASE Create(r)
  BY <1>1, <1>2, <1>3, <1>5 DEF Create
<1>6. CASE Advance(r)
  BY <1>1, <1>4, <1>6 DEF Advance
<1>7. CASE Click(r) \/ Page(r)
  BY <1>1, <1>2, <1>7 DEF Click, Page
<1> QED
  BY <1>5, <1>6, <1>7 DEF PipelineStep

(* Who is between the statements of a save, and how they got there. *)
LEMMA SavingSteps ==
  ASSUME TypeOK, NEW r \in Requests, PipelineStep(r) \/ SavingStep(r)
  PROVE  /\ \A x \in Requests : x # r => req'[x] = req[x]
         /\ Saving(r)' => \/ req'[r] = req[r]
                          \/ /\ Upsert(r) /\ backend = "sqlite"
                             /\ req'[r].pc = "find" /\ req'[r].query = req[r].query
                          \/ Find(r) /\ req'[r].pc = "trim"
<1>1. req \in [Requests -> Request] /\ req[r] \in Request
  BY DEF TypeOK
<1>2. ASSUME NEW step, Continues(r, step)
      PROVE  /\ \A x \in Requests : x # r => req'[x] = req[x]
             /\ req'[r].pc = step /\ req'[r].query = req[r].query
  <2>1. req' = [req EXCEPT ![r] = [req[r] EXCEPT !.pc = step]]
    BY <1>2 DEF Continues
  <2>2. [req[r] EXCEPT !.pc = step].pc = step /\ [req[r] EXCEPT !.pc = step].query = req[r].query
    BY <1>1 DEF Request
  <2> QED
    BY <1>1, <2>1, <2>2
<1>3. ASSUME Returns(r) PROVE (\A x \in Requests : x # r => req'[x] = req[x]) /\ ~Saving(r)'
  BY <1>1, <1>3 DEF Returns, Idle, Saving
<1>4. ASSUME NEW own, req' = [req EXCEPT ![r] = own], own.pc \notin {"find", "trim"}
      PROVE  (\A x \in Requests : x # r => req'[x] = req[x]) /\ ~Saving(r)'
  BY <1>1, <1>4 DEF Saving
<1>5. CASE Create(r)
  BY <1>2, <1>5 DEF Create, Saving
<1>6. CASE Click(r)
  <2>1. PICK card \in shown, st \in Statuses :
          \/ UNCHANGED req
          \/ req' = [req EXCEPT ![r] = [Idle EXCEPT !.pc = "update", !.card = card, !.status = st,
                                                    !.copy = db.offers[RowOf(db, card.id)]]]
    BY <1>6 DEF Click
  <2>2. [Idle EXCEPT !.pc = "update", !.card = card, !.status = st,
                     !.copy = db.offers[RowOf(db, card.id)]].pc = "update"
    BY DEF Idle
  <2> QED
    BY <1>4, <2>1, <2>2
<1>7. CASE Advance(r)
  <2>1. [Idle EXCEPT !.pc = "page"].pc = "page"
    BY DEF Idle
  <2> QED
    BY <1>4, <1>7, <2>1 DEF Advance
<1>8. CASE Page(r) \/ Trim(r) \/ Cancel(r)
  BY <1>3, <1>8 DEF Page, Trim, Cancel
<1>9. CASE Save(r)
  <2>1. PICK q \in Queries : req' = [req EXCEPT ![r] = [Idle EXCEPT !.pc = "upsert", !.query = q, !.at = now]]
    BY <1>9 DEF Save
  <2>2. [Idle EXCEPT !.pc = "upsert", !.query = q, !.at = now].pc = "upsert"
    BY DEF Idle
  <2> QED
    BY <1>4, <2>1, <2>2
<1>10. CASE Upsert(r)
  BY <1>2, <1>3, <1>10 DEF Upsert
<1>11. CASE Find(r)
  BY <1>2, <1>3, <1>11 DEF Find
<1> QED
  BY <1>5, <1>6, <1>7, <1>8, <1>9, <1>10, <1>11 DEF PipelineStep, SavingStep

(* The statement that caps, and the store in memory, which caps at once. *)
LEMMA CapSaved ==
  ASSUME NEW t \in Tables, SavedOK(t), NEW u, u = [t EXCEPT !.saved = Kept(t.saved)]
  PROVE  /\ u.saved = Kept(t.saved) /\ SavedOK(u) /\ Cardinality(u.saved) <= Keep
         /\ u.saved \subseteq t.saved
         /\ \A s \in t.saved \ u.saved : Cardinality(u.saved) >= Keep /\ \A w \in u.saved : w.at >= s.at
<1>1. u.saved = Kept(t.saved) /\ u.nextId = t.nextId /\ t.saved \in SUBSET Saved
  BY DEF Tables
<1> QED
  BY <1>1, KeptAre DEF SavedOK, DistinctIds

(* What the statements of a save do to the searches. *)
LEMMA SavingSaved ==
  ASSUME IInv, SavedInv, NEW r \in Requests, SavingStep(r)
  PROVE  \/ SameSaved(disk, disk') /\ SameSaved(mem, mem') /\ UNCHANGED asked
         \/ /\ Upsert(r) /\ backend = "sqlite" /\ disk' = Renew(disk, req[r].query, req[r].at) /\ mem' = mem
            /\ asked' = [asked EXCEPT ![req[r].query] = req[r].at]
         \/ /\ Upsert(r) /\ backend = "memory" /\ disk' = disk /\ UNCHANGED asked
            /\ LET t == Renew(mem, req[r].query, req[r].at) IN mem' = [t EXCEPT !.saved = Kept(t.saved)]
         \/ /\ Trim(r) /\ backend = "sqlite" /\ disk' = [disk EXCEPT !.saved = Kept(disk.saved)] /\ mem' = mem
            /\ UNCHANGED asked
<1>1. backend \in {"sqlite", "memory"}
  BY DEF IInv, TypeInv, TypeOK
<1>2. CASE Save(r) \/ Find(r) \/ Cancel(r)
  BY <1>2 DEF Save, Find, Cancel, tables, SameSaved
<1>3. CASE Upsert(r)
  <2>1. CASE backend = "sqlite"
    BY <1>3, <2>1 DEF Upsert, Write, db
  <2>2. CASE backend = "memory"
    BY <1>3, <2>2 DEF Upsert, Write, db
  <2> QED
    BY <1>1, <2>1, <2>2
<1>4. CASE Trim(r)
  <2>1. backend = "sqlite"
    BY <1>1, <1>4 DEF Trim, SavedInv, Saving
  <2> QED
    BY <1>4, <2>1 DEF Trim, Write, db
<1> QED
  BY <1>2, <1>3, <1>4 DEF SavingStep

(* Every step keeps the saved searches in order. *)
LEMMA SavedInvNext == IInv /\ SavedInv /\ [Next]_vars => SavedInv'
<1> SUFFICES ASSUME IInv, SavedInv, [Next]_vars PROVE SavedInv'
  OBVIOUS
<1>1. /\ TypeOK /\ disk \in Tables /\ mem \in Tables /\ asked \in [Queries -> 0 .. MaxNow]
      /\ disk.saved \in SUBSET Saved /\ mem.saved \in SUBSET Saved
  BY DEF IInv, TypeInv, TypeOK, Tables
<1> DEFINE Others == backend' = "memory" => \A r \in Requests : ~Saving(r)'
<1>2. ASSUME disk'.nextId = disk.nextId, disk'.saved \subseteq disk.saved, UNCHANGED asked
      PROVE  SavedOK(disk)' /\ (\A s \in disk.saved : s.at = asked[s.query])'
  BY <1>1, <1>2, FS_Subset DEF SavedInv, SavedOK, DistinctIds
<1>3. ASSUME SameSaved(mem, mem') \/ mem' = NewMemory
      PROVE  SavedOK(mem)' /\ EachOnce(mem'.saved) /\ Cardinality(mem'.saved) <= Keep
  BY <1>1, <1>3, NoSearches DEF SavedInv, SavedOK, SameSaved
<1>4. CASE StartStep
  <2>1. disk'.nextId = disk.nextId /\ disk'.saved \subseteq disk.saved /\ UNCHANGED asked
    BY <1>4, BootSaved DEF Deduped
  <2>2. Others
    BY <1>4, BootSteps DEF Saving
  <2>3. SameSaved(mem, mem') \/ mem' = NewMemory
    BY <1>4, BootSaved
  <2> QED
    BY <1>2, <1>3, <2>1, <2>2, <2>3 DEF SavedInv
<1>5. CASE Crash
  <2>1. disk' = disk /\ mem' = NewMemory /\ UNCHANGED asked /\ backend' = "sqlite"
    BY <1>5 DEF Crash
  <2> QED
    BY <1>2, <1>3, <2>1 DEF SavedInv
<1>6. CASE Tick \/ UNCHANGED vars
  <2>1. UNCHANGED <<disk, mem, backend, req, asked>>
    BY <1>6 DEF Tick, vars, tables, history
  <2> QED
    BY <2>1 DEF SavedInv, SavedOK, Saving
<1>7. ASSUME NEW r \in Requests, PipelineStep(r) \/ SavingStep(r) PROVE Others /\ UNCHANGED backend
  <2>1. UNCHANGED backend
    BY <1>7 DEF PipelineStep, SavingStep, Create, Click, Advance, Page, Save, Upsert, Find, Trim, Cancel, Write, tables
  <2>2. ASSUME backend = "memory", NEW x \in Requests, Saving(x)' PROVE FALSE
    <3>1. ~Saving(x) /\ ~Saving(r)
      BY <2>2 DEF SavedInv
    <3>2. req'[x] = req[x] \/ Find(r)
      BY <1>1, <1>7, <2>2, SavingSteps
    <3> QED
      BY <2>2, <3>1, <3>2 DEF Saving, Find
  <2> QED
    BY <2>1, <2>2
<1>8. ASSUME NEW r \in Requests, PipelineStep(r) PROVE SavedInv'
  <2>1. SameSaved(disk, disk') /\ SameSaved(mem, mem') /\ UNCHANGED asked
    BY <1>1, <1>8, PipelineSaved
  <2>2. disk'.nextId = disk.nextId /\ disk'.saved \subseteq disk.saved
    BY <2>1 DEF SameSaved
  <2> QED
    BY <1>2, <1>3, <1>7, <1>8, <2>1, <2>2 DEF SavedInv
<1>9. ASSUME NEW r \in Requests, SavingStep(r) PROVE SavedInv'
  <2> DEFINE q == req[r].query
             time == req[r].at
  <2>1. q \in Queries /\ time \in 0 .. MaxNow /\ time \in Nat
    <3>1. req[r] \in Request
      BY <1>1 DEF TypeOK
    <3> QED
      BY <3>1 DEF Request
  <2>2. Others
    BY <1>7, <1>9
  <2>3. CASE SameSaved(disk, disk') /\ SameSaved(mem, mem') /\ UNCHANGED asked
    <3>1. disk'.nextId = disk.nextId /\ disk'.saved \subseteq disk.saved
      BY <2>3 DEF SameSaved
    <3> QED
      BY <1>2, <1>3, <2>2, <2>3, <3>1 DEF SavedInv
  <2>4. CASE disk' = Renew(disk, q, time) /\ mem' = mem /\ asked' = [asked EXCEPT ![q] = time]
    <3>1. SavedOK(disk') /\ \A s \in disk'.saved : IF s.query = q THEN s.at = time ELSE s \in disk.saved
      BY <1>1, <2>1, <2>4, RenewSaved DEF SavedInv
    <3>2. disk' \in Tables
      BY <1>1, <2>1, <2>4, RenewType
    <3>3. \A s \in disk'.saved : s.query \in Queries
      BY <3>2 DEF Tables, Saved
    <3> HIDE DEF q, time
    <3>4. \A s \in disk'.saved : s.at = asked'[s.query]
      BY <1>1, <2>1, <2>4, <3>1, <3>3 DEF SavedInv
    <3>5. SameSaved(mem, mem')
      BY <2>4 DEF SameSaved
    <3> QED
      BY <1>3, <2>2, <3>1, <3>4, <3>5 DEF SavedInv, SavedOK
  <2>5. CASE /\ disk' = disk /\ UNCHANGED asked
             /\ LET t == Renew(mem, q, time) IN mem' = [t EXCEPT !.saved = Kept(t.saved)]
    <3> DEFINE t == Renew(mem, q, time)
    <3>1. t \in Tables /\ SavedOK(t) /\ EachOnce(t.saved)
      BY <1>1, <2>1, RenewSaved, RenewType, RenewOnce DEF SavedInv
    <3>2. mem' = [t EXCEPT !.saved = Kept(t.saved)]
      BY <2>5
    <3> HIDE DEF t
    <3>3. SavedOK(mem') /\ Cardinality(mem'.saved) <= Keep /\ mem'.saved \subseteq t.saved
      BY <3>1, <3>2, CapSaved
    <3>4. EachOnce(mem'.saved)
      BY <3>1, <3>3 DEF EachOnce
    <3> QED
      BY <1>2, <2>2, <2>5, <3>3, <3>4 DEF SavedInv, SavedOK
  <2>6. CASE disk' = [disk EXCEPT !.saved = Kept(disk.saved)] /\ mem' = mem /\ UNCHANGED asked
    <3>1. SavedOK(disk') /\ disk'.saved \subseteq disk.saved
      BY <1>1, <2>6, CapSaved DEF SavedInv
    <3>2. \A s \in disk'.saved : s.at = asked'[s.query]
      BY <2>6, <3>1 DEF SavedInv
    <3>3. SameSaved(mem, mem')
      BY <2>6 DEF SameSaved
    <3> QED
      BY <1>3, <2>2, <3>1, <3>2, <3>3 DEF SavedInv, SavedOK
  <2> HIDE DEF q, time
  <2> QED
    BY <1>9, <2>3, <2>4, <2>5, <2>6, SavingSaved DEF q, time
<1> QED
  BY <1>4, <1>5, <1>6, <1>8, <1>9 DEF Next

(* Searches that the file has lost are none. *)
LEMMA SoughtAtStart ==
  ASSUME IInv, SavedInv, StartStep
  PROVE  Sought(disk'.saved) = Sought(disk.saved)
<1>1. disk.saved \in SUBSET Saved /\ disk.nextId \in Nat
  BY DEF IInv, TypeInv, TypeOK, Tables
<1>2. Sought(Deduped(disk.saved)) = Sought(disk.saved)
  BY <1>1, DedupedSought DEF SavedInv, SavedOK
<1> QED
  BY <1>2, BootSaved

(* There are as many queries as searches, when each is there once. *)
LEMMA SoughtSize ==
  ASSUME NEW rows, IsFiniteSet(rows)
  PROVE  /\ Cardinality(Sought(rows)) \in Nat /\ Cardinality(Sought(rows)) <= Cardinality(rows)
         /\ EachOnce(rows) => Cardinality(rows) <= Cardinality(Sought(rows))
<1> DEFINE f == [s \in rows |-> s.query]
           T == {f[s] : s \in rows}
<1>1. Sought(rows) = T
  BY DEF Sought
<1>2. IsFiniteSet(T) /\ Cardinality(T) \in Nat /\ Cardinality(T) <= Cardinality(rows)
  <2>1. DOMAIN f = rows
    OBVIOUS
  <2> HIDE DEF f
  <2> QED
    BY <2>1, ImageSize
<1>3. ASSUME EachOnce(rows) PROVE Cardinality(rows) <= Cardinality(T)
  <2>1. f \in Injection(rows, T)
    BY <1>3 DEF Injection, IsInjective, EachOnce
  <2> HIDE DEF f, T
  <2> QED
    BY <1>2, <2>1, FS_Injection
<1> HIDE DEF T
<1> QED
  BY <1>1, <1>2, <1>3

(* As long as there are too many, a save is on its way to cap them. *)
LEMMA TrimInvNext == IInv /\ SavedInv /\ TrimInv /\ [Next]_vars => TrimInv'
<1> SUFFICES ASSUME IInv, SavedInv, TrimInv, [Next]_vars, Cardinality(Sought(disk'.saved)) > Keep
             PROVE  cut' \/ \E r \in Requests : WillTrim(r)'
  BY DEF TrimInv
<1>1. TypeOK /\ disk \in Tables /\ \A r \in Requests : req[r] \in Request
  BY DEF IInv, TypeInv, TypeOK
<1>2. ASSUME Sought(disk'.saved) = Sought(disk.saved), UNCHANGED cut,
             \A r \in Requests : WillTrim(r) => req'[r] = req[r]
      PROVE  cut' \/ \E r \in Requests : WillTrim(r)'
  BY <1>2 DEF TrimInv, WillTrim
<1>3. CASE StartStep
  <2>1. UNCHANGED <<req, cut>> /\ Sought(disk'.saved) = Sought(disk.saved)
    BY <1>3, BootSaved, SoughtAtStart
  <2> QED
    BY <1>2, <2>1
<1>4. CASE Crash
  <2>1. disk' = disk /\ cut' = (cut \/ \E r \in Requests : Saving(r))
    BY <1>4 DEF Crash
  <2> QED
    BY <2>1 DEF TrimInv, WillTrim, Saving
<1>5. CASE Tick \/ UNCHANGED vars
  <2>1. UNCHANGED <<disk, req, cut>>
    BY <1>5 DEF Tick, vars, tables, history
  <2> QED
    BY <1>2, <2>1
<1>6. ASSUME NEW r \in Requests, PipelineStep(r) PROVE cut' \/ \E x \in Requests : WillTrim(x)'
  <2>1. SameSaved(disk, disk') /\ UNCHANGED cut
    BY <1>1, <1>6, PipelineSaved
  <2>2. ~WillTrim(r)
    BY <1>6 DEF PipelineStep, Create, Click, Advance, Page, Accepts, WillTrim
  <2>3. \A x \in Requests : x # r => req'[x] = req[x]
    BY <1>1, <1>6, SavingSteps
  <2> QED
    BY <1>2, <2>1, <2>2, <2>3 DEF SameSaved
<1>7. ASSUME NEW r \in Requests, SavingStep(r) PROVE cut' \/ \E x \in Requests : WillTrim(x)'
  <2>1. \A x \in Requests : x # r => req'[x] = req[x]
    BY <1>1, <1>7, SavingSteps
  <2>2. CASE Save(r)
    <3>1. ~WillTrim(r) /\ UNCHANGED <<disk, cut>>
      BY <2>2 DEF Save, WillTrim, tables
    <3> QED
      BY <1>2, <2>1, <3>1
  <2>3. CASE Find(r)
    <3>1. UNCHANGED <<disk, cut>>
      BY <2>3 DEF Find, tables
    <3>2. backend = "sqlite"
      BY <2>3 DEF SavedInv, Saving, Find, IInv, TypeInv, TypeOK
    <3>3. CASE WillTrim(r)
      <4>1. \E s \in db.saved : s.query = req[r].query
        BY <2>3, <3>2, <3>3 DEF WillTrim, Find, Sought, db
      <4>2. req' = [req EXCEPT ![r] = [req[r] EXCEPT !.pc = "trim"]]
        BY <2>3, <4>1 DEF Find, Continues
      <4>3. [req[r] EXCEPT !.pc = "trim"].pc = "trim" /\ req \in [Requests -> Request]
        BY <1>1 DEF Request, TypeOK
      <4>4. WillTrim(r)'
        BY <4>2, <4>3 DEF WillTrim
      <4> QED
        BY <4>4
    <3>4. CASE ~WillTrim(r)
      BY <1>2, <2>1, <3>1, <3>4
    <3> QED
      BY <3>3, <3>4
  <2>4. CASE Cancel(r)
    <3>1. disk' = disk /\ cut' = (cut \/ Saving(r))
      BY <2>4 DEF Cancel, tables
    <3>2. cut \/ \E x \in Requests : WillTrim(x)
      BY <3>1 DEF TrimInv
    <3>3. \A x \in Requests : WillTrim(x) => Saving(x)
      BY DEF WillTrim, Saving
    <3> QED
      BY <2>1, <3>1, <3>2, <3>3 DEF WillTrim
  <2>5. CASE Upsert(r)
    <3>1. ~WillTrim(r) /\ UNCHANGED cut /\ backend \in {"sqlite", "memory"}
      BY <2>5 DEF Upsert, WillTrim, IInv, TypeInv, TypeOK
    <3>2. CASE backend = "memory"
      <4>1. disk' = disk
        BY <2>5, <3>2 DEF Upsert, Write
      <4> QED
        BY <1>2, <2>1, <3>1, <4>1
    <3>3. CASE backend = "sqlite"
      <4>1. req' = [req EXCEPT ![r] = [req[r] EXCEPT !.pc = "find"]]
        BY <2>5, <3>3 DEF Upsert, Continues
      <4>2. /\ [req[r] EXCEPT !.pc = "find"].pc = "find" /\ [req[r] EXCEPT !.pc = "find"].query = req[r].query
            /\ req \in [Requests -> Request]
        BY <1>1 DEF Request, TypeOK
      <4>3. disk' = Renew(disk, req[r].query, req[r].at)
        BY <2>5, <3>3 DEF Upsert, Write, db
      <4>4. req[r].query \in Sought(disk'.saved)
        <5>1. req[r].query \in Queries /\ req[r].at \in Nat /\ SavedOK(disk)
          BY <1>1 DEF SavedInv, Request
        <5>2. Sought(Renew(disk, req[r].query, req[r].at).saved) = Sought(disk.saved) \cup {req[r].query}
          BY <1>1, <5>1, RenewSaved
        <5> QED
          BY <4>3, <5>2
      <4>5. WillTrim(r)'
        BY <4>1, <4>2, <4>4 DEF WillTrim
      <4> QED
        BY <4>5
    <3> QED
      BY <3>1, <3>2, <3>3
  <2>6. CASE Trim(r)
    <3>1. backend = "sqlite"
      BY <2>6 DEF SavedInv, Saving, Trim, IInv, TypeInv, TypeOK
    <3>2. disk' = [disk EXCEPT !.saved = Kept(disk.saved)]
      BY <2>6, <3>1 DEF Trim, Write, db
    <3>3. SavedOK(disk') /\ Cardinality(disk'.saved) <= Keep
      BY <1>1, <3>2, CapSaved DEF SavedInv
    <3>4. Cardinality(disk'.saved) \in Nat
      BY <3>3, FS_CardinalityType DEF SavedOK
    <3>5. Cardinality(Sought(disk'.saved)) \in Nat /\ Cardinality(Sought(disk'.saved)) <= Cardinality(disk'.saved)
      BY <3>3, SoughtSize DEF SavedOK
    <3>6. FALSE
      BY <3>3, <3>4, <3>5, MarketAssumption
    <3> QED
      BY <3>6
  <2> QED
    BY <1>7, <2>2, <2>3, <2>4, <2>5, <2>6 DEF SavingStep
<1> QED
  BY <1>3, <1>4, <1>5, <1>6, <1>7 DEF Next

(* The searches of old files have ids below the next, and were never saved *)
(* by this release.                                                         *)
LEMMA FilesSaved ==
  ASSUME NEW t \in Files
  PROVE  /\ SavedOK(t) /\ \A s \in t.saved : s.query \in Queries /\ s.at = 0
         /\ Cardinality(Sought(t.saved)) <= Len(OldQueries)
<1> DEFINE n == Len(OldQueries)
<1>1. n \in Nat /\ DOMAIN OldQueries = 1 .. n /\ \A i \in 1 .. n : OldQueries[i] \in Queries
  BY MarketAssumption
<1>2. CASE t = NewFile
  <2>1. t.saved = {} /\ SavedOK(t)
    BY <1>2, NoSearches
  <2>2. Cardinality(Sought(t.saved)) = 0
    BY <2>1, FS_EmptySet DEF Sought
  <2> HIDE DEF n
  <2>3. 0 <= n
    BY <1>1
  <2> QED
    BY <2>1, <2>2, <2>3 DEF n
<1>3. ASSUME NEW k \in 1 .. 6, OldSaved(t, k)
      PROVE  /\ SavedOK(t) /\ \A s \in t.saved : s.query \in Queries /\ s.at = 0
             /\ Cardinality(Sought(t.saved)) <= Len(OldQueries)
  <2> DEFINE copies == IF k < 4 THEN {0, 1} ELSE {0}
             f == [p \in (1 .. n) \X copies |-> [query |-> OldQueries[p[1]], id |-> p[1] + p[2] * n, at |-> 0]]
             rows == {f[p] : p \in (1 .. n) \X copies}
  <2>1. t.saved = rows /\ t.nextId = 2 * n + 1
    <3>1. /\ t.saved = {[query |-> OldQueries[i], id |-> i + m * n, at |-> 0] : i \in 1 .. n, m \in copies}
          /\ t.nextId = 2 * n + 1
      BY <1>3 DEF OldSaved
    <3> HIDE DEF n, copies
    <3>2. \A p \in (1 .. n) \X copies : p[1] \in 1 .. n /\ p[2] \in copies
      OBVIOUS
    <3>3. \A i \in 1 .. n, m \in copies :
            <<i, m>> \in (1 .. n) \X copies
            /\ f[<<i, m>>] = [query |-> OldQueries[i], id |-> i + m * n, at |-> 0]
      OBVIOUS
    <3>4. \A p \in (1 .. n) \X copies : f[p] = [query |-> OldQueries[p[1]], id |-> p[1] + p[2] * n, at |-> 0]
      OBVIOUS
    <3> HIDE DEF f
    <3>5. ASSUME NEW s \in t.saved PROVE s \in rows
      <4>1. PICK i \in 1 .. n, m \in copies : s = [query |-> OldQueries[i], id |-> i + m * n, at |-> 0]
        BY <3>1
      <4> QED
        BY <3>3, <4>1
    <3>6. ASSUME NEW s \in rows PROVE s \in t.saved
      <4>1. PICK p \in (1 .. n) \X copies : s = f[p]
        OBVIOUS
      <4>2. /\ p[1] \in 1 .. n /\ p[2] \in copies
            /\ s = [query |-> OldQueries[p[1]], id |-> p[1] + p[2] * n, at |-> 0]
        BY <3>2, <3>4, <4>1
      <4>3. \E i \in 1 .. n, m \in copies : s = [query |-> OldQueries[i], id |-> i + m * n, at |-> 0]
        BY <4>2
      <4> QED
        BY <3>1, <4>3
    <3> QED
      BY <3>1, <3>5, <3>6
  <2>2. copies \subseteq {0, 1} /\ IsFiniteSet(copies)
    <3>1. copies \subseteq {0} \cup {1}
      OBVIOUS
    <3>2. IsFiniteSet({0} \cup {1})
      BY FS_Singleton, FS_Union
    <3> HIDE DEF copies
    <3> QED
      BY <3>1, <3>2, FS_Subset
  <2> HIDE DEF copies
  <2>3. \A p \in (1 .. n) \X copies :
          /\ f[p].query = OldQueries[p[1]] /\ f[p].at = 0
          /\ f[p].id = p[1] + p[2] * n
    OBVIOUS
  <2>4. \A p \in (1 .. n) \X copies : (p[2] = 0 /\ f[p].id = p[1]) \/ (p[2] = 1 /\ f[p].id = p[1] + n)
    <3> HIDE DEF f, n
    <3>1. 0 * n = 0 /\ 1 * n = n
      BY <1>1
    <3>2. \A p \in (1 .. n) \X copies : p[1] \in 1 .. n /\ (p[2] = 0 \/ p[2] = 1)
      BY <2>2
    <3> QED
      BY <1>1, <2>3, <3>1, <3>2
  <2>5. \A p \in (1 .. n) \X copies : p[1] \in 1 .. n /\ f[p].id \in Nat /\ f[p].id < 2 * n + 1
    BY <1>1, <2>4
  <2>6. \A p, o \in (1 .. n) \X copies : f[p].id = f[o].id => p[1] = o[1] /\ p[2] = o[2]
    BY <1>1, <2>4
  <2>7. IsFiniteSet((1 .. n) \X copies)
    <3>1. IsFiniteSet(1 .. n)
      BY <1>1, FS_Interval
    <3> HIDE DEF n
    <3> QED
      BY <2>2, <3>1, FS_Product
  <2>8. DOMAIN f = (1 .. n) \X copies
    OBVIOUS
  <2>9. \A p, o \in (1 .. n) \X copies : p[1] = o[1] /\ p[2] = o[2] => f[p] = f[o]
    OBVIOUS
  <2> HIDE DEF f
  <2>10. IsFiniteSet(rows)
    BY <2>7, <2>8, ImageSize
  <2>11. SavedOK(t)
    BY <2>1, <2>5, <2>6, <2>9, <2>10 DEF SavedOK, DistinctIds
  <2>12. \A s \in t.saved : s.query \in Queries /\ s.at = 0
    BY <1>1, <2>1, <2>3, <2>5
  <2>13. Cardinality(Sought(t.saved)) <= n
    <3> DEFINE g == [i \in 1 .. n |-> OldQueries[i]]
               T == {g[i] : i \in 1 .. n}
    <3>1. Sought(t.saved) \subseteq T
      BY <2>1, <2>3, <2>5 DEF Sought
    <3>2. IsFiniteSet(1 .. n) /\ Cardinality(1 .. n) = n
      BY <1>1, FS_Interval
    <3>3. DOMAIN g = 1 .. n
      OBVIOUS
    <3> HIDE DEF g
    <3>4. IsFiniteSet(T) /\ Cardinality(T) \in Nat /\ Cardinality(T) <= n
      BY <3>2, <3>3, ImageSize
    <3> HIDE DEF T
    <3>5. Cardinality(Sought(t.saved)) <= Cardinality(T) /\ IsFiniteSet(Sought(t.saved))
      BY <3>1, <3>4, FS_Subset
    <3>6. Cardinality(Sought(t.saved)) \in Nat
      BY <3>5, FS_CardinalityType
    <3> QED
      BY <1>1, <3>4, <3>5, <3>6
  <2> QED
    BY <2>11, <2>12, <2>13
<1> QED
  BY <1>2, <1>3, FilesWhole

(* They are in order at first. *)
LEMMA SavedInvInit == Init => SavedInv
<1> SUFFICES ASSUME Init PROVE SavedInv
  OBVIOUS
<1>1. disk \in Files /\ mem = NewMemory /\ asked = [q \in Queries |-> 0] /\ backend = "sqlite"
  BY DEF Init
<1>2. SavedOK(disk) /\ \A s \in disk.saved : s.at = asked[s.query]
  BY <1>1, FilesSaved
<1>3. SavedOK(mem) /\ EachOnce(mem.saved) /\ Cardinality(mem.saved) <= Keep
  BY <1>1, NoSearches
<1> QED
  BY <1>1, <1>2, <1>3 DEF SavedInv

(* Each search of a profile is there once, and more of them than Keep only *)
(* while a save is under way or after one was cut short, provided an older  *)
(* release kept the cap too.                                                *)
THEOREM SavedStayTidy ==
  ASSUME Len(OldQueries) <= Keep
  PROVE  Spec => []SavedAreTidy
<1>1. Init => TrimInv
  <2> SUFFICES ASSUME Init PROVE ~(Cardinality(Sought(disk.saved)) > Keep)
    BY DEF TrimInv
  <2>1. SavedOK(disk) /\ Cardinality(Sought(disk.saved)) <= Len(OldQueries)
    BY FilesSaved DEF Init
  <2>2. Cardinality(Sought(disk.saved)) \in Nat
    BY <2>1, SoughtSize DEF SavedOK
  <2>3. Keep \in Nat /\ Len(OldQueries) \in Nat
    BY MarketAssumption
  <2> QED
    BY <2>1, <2>2, <2>3
<1>2. IInv /\ SavedInv /\ TrimInv => SavedAreTidy
  <2> SUFFICES ASSUME IInv, SavedInv, TrimInv, db.unique \/ backend = "memory"
               PROVE  /\ EachOnce(db.saved)
                      /\ Cardinality(db.saved) > Keep => cut \/ \E r \in Requests : Saving(r)
    BY DEF SavedAreTidy
  <2>1. CASE backend = "memory"
    <3>1. EachOnce(db.saved) /\ Cardinality(db.saved) <= Keep /\ Cardinality(db.saved) \in Nat /\ Keep \in Nat
      BY <2>1, FS_CardinalityType, MarketAssumption DEF SavedInv, SavedOK, db
    <3> QED
      BY <3>1
  <2>2. CASE backend = "sqlite"
    <3>1. db = disk /\ EachOnce(disk.saved)
      BY <2>2 DEF db, IInv, Sound, DoneAsRecorded
    <3>2. IsFiniteSet(disk.saved)
      BY DEF SavedInv, SavedOK
    <3>3. /\ Cardinality(disk.saved) <= Cardinality(Sought(disk.saved))
          /\ Cardinality(disk.saved) \in Nat /\ Cardinality(Sought(disk.saved)) \in Nat /\ Keep \in Nat
      BY <3>1, <3>2, SoughtSize, FS_CardinalityType, MarketAssumption
    <3>4. \A r \in Requests : WillTrim(r) => Saving(r)
      BY DEF WillTrim, Saving
    <3> QED
      BY <3>1, <3>3, <3>4 DEF TrimInv
  <2> QED
    BY <2>1, <2>2 DEF IInv, TypeInv, TypeOK
<1>3. IInv /\ SavedInv /\ TrimInv /\ [Next]_vars => SavedInv' /\ TrimInv'
  BY SavedInvNext, TrimInvNext
<1> QED
  BY <1>1, <1>2, <1>3, SavedInvInit, Invariance, PTL DEF Spec

(* Only the statement that caps drops a search, and Keep others stay that   *)
(* were saved last no earlier than it was.                                  *)
LEMMA NewestStay ==
  IInv /\ SavedInv /\ [Next]_vars =>
    (stage = "serving" /\ stage' = "serving" /\ backend = "sqlite" =>
       \A s \in disk.saved : s \notin disk'.saved /\ (\A u \in disk'.saved : u.query # s.query) =>
         Cardinality({u \in disk'.saved : asked[u.query] >= asked[s.query]}) >= Keep)
<1> SUFFICES ASSUME IInv, SavedInv, [Next]_vars, stage = "serving", stage' = "serving", backend = "sqlite",
                    NEW s \in disk.saved, s \notin disk'.saved, \A u \in disk'.saved : u.query # s.query
             PROVE  Cardinality({u \in disk'.saved : asked[u.query] >= asked[s.query]}) >= Keep
  OBVIOUS
<1>1. TypeOK /\ disk \in Tables
  BY DEF IInv, TypeInv, TypeOK
<1>2. ~SameSaved(disk, disk')
  BY DEF SameSaved
<1>3. ~StartStep /\ ~Crash
  BY BootSteps DEF Crash
<1>4. ~Tick /\ ~UNCHANGED vars
  BY <1>2 DEF Tick, vars, tables, SameSaved
<1>5. PICK r \in Requests : PipelineStep(r) \/ SavingStep(r)
  BY <1>3, <1>4 DEF Next
<1>6. SavingStep(r)
  BY <1>1, <1>2, <1>5, PipelineSaved
<1>7. CASE disk' = Renew(disk, req[r].query, req[r].at)
  <2>1. req[r] \in Request
    BY <1>1 DEF TypeOK
  <2>2. req[r].query \in Queries /\ req[r].at \in Nat /\ SavedOK(disk)
    BY <2>1 DEF Request, SavedInv
  <2>3. Sought(disk'.saved) = Sought(disk.saved) \cup {req[r].query}
    BY <1>1, <1>7, <2>2, RenewSaved
  <2>4. s.query \in Sought(disk'.saved)
    BY <2>3 DEF Sought
  <2> QED
    BY <2>4 DEF Sought
<1>8. CASE disk' = [disk EXCEPT !.saved = Kept(disk.saved)]
  <2>1. /\ disk'.saved \subseteq disk.saved /\ Cardinality(disk'.saved) >= Keep
        /\ \A u \in disk'.saved : u.at >= s.at
    BY <1>1, <1>8, CapSaved DEF SavedInv
  <2>2. \A u \in disk'.saved : asked[u.query] >= asked[s.query]
    BY <2>1 DEF SavedInv
  <2>3. {u \in disk'.saved : asked[u.query] >= asked[s.query]} = disk'.saved
    BY <2>2
  <2> QED
    BY <2>1, <2>3
<1>9. disk' # disk
  BY <1>2 DEF SameSaved
<1> QED
  BY <1>2, <1>6, <1>7, <1>8, <1>9, SavingSaved

(* A saved search is dropped only for Keep others that were saved no       *)
(* earlier than it was.                                                     *)
THEOREM NewestAreKept == Spec => NewestSearchesStay
<1>1. IInv /\ SavedInv /\ [Next]_vars => SavedInv'
  BY SavedInvNext
<1> QED
  BY <1>1, SavedInvInit, NewestStay, Invariance, PTL DEF Spec, NewestSearchesStay

----------------------------------------------------------------------------
\* What people did outlives start-up

(* What a start keeps of the file, from one step to the next. *)
LEMMA StartKeeps ==
  IInv /\ SavedInv /\ [Next]_vars =>
    (stage # "serving" =>
       /\ \A i \in DOMAIN disk.offers :
            /\ i \in DOMAIN disk'.offers
            /\ LET o == disk.offers[i] p == disk'.offers[i]
               IN /\ <<o.id, o.name, o.status, o.progress, o.signal>>
                       = <<p.id, p.name, p.status, p.progress, p.signal>>
                  /\ o.title = "own" => p.title = "own"
       /\ \A c \in Elems(CrewIds) : disk.crews[c] = "edited" => disk'.crews[c] = "edited"
       /\ {s.query : s \in disk.saved} = {s.query : s \in disk'.saved})
<1> DEFINE Stays(t) ==
      /\ \A i \in DOMAIN disk.offers :
           /\ i \in DOMAIN t.offers
           /\ t.offers[i].id = disk.offers[i].id /\ t.offers[i].name = disk.offers[i].name
           /\ t.offers[i].status = disk.offers[i].status /\ t.offers[i].progress = disk.offers[i].progress
           /\ t.offers[i].signal = disk.offers[i].signal
           /\ disk.offers[i].title = "own" => t.offers[i].title = "own"
      /\ \A c \in Elems(CrewIds) : disk.crews[c] = "edited" => t.crews[c] = "edited"
<1> SUFFICES ASSUME IInv, SavedInv, [Next]_vars, stage # "serving"
             PROVE  Stays(disk') /\ Sought(disk'.saved) = Sought(disk.saved)
  BY DEF Sought
<1>1. TypeOK /\ disk \in Tables /\ db \in Tables
  BY DbType DEF IInv, TypeInv, TypeOK
<1>2. Stays(disk)
  OBVIOUS
<1>3. ASSUME NEW o \in Offer PROVE Stays(Insert(disk, o))
  <2>1. /\ disk.offers \in Seq(Offer) /\ Insert(disk, o).offers = Append(disk.offers, o)
        /\ Insert(disk, o).crews = disk.crews
    BY <1>1, InsertType DEF Tables, Insert
  <2>2. \A i \in DOMAIN disk.offers :
          i \in DOMAIN Insert(disk, o).offers /\ Insert(disk, o).offers[i] = disk.offers[i]
    BY <2>1, AppendProperties
  <2> QED
    BY <2>1, <2>2
<1>4. ASSUME UNCHANGED disk PROVE Stays(disk') /\ Sought(disk'.saved) = Sought(disk.saved)
  BY <1>2, <1>4
<1>5. CASE StartStep
  <2>1. Sought(disk'.saved) = Sought(disk.saved)
    BY <1>5, SoughtAtStart
  <2>2. CASE \/ Open \/ Check \/ Apply \/ Count \/ Demo \/ MarketFails
             \/ (Seed \/ Market) /\ todo = <<>>
    BY <1>4, <2>2, QuietSteps
  <2>3. CASE OpenFails
    BY <1>4, <2>3 DEF OpenFails, FallBack
  <2>4. CASE Commit
    <3>1. version \in Versions /\ disk' = Recorded(version, Effect(version, disk))
      BY <2>4 DEF Commit, IInv, BootInv, TypeInv
    <3>2. Stays(disk')
      BY <1>1, <3>1, MigrationKeeps
    <3> QED
      BY <2>1, <3>2
  <2>5. CASE Seed /\ todo # <<>>
    <3>1. CASE Head(todo) \in Elems(SeedIds)
      <4>1. SeedOffer(Head(todo)) \in Offer
        BY <3>1, ElemsType, SeedsType, MarketAssumption
      <4>2. disk' = Insert(disk, SeedOffer(Head(todo)))
        BY <2>5, <3>1 DEF Seed
      <4>3. Stays(disk')
        BY <1>3, <4>1, <4>2
      <4> QED
        BY <2>1, <4>3
    <3>2. CASE Head(todo) \notin Elems(SeedIds)
      <4>1. disk' = [disk EXCEPT !.static = disk.static \cup {Head(todo)}]
        BY <2>5, <3>2 DEF Seed
      <4>2. disk'.offers = disk.offers /\ disk'.crews = disk.crews
        BY <1>1, <4>1 DEF Tables
      <4> QED
        BY <2>1, <4>2
    <3> QED
      BY <3>1, <3>2
  <2>6. CASE Market /\ todo # <<>>
    <3> DEFINE x == Head(todo)
    <3>1. todo \in Seq(Elems(DemoIds) \cup Elems(CrewIds)) /\ Write(WithDemo(db, x))
      BY <2>6 DEF Market, IInv, TypeInv
    <3>2. x \in Elems(DemoIds) \cup Elems(CrewIds)
      BY <2>6, <3>1, HeadTailProperties
    <3>3. CASE backend = "memory"
      BY <1>4, <3>1, <3>3 DEF Write
    <3>4. CASE backend = "sqlite"
      <4>1. db = disk /\ disk' = WithDemo(disk, x)
        BY <3>1, <3>4 DEF Write, db
      <4> HIDE DEF x
      <4>2. \A c \in Elems(CrewIds) : disk.crews[c] = "edited" => disk'.crews[c] = "edited"
        BY <1>1, <3>2, <4>1, TurnAdds
      <4>3. CASE disk'.offers = disk.offers
        BY <2>1, <4>2, <4>3
      <4>4. CASE x \in Elems(DemoIds) /\ disk' = Insert(disk, DemoOffer(x))
        <5>1. DemoOffer(x) \in Offer
          BY <4>4, ElemsType, SeedsType, MarketAssumption
        <5>2. Stays(disk')
          BY <1>3, <4>4, <5>1
        <5> QED
          BY <2>1, <5>2
      <4> QED
        BY <1>1, <3>2, <4>1, <4>3, <4>4, WithDemoType
    <3> QED
      BY <1>1, <3>3, <3>4 DEF TypeOK
  <2> QED
    BY <1>5, <2>2, <2>3, <2>4, <2>5, <2>6 DEF StartStep
<1>6. CASE Crash
  BY <1>4, <1>6 DEF Crash
<1>7. CASE Tick \/ UNCHANGED vars
  BY <1>4, <1>7 DEF Tick, vars, tables
<1>8. ASSUME NEW r \in Requests PROVE ~PipelineStep(r) /\ ~SavingStep(r)
  BY DEF PipelineStep, SavingStep, Create, Click, Advance, Page, Save, Upsert, Find, Trim, Cancel, Accepts,
         IInv, BootInv
<1> QED
  BY <1>5, <1>6, <1>7, <1>8 DEF Next

(* Starting up, whatever release left the file behind and wherever an       *)
(* earlier start broke off, takes back nothing that people did.             *)
THEOREM StartUpKeepsHands == Spec => StartKeepsHands
<1>1. IInv /\ SavedInv /\ [Next]_vars => SavedInv'
  BY SavedInvNext
<1> QED
  BY <1>1, SavedInvInit, StartKeeps, Invariance, PTL DEF Spec, StartKeepsHands
=============================================================================

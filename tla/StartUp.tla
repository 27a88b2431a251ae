------------------------------ MODULE StartUp ------------------------------
(***************************************************************************)
(* Starting the process: main opens the SQLite file, which an older        *)
(* release may have left behind, brings it up to date with numbered        *)
(* migrations, seeds what is empty, fills in the demo market, and serves.  *)
(* When SQLite cannot be opened it goes on in memory.  The process may die *)
(* between any two statements.                                              *)
(***************************************************************************)
EXTENDS MarketStore

----------------------------------------------------------------------------
\* The files that exist in the world

(* A file that a release with the migrations up to version k has used: the *)
(* seed in English before version 6; duplicate saved searches before        *)
(* version 4; an offer somebody created; perhaps edits by an operator.      *)
OldFile(k, id, title) ==
  LET facets(new) == IF k < 2 THEN "absent" ELSE IF k = 2 THEN "default" ELSE new
      seeds == [i \in DOMAIN SeedIds |->
                  [SeedOffer(SeedIds[i]) EXCEPT !.title = title, !.facets = facets("given")]]
      created == [id |-> id, name |-> [from |-> "file", nr |-> 0], title |-> "own",
                  facets |-> facets("derived"), status |-> "done", progress |-> 100, signal |-> "Review"]
      n == Len(OldQueries)
      copies == IF k < 4 THEN {0, 1} ELSE {0}
  IN [columns |-> k >= 2, recorded |-> 2 .. k, offers |-> Append(seeds, created),
      triggers |-> k >= 5, index |-> IF k >= 5 THEN Entries(Append(seeds, created)) ELSE {},
      unique |-> k >= 4,
      saved |-> {[query |-> OldQueries[i], id |-> i + m * n, at |-> 0] : i \in 1 .. n, m \in copies},
      nextId |-> 2 * n + 1,
      crews |-> [c \in Elems(CrewIds) |-> IF title = "own" THEN "edited" ELSE "none"],
      static |-> Elems(Static)]

FreeIds == Ids \ (Elems(SeedIds) \cup Elems(DemoIds))

Files ==
  {NewFile} \cup
  {OldFile(k, id, title) : k \in 1 .. 6, id \in FreeIds, title \in {"german", "own"}}
  \cup
  {OldFile(k, id, "english") : k \in 1 .. 5, id \in FreeIds}

----------------------------------------------------------------------------
\* Migrations

(* backfillOfferFacets: a row with a seed's id gets the seed's facets, any *)
(* other derives them.                                                      *)
Backfilled(o) == [o EXCEPT !.facets = IF o.id \in Elems(SeedIds) THEN "given" ELSE "derived"]

(* The mutant of Deduped that relies on there being no duplicates. *)
Undeduped(rows) == rows

(* dedupeAndIndexSavedSearches *)
Deduped(rows) == {s \in rows : \A u \in rows : u.query = s.query => u.id <= s.id}

Germanised(o) ==
  IF o.id \in Elems(SeedIds) /\ o.title = "english" THEN [o EXCEPT !.title = "german"] ELSE o

(* The mutant of Rebuilt that indexes only what is written from now on. *)
TriggersOnly(t) == [t EXCEPT !.triggers = TRUE]

(* buildFullTextIndex *)
Rebuilt(t) == [t EXCEPT !.triggers = TRUE, !.index = Entries(t.offers)]

EachOnce(rows) == \A s, u \in rows : s.query = u.query => s = u

(* ALTER TABLE fails when the column is there, and CREATE UNIQUE INDEX     *)
(* when two rows are alike.                                                 *)
Applicable(v, t) == /\ v = 2 => ~t.columns
                    /\ v = 4 => EachOnce(Deduped(t.saved))

Effect(v, t) ==
  LET rows(F(_)) == [i \in DOMAIN t.offers |-> F(t.offers[i])]
  IN CASE v = 2 -> [t EXCEPT !.columns = TRUE,
                             !.offers = [i \in DOMAIN t.offers |-> [t.offers[i] EXCEPT !.facets = "default"]]]
       [] v = 3 -> Update(t, rows(Backfilled))
       [] v = 4 -> [t EXCEPT !.saved = Deduped(t.saved), !.unique = TRUE]
       [] v = 5 -> Rebuilt(t)
       [] v = 6 -> Update(t, rows(Germanised))

Recorded(v, t) == [t EXCEPT !.recorded = t.recorded \cup {v}]

----------------------------------------------------------------------------
\* Opening the store

outside == <<req, now, history, crashes, work>>

(* openStore: the error is logged, and Memory is used. *)
FallBack(why) ==
  /\ backend' = "memory" /\ mem' = NewMemory /\ tx' = NoTransaction
  /\ cause' = why
  /\ stage' = "demo" /\ todo' = <<>>
  /\ UNCHANGED <<disk, version, demoOn>>

Open ==
  /\ stage = "open"
  /\ backend' = "sqlite" /\ stage' = "check" /\ version' = 2
  /\ UNCHANGED <<disk, tx, mem, todo, demoOn, cause, faults, outside>>

(* Any call of Open fails. *)
OpenFails ==
  /\ stage \in {"open", "check", "apply", "commit", "count", "seed"}
  /\ faults < MaxFaults /\ faults' = faults + 1
  /\ FallBack("io")
  /\ UNCHANGED outside

(* applyMigration looks outside the transaction whether there is something *)
(* to do.                                                                   *)
Check ==
  /\ stage = "check"
  /\ CASE version > 6 -> stage' = "count" /\ UNCHANGED <<tx, version>>
       [] version \in disk.recorded -> version' = version + 1 /\ UNCHANGED <<stage, tx>>
       [] OTHER -> stage' = "apply" /\ tx' = disk /\ UNCHANGED version
  /\ UNCHANGED <<disk, mem, backend, todo, demoOn, cause, faults, outside>>

(* The mutant of Apply that runs the statements outside the transaction. *)
ApplyDirectly ==
  /\ stage = "apply"
  /\ IF Applicable(version, tx)
       THEN /\ disk' = Effect(version, disk)
            /\ tx' = Recorded(version, disk')
            /\ stage' = "commit"
            /\ UNCHANGED <<mem, backend, version, todo, demoOn, cause>>
       ELSE FallBack("schema")
  /\ UNCHANGED <<faults, outside>>

Apply ==
  /\ stage = "apply"
  /\ IF Applicable(version, tx)
       THEN /\ tx' = Recorded(version, Effect(version, tx))
            /\ stage' = "commit"
            /\ UNCHANGED <<disk, mem, backend, version, todo, demoOn, cause>>
       ELSE FallBack("schema")
  /\ UNCHANGED <<faults, outside>>

Commit ==
  /\ stage = "commit"
  /\ disk' = tx /\ tx' = NoTransaction
  /\ stage' = "check" /\ version' = version + 1
  /\ UNCHANGED <<mem, backend, todo, demoOn, cause, faults, outside>>

----------------------------------------------------------------------------
\* Seeding

(* seed: a table that has rows is taken to be complete.  Nobody else writes *)
(* yet, so the counts may be taken together.                                *)
Count ==
  /\ stage = "count"
  /\ todo' = (IF disk.offers = <<>> THEN SeedIds ELSE <<>>)
               \o (IF disk.static = {} THEN Static ELSE <<>>)
  /\ stage' = "seed"
  /\ UNCHANGED <<tables, version, demoOn, cause, faults, outside>>

Seed ==
  /\ stage = "seed"
  /\ IF todo = <<>>
       THEN stage' = "demo" /\ UNCHANGED <<disk, todo>>
       ELSE /\ disk' = IF Head(todo) \in Elems(SeedIds)
                         THEN Insert(disk, SeedOffer(Head(todo)))
                         ELSE [disk EXCEPT !.static = disk.static \cup {Head(todo)}]
            /\ todo' = Tail(todo)
            /\ UNCHANGED stage
  /\ UNCHANGED <<tx, mem, backend, version, demoOn, cause, faults, outside>>

(* The mutant of Demo that takes a market with rows for complete. *)
DemoIfEmpty ==
  /\ stage = "demo"
  /\ \E on \in BOOLEAN :
       /\ demoOn' = on
       /\ todo' = IF on /\ \A id \in Elems(DemoIds) : ~HasOffer(db, id)
                    THEN DemoIds \o CrewIds ELSE <<>>
  /\ stage' = "market"
  /\ UNCHANGED <<tables, version, cause, faults, outside>>

(* The environment variable MM_DEMO, as this start finds it. *)
Demo ==
  /\ stage = "demo"
  /\ \E on \in BOOLEAN :
       /\ demoOn' = on
       /\ todo' = IF on THEN DemoIds \o CrewIds ELSE <<>>
  /\ stage' = "market"
  /\ UNCHANGED <<tables, version, cause, faults, outside>>

(* mergeSeededCrew *)
Merged(stored, seed) == IF stored = seed THEN seed ELSE stored

(* The mutant of WithDemo that writes the demo market as it is shipped. *)
DemoAnew(t, x) ==
  IF x \in Elems(CrewIds) THEN [t EXCEPT !.crews[x] = "seed"]
  ELSE IF HasOffer(t, x) THEN Update(t, [t.offers EXCEPT ![RowOf(t, x)] = DemoOffer(x)])
  ELSE Insert(t, DemoOffer(x))

(* One turn of demo.Seed's loops. *)
WithDemo(t, x) ==
  IF x \in Elems(DemoIds) THEN IF HasOffer(t, x) THEN t ELSE Insert(t, DemoOffer(x))
  ELSE [t EXCEPT !.crews[x] = IF t.crews[x] = "none" THEN "seed" ELSE Merged(t.crews[x], "seed")]

Market ==
  /\ stage = "market"
  /\ IF todo = <<>>
       THEN stage' = "serving" /\ UNCHANGED <<tables, todo>>
       ELSE Write(WithDemo(db, Head(todo))) /\ todo' = Tail(todo) /\ UNCHANGED stage
  /\ UNCHANGED <<version, demoOn, cause, faults, outside>>

(* demo.Seed fails or takes longer than 30 seconds: main logs it. *)
MarketFails ==
  /\ stage = "market" /\ todo # <<>> /\ backend = "sqlite"
  /\ faults < MaxFaults /\ faults' = faults + 1
  /\ stage' = "serving"
  /\ UNCHANGED <<tables, todo, version, demoOn, cause, outside>>

(* The process dies, and is started again.  Memory and an open transaction *)
(* are gone.                                                                *)
Crash ==
  /\ crashes < MaxCrashes /\ crashes' = crashes + 1
  /\ stage' = "open" /\ version' = 2 /\ todo' = <<>>
  /\ tx' = NoTransaction /\ mem' = NewMemory /\ backend' = "sqlite" /\ cause' = "none"
  /\ req' = [r \in Requests |-> Idle]
  /\ cut' = (cut \/ \E r \in Requests : Saving(r))
  /\ UNCHANGED <<disk, demoOn, now, shown, moved, asked, faults, work>>

StartStep == Open \/ OpenFails \/ Check \/ Apply \/ Commit \/ Count \/ Seed
               \/ Demo \/ Market \/ MarketFails
=============================================================================

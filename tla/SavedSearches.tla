--------------------------- MODULE SavedSearches ---------------------------
(***************************************************************************)
(* Saving a search (internal/search and internal/store), for the searches  *)
(* of one profile.  SQLite takes three statements, each atomic, and other  *)
(* requests come in between; Memory holds its lock throughout.              *)
(***************************************************************************)
EXTENDS MarketStore

savingRest == <<boot, now, shown, moved, cause, crashes, faults>>

(* save reads the clock on its way to the store. *)
Save(r) ==
  /\ stage = "serving" /\ req[r].pc = "idle" /\ work < MaxWork /\ work' = work + 1
  /\ \E q \in Queries :
       req' = [req EXCEPT ![r] = [Idle EXCEPT !.pc = "upsert", !.query = q, !.at = now]]
  /\ UNCHANGED <<tables, asked, cut, savingRest>>

(* The mutant of Kept that orders by id alone. *)
KeptById(rows) == LatestIds(rows, Keep)

(* The mutant of Kept that is one off. *)
KeptOneMore(rows) == NewestOf(rows, Keep + 1)

Kept(rows) == NewestOf(rows, Keep)

Upsert(r) ==
  /\ req[r].pc = "upsert"
  /\ LET t == Renew(db, req[r].query, req[r].at)
     IN IF backend = "sqlite"
          THEN Write(t) /\ Continues(r, "find")
          ELSE Write([t EXCEPT !.saved = Kept(t.saved)]) /\ Returns(r)
  /\ asked' = IF backend = "sqlite" THEN [asked EXCEPT ![req[r].query] = req[r].at] ELSE asked
  /\ UNCHANGED <<cut, work, savingRest>>

(* SELECT id: another save may have pushed the row out, an error 500. *)
Find(r) ==
  /\ req[r].pc = "find"
  /\ IF \E s \in db.saved : s.query = req[r].query THEN Continues(r, "trim") ELSE Returns(r)
  /\ UNCHANGED <<tables, asked, cut, work, savingRest>>

Trim(r) ==
  /\ req[r].pc = "trim"
  /\ Write([db EXCEPT !.saved = Kept(db.saved)])
  /\ Returns(r)
  /\ cut' = FALSE
  /\ UNCHANGED <<asked, work, savingRest>>

(* The client goes away: the next call of SQLite fails, Memory goes on. *)
Cancel(r) ==
  /\ req[r].pc # "idle" /\ backend = "sqlite"
  /\ cut' = (cut \/ Saving(r))
  /\ Returns(r)
  /\ UNCHANGED <<tables, asked, work, savingRest>>

SavingStep(r) == Save(r) \/ Upsert(r) \/ Find(r) \/ Trim(r) \/ Cancel(r)
=============================================================================

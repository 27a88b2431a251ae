------------------------------ MODULE Pipeline ------------------------------
(***************************************************************************)
(* The pipeline of offers (internal/web): pages that list them, the form   *)
(* that creates one, and the buttons that move one to another status.  A   *)
(* button sends the id its card showed when the page was rendered.          *)
(***************************************************************************)
EXTENDS MarketStore

pipelineRest == <<boot, now, asked, cut, cause, crashes, faults>>

(* A request in hand: the process serves, and the bound is not reached. *)
Accepts(r) == stage = "serving" /\ req[r].pc = "idle" /\ work < MaxWork /\ work' = work + 1

(* createOffer: the form has no field for the progress, and the signal is  *)
(* always OK.  A taken id is an error 500.                                  *)
Create(r) ==
  /\ Accepts(r)
  /\ \E st \in Statuses :
       LET o == [id |-> now % Wrap, name |-> [from |-> "form", nr |-> work'], title |-> "own", facets |-> "unset",
                 status |-> st, progress |-> 0, signal |-> "OK"]
       IN IF CanCreate(db, o.id)
            THEN Write(Insert(db, o)) /\ Continues(r, "page")
            ELSE UNCHANGED <<tables, req>>
  /\ UNCHANGED <<shown, moved, pipelineRest>>

(* advanceOffer, up to the offer it reads: a button of any page ever shown. *)
Click(r) ==
  /\ Accepts(r)
  /\ \E card \in shown, st \in Statuses :
       IF HasOffer(db, card.id)
         THEN req' = [req EXCEPT ![r] = [Idle EXCEPT !.pc = "update", !.card = card, !.status = st,
                                                     !.copy = db.offers[RowOf(db, card.id)]]]
         ELSE UNCHANGED req
  /\ UNCHANGED <<tables, shown, moved, pipelineRest>>

(* The mutant of Moved that leaves the signal alone. *)
MovedSilently(o, st) ==
  [o EXCEPT !.status = st, !.progress = IF st = "done" THEN 100 ELSE o.progress]

(* The mutant of Moved that counts a move as progress. *)
MovedFurther(o, st) ==
  [o EXCEPT !.status = st, !.progress = o.progress + 50,
            !.signal = CASE st = "done" -> "Review" [] st = "open" -> "OK" [] OTHER -> o.signal]

(* What a move to the status st makes of an offer. *)
Moved(o, st) ==
  [o EXCEPT !.status = st,
            !.progress = IF st = "done" THEN 100 ELSE o.progress,
            !.signal = CASE st = "done" -> "Review" [] st = "open" -> "OK" [] OTHER -> o.signal]

(* UpdateOffer writes the whole row as it was read, with the move.  It     *)
(* finds the row: offers are never deleted.                                 *)
Advance(r) ==
  /\ req[r].pc = "update"
  /\ LET o == Moved(req[r].copy, req[r].status)
     IN /\ Write(Update(db, [db.offers EXCEPT ![RowOf(db, o.id)] = o]))
        /\ moved' = moved \cup {o.name}
  /\ req' = [req EXCEPT ![r] = [Idle EXCEPT !.pc = "page"]]
  /\ UNCHANGED <<shown, work, pipelineRest>>

(* dashboard: a visit, or the answer to a form or a button. *)
Page(r) ==
  /\ stage = "serving" /\ req[r].pc \in {"idle", "page"}
  /\ shown' = shown \cup {[id |-> db.offers[i].id, name |-> db.offers[i].name, store |-> backend] :
                            i \in DOMAIN db.offers}
  /\ Returns(r)
  /\ UNCHANGED <<tables, moved, work, pipelineRest>>

PipelineStep(r) == Create(r) \/ Click(r) \/ Advance(r) \/ Page(r)
=============================================================================

------------------------------- MODULE Market -------------------------------
(***************************************************************************)
(* The marketplace from the first start on: start-up, the pipeline and the *)
(* saved searches over the same tables, with restarts in between.           *)
(***************************************************************************)
EXTENDS StartUp, Pipeline, SavedSearches

Tick == /\ now < MaxNow /\ now' = now + 1
        /\ UNCHANGED <<tables, boot, req, history, cause, crashes, faults, work>>

Init ==
  /\ disk \in Files /\ tx = NoTransaction /\ mem = NewMemory /\ backend = "sqlite"
  /\ stage = "open" /\ version = 2 /\ todo = <<>> /\ demoOn = TRUE
  /\ req = [r \in Requests |-> Idle]
  /\ now = 0 /\ shown = {} /\ moved = {} /\ asked = [q \in Queries |-> 0]
  /\ cut = FALSE /\ cause = "none" /\ crashes = 0 /\ faults = 0 /\ work = 0

Next == \/ StartStep \/ Crash \/ Tick
        \/ \E r \in Requests : PipelineStep(r) \/ SavingStep(r)

Spec == Init /\ [][Next]_vars

----------------------------------------------------------------------------
\* Properties

(* Types of the marketplace's state. *)
TypeOK ==
  /\ disk \in Tables /\ tx \in Tables /\ mem \in Tables
  /\ backend \in {"sqlite", "memory"} /\ version \in 2 .. 7
  /\ stage \in {"open", "check", "apply", "commit", "count", "seed", "demo", "market", "serving"}
  /\ todo \in Seq(Ids \cup Elems(CrewIds) \cup Elems(Static)) /\ demoOn \in BOOLEAN
  /\ req \in [Requests -> Request] /\ now \in 0 .. MaxNow
  /\ shown \subseteq Card /\ asked \in [Queries -> 0 .. MaxNow] /\ cut \in BOOLEAN
  /\ cause \in {"none", "io", "schema"}

(* Whenever the process dies, a migration is on file as done exactly when  *)
(* what it does has been done to the tables (applyMigration).               *)
RecordedIsDone ==
  LET facets == {disk.offers[i].facets : i \in DOMAIN disk.offers}
      titles == {disk.offers[i].title : i \in DOMAIN disk.offers}
  IN /\ 2 \in disk.recorded <=> disk.columns
     /\ 2 \in disk.recorded => "absent" \notin facets
     /\ 3 \in disk.recorded => "default" \notin facets
     /\ 3 \notin disk.recorded => facets \subseteq {"absent", "default"}
     /\ 4 \in disk.recorded <=> disk.unique
     /\ 4 \in disk.recorded => EachOnce(disk.saved)
     /\ 5 \in disk.recorded <=> disk.triggers
     /\ 6 \in disk.recorded => "english" \notin titles

(* However often start-up was interrupted, and whatever release left the   *)
(* file behind, SQLite is given up only when the disk fails: no migration  *)
(* fails, for instance because it is applied again.                         *)
OpensUnlessBroken == backend = "memory" => cause = "io"

(* The full-text index holds what the offers say, from migration 5 on,     *)
(* whether a row was there before the index or written since.               *)
IndexFollowsTable == disk.triggers => disk.index = Entries(disk.offers)

(* A card that SQLite filled names one offer for good, so a button on a    *)
(* page of any age moves the offer that the page shows, or nothing: the    *)
(* seconds may give an id again, but then no offer is created.              *)
CardsAreNeverMistaken ==
  \A card \in shown : card.store = "sqlite" =>
    \A i \in DOMAIN disk.offers : disk.offers[i].id = card.id => disk.offers[i].name = card.name

(* Of two moves that overlap, the whole of one stands: a moved offer that  *)
(* is done is complete and asks for a review, and one that is open is fine. *)
MovesAreWhole ==
  \A i \in DOMAIN db.offers :
    LET o == db.offers[i]
    IN o.name \in moved =>
         /\ o.status = "done" => o.progress = 100 /\ o.signal = "Review"
         /\ o.status = "open" => o.signal = "OK"

(* Once the process serves with the demo market on, every id of it is      *)
(* there, also when an earlier start died half way through seeding.         *)
DemoComplete ==
  stage = "serving" /\ demoOn /\ todo = <<>> =>
    /\ \A id \in Elems(DemoIds) : HasOffer(db, id)
    /\ \A c \in Elems(CrewIds) : db.crews[c] # "none"

(* A profile's searches are each saved once, and there are no more than    *)
(* Keep unless a save is under way or was cut short.                        *)
SavedAreTidy ==
  db.unique \/ backend = "memory" =>
    /\ EachOnce(db.saved)
    /\ Cardinality(db.saved) > Keep => cut \/ \E r \in Requests : Saving(r)

(* Starting up never changes what people did: an offer keeps its status,   *)
(* progress and signal, and a title of their own; an edited crew stays      *)
(* edited; nothing disappears.                                              *)
StartKeepsHands ==
  [][stage # "serving" =>
       /\ \A i \in DOMAIN disk.offers :
            /\ i \in DOMAIN disk'.offers
            /\ LET o == disk.offers[i] p == disk'.offers[i]
               IN /\ <<o.id, o.name, o.status, o.progress, o.signal>>
                       = <<p.id, p.name, p.status, p.progress, p.signal>>
                  /\ o.title = "own" => p.title = "own"
       /\ \A c \in Elems(CrewIds) : disk.crews[c] = "edited" => disk'.crews[c] = "edited"
       /\ {s.query : s \in disk.saved} = {s.query : s \in disk'.saved}]_vars

(* A saved search is dropped only for Keep others that were saved no       *)
(* earlier than it was, when it was saved last.                             *)
NewestSearchesStay ==
  [][stage = "serving" /\ stage' = "serving" /\ backend = "sqlite" =>
       \A s \in disk.saved : s \notin disk'.saved /\ (\A u \in disk'.saved : u.query # s.query) =>
         Cardinality({u \in disk'.saved : asked[u.query] >= asked[s.query]}) >= Keep]_vars
=============================================================================

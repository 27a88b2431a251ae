------------------------------ MODULE Profiles ------------------------------
(***************************************************************************)
(* What the app remembers of a visitor: a row of facts, filled by turns of *)
(* the onboarding and edits of the profile panel (internal/onboarding),    *)
(* found again by a cookie, which an example persona (internal/demo)       *)
(* borrows for a while.                                                    *)
(*                                                                         *)
(* Requests carry the cookies as they were when they were sent, and set    *)
(* them when they are answered; a turn reads its profile, waits for the    *)
(* model, and writes the whole row.                                        *)
(*                                                                         *)
(* A tab of the model has one request at a time.  A page that sends an     *)
(* edit of its panel while its prompt is still being answered is two tabs  *)
(* of one browser here, and so are two windows.                            *)
(*                                                                         *)
(* A fact is one value of one of the six fields that onboarding asks for.  *)
(* Company, languages and notes are left out: no question asks for them.   *)
(***************************************************************************)
EXTENDS Naturals, FiniteSets

CONSTANTS
  Tabs,          \* where a browser has one request at a time
  Browsers,      \* what they belong to: one cookie jar each
  BrowserOf,     \* the browser of a tab
  Personas,      \* the rows of example personas, shared by whoever enters them
  Facts,         \* values that a field may have
  FieldOf,       \* the field of a fact
  Role,          \* the field that says which side the visitor is on
  Regions,       \* the list that an edit sets as a whole
  Single,        \* the fields of one value: role, crew size, availability
  Example,       \* the facts of a persona
  KnownFields,   \* fields that make a profile known (3 of 6 in the code)
  None,          \* no profile
  MaxProfiles, MaxRequests, MaxCrashes, MaxExpiries  \* bounds of the model

Own == 1 .. MaxProfiles     \* newID never repeats: ids are numbered
Ids == Own \cup Personas

(* A field of one value has one, and a list has any number. *)
Row == {facts \in SUBSET Facts : \A f, g \in facts :
          FieldOf[f] = FieldOf[g] /\ FieldOf[f] \in Single => f = g}

ASSUME ProfilesAssumption ==
  /\ BrowserOf \in [Tabs -> Browsers]
  /\ IsFiniteSet(Facts) /\ DOMAIN FieldOf = Facts /\ Regions \notin Single /\ Example \in Row
  /\ None \notin Ids /\ Personas \cap Own = {}
  /\ KnownFields \in Nat
  /\ MaxProfiles \in Nat /\ MaxRequests \in Nat /\ MaxCrashes \in Nat /\ MaxExpiries \in Nat

VARIABLES
  backend,   \* the store main opened: "sqlite", or "memory" when it could not
  profiles,  \* the profiles table: the facts of every id there is
  disk,      \* the rows in SQLite's file while the store is in memory
  created,   \* how many visitors' own profiles were created
  skips,     \* turns in a row that taught a profile nothing; two count as many
  jar,       \* each browser's cookies: "me" the profile, "prev" the way back
  dated,     \* whether "me" was set after "prev", and so expires after it
  home,      \* the profile a visitor calls their own (history)
  page,      \* whether a tab shows the persona banner with its way out
  pc,        \* what is next for the request of a tab
  sent,      \* the cookies it carries
  set,       \* the cookies its answer will set
  who,       \* the profile it works on
  base,      \* the facts it read there
  says, takes,    \* the facts it names: to add, and to remove
  late,      \* what other requests of its browser have changed there since (history)
  requests, crashes, expiries  \* counters of the model's bounds

store  == <<backend, disk>>
tables == <<profiles, created, skips>>
client == <<jar, dated, home, page>>
work   == <<who, base, says, takes, late>>
bounds == <<requests, crashes, expiries>>
vars   == <<store, tables, client, pc, sent, set, work, bounds>>

----------------------------------------------------------------------------
\* Values

NoRows == [i \in {} |-> {}]

Cookies == {"me", "prev"}

(* Profile.Known: the role, and enough of the rest. *)
Known(facts) ==
  LET filled == {FieldOf[f] : f \in facts}
  IN  Role \in filled /\ Cardinality(filled) >= KnownFields

With(f, x, v) == [y \in DOMAIN f \cup {x} |-> IF y = x THEN v ELSE f[y]]

Init ==
  /\ backend \in {"sqlite", "memory"} /\ disk = NoRows
  /\ profiles = NoRows /\ created = 0
  /\ skips = [i \in Ids |-> 0]
  /\ jar   = [b \in Browsers |-> [c \in Cookies |-> None]]
  /\ dated = [b \in Browsers |-> FALSE]
  /\ home  = [b \in Browsers |-> None]
  /\ page  = [t \in Tabs |-> FALSE]
  /\ pc    = [t \in Tabs |-> "idle"]
  /\ sent  = [t \in Tabs |-> [c \in Cookies |-> None]]
  /\ set   = [t \in Tabs |-> [c \in {} |-> None]]
  /\ who   = [t \in Tabs |-> None]
  /\ base  = [t \in Tabs |-> {}]
  /\ says  = [t \in Tabs |-> {}]
  /\ takes = [t \in Tabs |-> {}]
  /\ late  = [t \in Tabs |-> {}]
  /\ requests = 0 /\ crashes = 0 /\ expiries = 0

Goto(t, label) == pc' = [pc EXCEPT ![t] = label]

----------------------------------------------------------------------------
\* The browser

(* A request is sent with the cookies of its browser.  Only a page that     *)
(* shows the banner has a way out of a persona.                             *)
Send(t, kind) ==
  /\ pc[t] = "idle" /\ requests < MaxRequests
  /\ kind = "leave" => page[t]
  /\ Goto(t, kind)
  /\ sent' = [sent EXCEPT ![t] = jar[BrowserOf[t]]]
  /\ requests' = requests + 1
  /\ UNCHANGED <<store, tables, client, set, work, crashes, expiries>>

SendEnter(t, persona) ==
  /\ pc[t] = "idle" /\ requests < MaxRequests
  /\ Goto(t, "enter")
  /\ sent' = [sent EXCEPT ![t] = jar[BrowserOf[t]]]
  /\ who' = [who EXCEPT ![t] = persona]
  /\ requests' = requests + 1
  /\ UNCHANGED <<store, tables, client, set, base, says, takes, late, crashes, expiries>>

(* A form of the profile panel sets a value of a field, or removes one: the *)
(* form that removes the value of a field of one value need not name it.    *)
SendEdit(t, fact, add) ==
  /\ pc[t] = "idle" /\ requests < MaxRequests
  /\ Goto(t, "edit")
  /\ sent' = [sent EXCEPT ![t] = jar[BrowserOf[t]]]
  /\ says'  = [says EXCEPT ![t] = IF add THEN {fact} ELSE {}]
  /\ takes' = [takes EXCEPT ![t] =
                 IF add THEN {}
                 ELSE {f \in Facts : /\ FieldOf[f] = FieldOf[fact]
                                     /\ f = fact \/ FieldOf[f] \in Single}]
  /\ requests' = requests + 1
  /\ UNCHANGED <<store, tables, client, set, who, base, late, crashes, expiries>>

(* The request is over; its local variables go. *)
Over(t) ==
  /\ Goto(t, "idle")
  /\ sent'  = [sent EXCEPT ![t] = [c \in Cookies |-> None]]
  /\ set'   = [set EXCEPT ![t] = [c \in {} |-> None]]
  /\ who'   = [who EXCEPT ![t] = None]
  /\ base'  = [base EXCEPT ![t] = {}]
  /\ says'  = [says EXCEPT ![t] = {}]
  /\ takes' = [takes EXCEPT ![t] = {}]
  /\ late'  = [late EXCEPT ![t] = {}]

(* The answer arrives: cookies are set, and the page shows who one is.      *)
Answer(t) ==
  LET b == BrowserOf[t]
      new == [c \in Cookies |-> IF c \in DOMAIN set[t] THEN set[t][c] ELSE jar[b][c]]
  IN  /\ pc[t] = "answer"
      /\ jar' = [jar EXCEPT ![b] = new]
      /\ dated' = [dated EXCEPT ![b] = IF "prev" \in DOMAIN set[t] THEN FALSE
                                       ELSE @ \/ "me" \in DOMAIN set[t]]
      /\ home' = [home EXCEPT ![b] = IF DOMAIN set[t] = {"me"} /\ new["me"] \notin Personas
                                     THEN new["me"] ELSE @]
      /\ page' = [page EXCEPT ![t] = new["me"] \in Personas]
      /\ Over(t)
      /\ UNCHANGED <<store, tables, bounds>>

(* The answer is lost on the way. *)
AnswerLost(t) ==
  /\ pc[t] = "answer"
  /\ Over(t)
  /\ UNCHANGED <<store, tables, client, bounds>>

(* The way back was set for a day when the first persona was entered; a     *)
(* persona entered after it lasts longer.                                   *)
Expire(b) ==
  /\ expiries < MaxExpiries
  /\ dated[b] /\ jar[b]["me"] \in Personas /\ jar[b]["prev"] # None
  /\ jar' = [jar EXCEPT ![b]["prev"] = None]
  /\ expiries' = expiries + 1
  /\ UNCHANGED <<store, tables, dated, home, page, pc, sent, set, work, requests, crashes>>

----------------------------------------------------------------------------
\* Finding the profile

(* Ensure: the row the cookie names, or a new one and a cookie for it. *)
Ensure(t, next) ==
  /\ Goto(t, next)
  /\ IF sent[t]["me"] \in DOMAIN profiles
     THEN /\ who' = [who EXCEPT ![t] = sent[t]["me"]]
          /\ base' = [base EXCEPT ![t] = profiles[sent[t]["me"]]]
          /\ UNCHANGED <<profiles, created, set>>
     ELSE /\ created < MaxProfiles
          /\ created' = created + 1
          /\ who' = [who EXCEPT ![t] = created']
          /\ base' = [base EXCEPT ![t] = {}]
          /\ profiles' = With(profiles, created', {})
          /\ set' = [set EXCEPT ![t] = With(@, "me", created')]

(* Mutant of Current: a profile that is not found is not noticed. *)
CurrentUnchecked(t, next) ==
  /\ who' = [who EXCEPT ![t] = sent[t]["me"]]
  /\ base' = [base EXCEPT ![t] = IF sent[t]["me"] \in DOMAIN profiles
                                 THEN profiles[sent[t]["me"]] ELSE {}]
  /\ Goto(t, next)

(* Current: the same without creating one; the caller answers "no content". *)
Current(t, next) ==
  IF sent[t]["me"] \in DOMAIN profiles
  THEN /\ who' = [who EXCEPT ![t] = sent[t]["me"]]
       /\ base' = [base EXCEPT ![t] = profiles[sent[t]["me"]]]
       /\ Goto(t, next)
  ELSE Goto(t, "answer") /\ UNCHANGED <<who, base>>

----------------------------------------------------------------------------
\* Onboarding

(* start, and a turn without a message. *)
Start(t) ==
  /\ pc[t] = "start"
  /\ Ensure(t, "answer")
  /\ UNCHANGED <<store, skips, client, sent, says, takes, late, bounds>>

(* /ask: a question about the app goes to the assistant, a known visitor's  *)
(* prompt to the search, and anything else is a turn, which asks for the    *)
(* profile once more: of the same request, whose cookies are what they were.*)
Ask(t) ==
  /\ pc[t] = "ask"
  /\ \/ Ensure(t, "answer")
     \/ Ensure(t, "turn") /\ ~Known(base'[t])
  /\ UNCHANGED <<store, skips, client, sent, says, takes, late, bounds>>

Turn(t) ==
  /\ pc[t] = "turn"
  /\ Ensure(t, "learn")
  /\ UNCHANGED <<store, skips, client, sent, says, takes, late, bounds>>

(* Extract finds values to add; ExtractCorrection also some to remove from  *)
(* the lists it read, which comes first: a value that it adds as well stays.*)
Learn(t) ==
  /\ pc[t] = "learn"
  /\ \E added \in Row, removed \in SUBSET {f \in base[t] : FieldOf[f] \notin Single} :
       /\ added \cap removed = {}
       /\ says'  = [says EXCEPT ![t] = added]
       /\ takes' = [takes EXCEPT ![t] = removed]
  /\ Goto(t, "save")
  /\ UNCHANGED <<store, tables, client, sent, set, who, base, late, bounds>>

(* What a said value takes the place of: the value of a field that has one, *)
(* and, when it is an edit, the list of regions.                            *)
Replaced(t) ==
  {f \in Facts : \E g \in says[t] :
     /\ f # g /\ FieldOf[f] = FieldOf[g]
     /\ FieldOf[f] \in Single \/ (FieldOf[f] = Regions /\ pc[t] = "apply")}

(* Mutant of Merged: what the model sees replaces the profile. *)
MergedReplaces(t) == says[t]

Merged(t) == ((base[t] \ takes[t]) \ Replaced(t)) \cup says[t]

(* A request of the same browser that has read the row and not written it. *)
Overtaken(u, t) ==
  /\ u # t /\ BrowserOf[u] = BrowserOf[t] /\ who[u] = who[t]
  /\ pc[u] \in {"learn", "save", "apply"}

(* UpsertProfile writes the whole row. *)
Upsert(t) ==
  LET now == profiles[who[t]]
  IN  /\ profiles' = With(profiles, who[t], Merged(t))
      /\ late' = [u \in Tabs |-> IF Overtaken(u, t)
                                  THEN late[u] \cup (now \ Merged(t)) \cup (Merged(t) \ now)
                                  ELSE late[u]]
      /\ UNCHANGED <<who, base, says, takes>>

SaveTurn(t) ==
  /\ pc[t] = "save"
  /\ Upsert(t)
  /\ Goto(t, "note")
  /\ UNCHANGED <<store, created, skips, client, sent, set, bounds>>

(* The 90 seconds are over, or the client has gone, which Memory ignores. *)
TurnFails(t) ==
  /\ pc[t] = "save" /\ backend = "sqlite"
  /\ Goto(t, "answer")
  /\ UNCHANGED <<store, tables, client, sent, set, work, bounds>>

(* noteTurn *)
Note(t) ==
  /\ pc[t] = "note"
  /\ skips' = [skips EXCEPT ![who[t]] = IF Merged(t) # base[t] THEN 0
                                        ELSE IF @ = 0 THEN 1 ELSE 2]
  /\ Goto(t, "answer")
  /\ UNCHANGED <<store, profiles, created, client, sent, set, work, bounds>>

Edit(t) ==
  /\ pc[t] = "edit"
  /\ Current(t, "apply")
  /\ UNCHANGED <<store, tables, client, sent, set, says, takes, late, bounds>>

(* ApplyEdit and UpsertProfile. *)
SaveEdit(t) ==
  /\ pc[t] = "apply"
  /\ Upsert(t)
  /\ Goto(t, "resetTurns")
  /\ UNCHANGED <<store, created, skips, client, sent, set, bounds>>

Finish(t) ==
  /\ pc[t] = "finish"
  /\ Current(t, "resetTurns")
  /\ UNCHANGED <<store, tables, client, sent, set, says, takes, late, bounds>>

ResetTurns(t) ==
  /\ pc[t] = "resetTurns"
  /\ skips' = [skips EXCEPT ![who[t]] = 0]
  /\ Goto(t, "answer")
  /\ UNCHANGED <<store, profiles, created, client, sent, set, work, bounds>>

(* reset: the visitor starts over. *)
Reset(t) ==
  /\ pc[t] = "reset"
  /\ set' = [set EXCEPT ![t] = [c \in {"me"} |-> None]]
  /\ Goto(t, "answer")
  /\ UNCHANGED <<store, tables, client, sent, work, bounds>>

----------------------------------------------------------------------------
\* Personas

EnterAs(t, remembers) ==
  /\ pc[t] = "enter"
  /\ profiles' = With(profiles, who[t], Example)
  /\ set' = [set EXCEPT ![t] =
               [c \in IF remembers THEN Cookies ELSE {"me"} |->
                  IF c = "me" THEN who[t] ELSE sent[t]["me"]]]
  /\ Goto(t, "answer")
  /\ UNCHANGED <<store, created, skips, client, sent, work, bounds>>

(* Mutant of Enter: the way back out of a second persona is the first. *)
EnterAlwaysRemembers(t) == EnterAs(t, sent[t]["me"] # None)

(* enter: the persona's row is made, or made anew; the visitor's own cookie *)
(* is put aside, unless there is none or it is a persona's.                 *)
Enter(t) == EnterAs(t, sent[t]["me"] # None /\ sent[t]["me"] \notin Personas)

(* leave: the cookie put aside, or none. *)
Leave(t) ==
  /\ pc[t] = "leave"
  /\ set' = [set EXCEPT ![t] = [c \in Cookies |-> IF c = "me" THEN sent[t]["prev"] ELSE None]]
  /\ Goto(t, "answer")
  /\ UNCHANGED <<store, tables, client, sent, work, bounds>>

(* The process dies and starts again: requests are lost, cookies are not.   *)
(* Where SQLite cannot be opened, the new one starts with no rows.          *)
Crash ==
  /\ crashes < MaxCrashes
  /\ crashes' = crashes + 1
  /\ LET rows == IF backend = "sqlite" THEN profiles ELSE disk
     IN  \/ backend' = "sqlite" /\ profiles' = rows /\ disk' = NoRows
         \/ backend' = "memory" /\ profiles' = NoRows /\ disk' = rows
  /\ skips' = [i \in Ids |-> 0]
  /\ pc'   = [t \in Tabs |-> "idle"]
  /\ sent' = [t \in Tabs |-> [c \in Cookies |-> None]]
  /\ set'  = [t \in Tabs |-> [c \in {} |-> None]]
  /\ who'  = [t \in Tabs |-> None]
  /\ base' = [t \in Tabs |-> {}]
  /\ says' = [t \in Tabs |-> {}] /\ takes' = [t \in Tabs |-> {}] /\ late' = [t \in Tabs |-> {}]
  /\ UNCHANGED <<created, client, requests, expiries>>

----------------------------------------------------------------------------
\* Specification

Kinds == {"start", "ask", "turn", "finish", "reset", "leave"}

Next ==
  \/ \E t \in Tabs, kind \in Kinds : Send(t, kind)
  \/ \E t \in Tabs, persona \in Personas : SendEnter(t, persona)
  \/ \E t \in Tabs, fact \in Facts, add \in BOOLEAN : SendEdit(t, fact, add)
  \/ \E t \in Tabs :
       \/ Start(t) \/ Ask(t) \/ Turn(t) \/ Learn(t) \/ SaveTurn(t) \/ TurnFails(t) \/ Note(t)
       \/ Edit(t) \/ SaveEdit(t) \/ Finish(t) \/ ResetTurns(t) \/ Reset(t)
       \/ Enter(t) \/ Leave(t) \/ Answer(t) \/ AnswerLost(t)
  \/ \E b \in Browsers : Expire(b)
  \/ Crash

Spec == Init /\ [][Next]_vars

----------------------------------------------------------------------------
\* Properties

Jar == [Cookies -> Ids \cup {None}]

TypeOK ==
  /\ backend \in {"sqlite", "memory"} /\ DOMAIN disk \subseteq Ids
  /\ DOMAIN profiles \subseteq Ids
  /\ \A i \in DOMAIN profiles : profiles[i] \in Row
  /\ created \in 0 .. MaxProfiles
  /\ skips \in [Ids -> 0 .. 2]
  /\ jar \in [Browsers -> Jar] /\ dated \in [Browsers -> BOOLEAN]
  /\ home \in [Browsers -> Own \cup {None}] /\ page \in [Tabs -> BOOLEAN]
  /\ pc \in [Tabs -> Kinds \cup {"idle", "enter", "edit", "learn", "save", "note", "apply",
                                 "resetTurns", "answer"}]
  /\ sent \in [Tabs -> Jar]
  /\ set \in [Tabs -> UNION {[C -> Ids \cup {None}] : C \in SUBSET Cookies}]
  /\ who \in [Tabs -> Ids \cup {None}]
  /\ base \in [Tabs -> Row] /\ says \in [Tabs -> Row]
  /\ takes \in [Tabs -> SUBSET Facts] /\ late \in [Tabs -> SUBSET Facts]
  /\ requests \in Nat /\ crashes \in Nat /\ expiries \in Nat

(* What a request asks of a fact: to be there, to go, or to give way to a   *)
(* value it says of the same field.                                         *)
Named(t) == says[t] \cup takes[t] \cup Replaced(t)

(* "a correction only ever touches what the visitor is correcting", as any  *)
(* turn should: a visitor's own profile gains and loses only facts that the *)
(* turn which writes it asks about.                                         *)
OnlyWhatWasSaid ==
  [][\A t \in Tabs, f \in Facts :
       /\ who[t] \in Own /\ pc[t] = "save" /\ pc'[t] = "note"
       /\ (f \in profiles[who[t]]) # (f \in profiles'[who[t]])
       => f \in Named(t)]_profiles

(* As far as that goes: what a turn or an edit changes beyond what it asks, *)
(* it puts back to what it read, after another request of the same browser  *)
(* changed it in between.  No other visitor, persona, restart or lost       *)
(* answer makes a fact come or go.                                          *)
UndoneOnlyByOverlap ==
  [][\A i \in Own \cap DOMAIN profiles \cap DOMAIN profiles', f \in Facts :
       (f \in profiles[i]) # (f \in profiles'[i]) =>
          \E t \in Tabs : /\ who[t] = i /\ pc'[t] # pc[t] /\ pc[t] \in {"save", "apply"}
                          /\ f \in Named(t) \/ (f \in late[t] /\ (f \in profiles'[i]) = (f \in base[t]))]_profiles

(* A browser with one request under way at a time. *)
Alone(b) == \A t, u \in Tabs : BrowserOf[t] = b /\ BrowserOf[u] = b => t = u

(* The visitor's own profile is in the cookie, or leaving brings it back. *)
LeadsHome(b) ==
  home[b] # None => \/ jar[b]["me"] = home[b]
                    \/ jar[b]["me"] \in Personas /\ jar[b]["prev"] = home[b]

(* "leave restores the visitor's own profile": whatever personas a visitor  *)
(* enters and leaves, and whatever store a restart finds, their own profile *)
(* is the one in the cookie, or the one that leaving brings back.           *)
WayBackLasts == \A b \in Browsers : LeadsHome(b)

(* As far as that goes: until a cookie that remembers it has expired, for a *)
(* visitor who has one request under way at a time, whatever others do.     *)
WayBack == expiries = 0 => \A b \in Browsers : Alone(b) => LeadsHome(b)
============================================================================

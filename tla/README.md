# mm-machine, modelled and verified

mm-machine is one Go process: an HTTP server that renders a marketplace for
assembly crews, a store (SQLite, or memory when SQLite cannot be opened), a
client of a language model, and one background goroutine. This directory holds
TLA+ modules of its parts, the TLC instances that check them, and theorems
about them that TLAPS proves.

All paths below are under `src/`.

## 1. The system

The interesting shape is everywhere the same: a handler reads rows, waits for
the model (up to 90 seconds), and writes rows. Apart from the overlap flag and a
turn counter, nothing but the store is locked,
so two requests, or a request and a goroutine, interleave between any two of
their store calls; a browser holds pages rendered long ago; a client that goes
away cancels its request's context, and then every later SQLite call of that
request fails while Memory does not look at contexts at all.

| Component | State | Operations | Talks to |
|---|---|---|---|
| dev loop (`internal/devloop`) | overlap flag, last error; reads and writes feedback, backlog, `docs/backlog.md` | page, refresh, set status, ticker | store, model |
| assistant (`internal/assistant`) | none of its own; messages and feedback in the store; open bubbles in the browser | open, turn, stream, message, ask, widget, background mining | store, model |
| store (`internal/store`) | tables offers, conversations, messages, feedback, backlog, profiles, saved searches, crews | one atomic operation per call; numbered migrations at start | SQLite |
| onboarding (`internal/onboarding`) | profile cookie, profile row, per-profile turn counter in memory | start, turn, stream, edit, finish, reset | store, model |
| demo (`internal/demo`) | persona profile, the visitor's own cookie kept aside | seed, enter, leave | store |
| search (`internal/search`) | saved searches | query, refine, widen, rank, stream an explanation, save | store, model |
| pipeline (`internal/web`) | offers | create, advance, list | store |
| model client (`internal/llm`) | none | Chat, Stream, JSON with retries | HTTP |
| routing, start-up (`main.go`) | the store that was opened | open store, seed, `/ask` | all |

**Dev loop.** `regenerateGuarded` sets a flag under a mutex, refuses when it is
set, and runs `Regenerate`: list feedback (newest 500), list the backlog,
cluster in chunks by the model (or mechanically by theme), build ranked
entries, replace the backlog, mark the consumed feedback triaged, write a
document. People set the status of single items, by id, on a page that may be
old. Correct means: one regeneration at a time and never a stuck flag; ids that
name one theme for ever; decisions that survive; feedback triaged only when an
item counts it, and triaged in the end; a ticker that is never locked out.

**Assistant.** A turn stores the message and answers with a bubble whose
EventSource fetches the answer in a second request. Storing the answer starts a
goroutine that lists the conversation, lets the model extract feedback, lists
the feedback logged so far, and logs the rest one by one. Correct means: a
generated answer is not lost with the client; a complaint that a pass read is
logged; nothing is logged twice.

**Store.** Memory holds one mutex per call; SQLite has one connection, and a
transaction where a call has several statements. The two differ where it
matters: Memory keeps the ids and statuses it is given, SQLite numbers every
backlog row anew and re-reads the statuses in its transaction; Memory ignores
contexts; Memory forgets everything when the process ends.

**Onboarding, demo.** A turn reads the profile, waits for the model, writes the
whole row; edits of the same row do not wait. The profile cookie moves between
the visitor's own profile and a persona's, with a second cookie to come back.
Correct means: an edit is not undone by a turn that began before it; entering,
switching and leaving personas in any order returns to the visitor's profile.

**Search.** `Query` parses the sentence (by the model, or by spotting words),
lists offers by an exact filter, widens one facet at a time when nothing fits,
adds crews, and renders six cards and up to six chips; a sentence about them is
streamed afterwards and changes no state.
Each list is a call of its own, and pages stay in the thread. Correct
means: what the sentence excludes stays excluded however far the search is
widened; the notice says what was dropped; nobody meets an empty page while the
market has something; a chip leads somewhere.

**Pipeline and start-up.** An offer moves by reading and writing its whole row,
from a button on a page of any age; ids come from the clock. Start-up migrates
the file an older release left, seeds it, fills in the demo market, and may die
anywhere. Correct means: of two moves that overlap one stands whole; a button
never moves another offer; a migration is done wholly and once; no start changes
what people did.

**Model client.** Three attempts with backoff, more room after an empty answer, a
JSON question asked twice at most. Correct means: no text of two attempts is
mixed; a retry never follows text that was delivered; no request leaves the
bounds; every call ends although the endpoint stays silent.

`PROJECT.json` lists every hazard found with the line where it bites, and the
properties that would catch it going wrong.

## 2. Modules

| Module | What it is |
|---|---|
| `DevLoop` | the dev loop over either store, one action per store call |
| `BacklogBoard` | what the backlog promises people, without regenerations |
| `MCDevLoop` | labels for TLC |
| `DevLoopProofs` | type correctness and the overlap guard, proved |
| `DevLoopBoardProofs` | item identity, refinement of `BacklogBoard`, survival of decisions, triage of feedback, proved |
| `Conversation` | one conversation with the assistant and its mining |
| `ConversationProofs` | its types and the extent of duplicates, proved |
| `MCConversation` | symmetry for TLC |
| `Profiles` | profile rows, onboarding turns and edits, cookies and personas |
| `MCProfiles` | which tab is in which browser, which fact in which field; symmetry and a view for TLC |
| `ProfilesProofs` | their types, the way back, and what may change a visitor's own profile, proved |
| `LLMClient` | one caller of the language-model client after another, and the endpoint |
| `LLMClientProofs` | its types and three safety properties, proved |
| `MCLLMClient` | the calls this program makes |
| `MarketStore` | the tables behind the marketplace and what store calls do to them |
| `StartUp` | opening, migrating and seeding (EXTENDS `MarketStore`) |
| `Pipeline` | pages, form and buttons of the offers (EXTENDS `MarketStore`) |
| `SavedSearches` | saving a search (EXTENDS `MarketStore`) |
| `Market` | the three together, restarts in between, and their properties |
| `MarketTypes` | what the market's operators return, and its types, proved |
| `MarketProofs` | nine safety properties of the market, proved (EXTENDS `MarketTypes`) |
| `MCMarket` | a small market for TLC |
| `Catalogue` | filters, widening, crews, chips: what a search computes, as operators |
| `Search` | a visitor's searches over a table others write (EXTENDS `Catalogue`) |
| `SearchProofs` | its types and five safety properties, proved |
| `MCSearch` | three offers, a crew and four sentences |

### DevLoop

Processes are operators (one request each at a time; more are more operators)
and the ticker. `pc` names the store call a process makes next; the other
per-process variables are the local variables of `Regenerate` that outlive a
call: `seen`/`fresh` (the listed feedback and what was new in it), `prior` (the
listed backlog), `entries`, `todo` (what triage has left), `source`. They are
reset in `Finish`, where the Go variables go out of scope.

- `Enter`, `Refused`, `Finish`: `regenerateGuarded`. `Finish` also ends the
  request the way `refresh` does: with the page, or with a 500.
- `ListFeedback`, `ListBacklog`, `ClusterByModel`, `ClusterMechanically`,
  `Replace`, `Triage`, `WriteDoc`, `Fail`: `Regenerate`.
- `View`, `Click`, `Disconnect`: the handlers of `/dev`, and the client.
- `CreateFeedback`: what the widget and the mining add meanwhile.
- `Crash`: the process dies and starts again. Files and browsers remember.

Abstractions. What the model answers is any clustering that `clusterChunk` and
`mergeClusters` let through: only listed ids, one cluster per theme, at least
one usable cluster per chunk; a chunk without one makes the whole run
mechanical. The score orders entries, so every order is allowed. An item's
count, severity and evidence are functions of the feedback in it, which stands
for them. Labels carry themes already trimmed and lower-cased, with the two
fall-backs of `normalizeTheme` left in. Creation times are distinct, so
"newest" is by id. Memory's id counter also numbers other rows; the ids this
skips are not represented. A failed write of the document is a choice.
A panic inside `Regenerate` is not modelled; the flag is not cleared by a
deferred call, so a handler that panics there would leave it set.

### Conversation

An *exchange* is one request for an answer and the goroutine it starts; it runs
`stream` (or `chat`) → `keep` (`keepChat`) → `mine` → `extract` → `compare` →
`log` → `ended`. A tab shows one bubble at a time. The client of an exchange is
the tab that waits for it; none, its context is cancelled.

- `Turn`, `Connect`, `PostMessage`, `Drop`: the browser's side of `turn`,
  `stream` and `message`; a dropped EventSource connects again.
- `Answer`, `NoAnswer`, `Keep`, `KeepChat`: the rest of `stream` and `message`.
  `Keep` writes under a detached context, `KeepChat` under the request's.
- `ReadTurns`, `AskModel`, `ListExisting`, `ListingFails`, `Log`, `GiveUp`:
  `Extract`, call by call. The error of the listing is not looked at: a pass whose
  listing fails knows of no earlier row and logs all the same.
- `Widget`, `Elsewhere`: rows other code logs meanwhile.

A message is the complaint in it, or none. A transcript is the complaints among
its newest messages, which weigh the same. A feedback row is its dedup key
(kind, theme and normalised words), with the exchange that mined it and how many
rows that exchange had seen, which are history and are read by no action. The
model may extract anything: leaving a complaint out is counted as a failure,
inventing or repeating one is not. Rows of the conversation are not deleted in
the code and are not here.

### Profiles

A tab of the model has one request at a time, which carries its browser's cookies
as they were when it was sent (`sent`) and sets cookies when it is answered (`set`,
then `jar`). A page may send an edit of its panel while its prompt is still being
answered: that is two tabs of one browser here, and so are two windows.
`who`, `base`, `says`, `takes` are the local variables of a handler.

- `Ensure`, `Current`: the two ways to find a profile. Ids are random in the
  code and numbered here; they never repeat.
- `Start`, `Ask`, `Turn`, `Learn`, `SaveTurn`, `TurnFails`, `Note`: a prompt.
  `/ask` looks for the profile before it routes, and a turn looks again with the
  same request, so a first prompt creates two rows; that is what the code does.
- `SendEdit`, `Edit`, `SaveEdit`, `Finish`, `ResetTurns`, `Reset`: the profile panel.
- `Enter`, `Leave`: personas. `Expire`: the cookie with the way back is a day
  old before the persona's cookie is.
- `Answer`, `AnswerLost`: the network. `Crash`: requests are lost, and `main`
  opens SQLite again or falls back to memory (`backend`, `disk`).

A profile is a set of facts. A fact is one value of one of the six fields that
onboarding asks for; what only the panel can fill (company, languages, notes) is
left out. The role, the crew size and the availability (`Single`) have one value, so
a new one takes the place of the old; the other fields are lists, which gain a
value, except that an edit of the regions sets the whole list (`Replaced`). What the
model, or the keyword fall-back, finds in a message is any set of facts to add, and
of facts of the lists to remove. `late` is history: what other requests of the
browser changed in the row since a request has read it. The
turn counter stops at two, where the nudge begins. `home` is history: the
profile a browser was last given as the visitor's own. `dated` says that the
persona's cookie is younger than the way back. A page offers the way out of a
persona as of its last answer.

### LLMClient

One call at a time (`call`): the client has no state, so callers do not disturb
each other. `pc` is the step of that call, `ask` and `attempt` the two nested
loops, `asking` the request with its budget and how often the JSON instruction
is in it, `messages` the caller's own slice, `sent` the requests that left.
`heard`, `out` and `dones` are what the caller got: the attempts whose content
reached it, the answers its JSON value was filled from, the announcements of the
end.

- `Invoke`, `Cancel`, `Expire`: the caller, and the deadline it may have set.
- `AskJSON`, `Post`, `Backoff`, `AttemptTimer`, `ContextEnds`, `PingEnds`: what
  the client does by itself.
- `AttemptFails`, `ChatAnswers`, `StreamOpens`, `Chunk`, `StreamEnds`,
  `StreamBreaks`, `PlainAnswer`, `Ping`: the endpoint, which may do anything.

An answer is whether it has content, and for JSON whether there is a value in it
and whether the value fits. A chunk is content, reasoning only, or refused by
the caller. Delays are not represented, only that they end. The configured
budget and the limits are constants.

### MarketStore, StartUp, Pipeline, SavedSearches, Market

`disk` is the SQLite file, `tx` the open transaction's view of it, `mem` the
Memory store. The three component modules EXTEND `MarketStore` and act on these
tables; `Market` puts them together, so a second start meets what the pipeline
left. A request is at one call of the store (`req[r].pc`), with its local
variables in the same record.

- `Open`, `OpenFails`, `Check`, `Apply`, `Commit`: `store.Open` and
  `applyMigration`. `Check` looks outside the transaction, as the code does.
- `Count`, `Seed`, `Demo`, `Market`, `MarketFails`: the two seedings, a row a step.
- `Create`, `Click`, `Advance`, `Page`: the handlers of `/offers`. `shown` is
  every card a page ever showed; a click may come from any of them.
- `Save`, `Upsert`, `Find`, `Trim`: three statements in SQLite, one locked call
  in Memory. `Cancel`: the client leaves, and the next statement fails.
- `Crash`, `Tick`: the process and the clock.

`Files` are the files in the world: a new one, or one of a release with the
migrations up to k, in English or German, with duplicate saved searches before
migration 4, and with an offer that somebody created under any free id. That
offer also stands for ids given out a day and four hours ago. An offer is its
id, what people know it as (`name`, history), and the columns that migrations
and moves change; `facets` is where trade, region and the like came from. A crew
is absent, as seeded, or edited. The full-text index is the set of entries the
triggers and the rebuild put in. `schema.sql` is idempotent and is part of
`NewFile`; counts are taken together because nobody else writes yet. The saved
searches are one profile's.

### Catalogue, Search

`Catalogue` has no state. Lists of facets are sets. A place is a word, and two
constants say which regions contain a word (`Inside`) and which contain or are
contained in it (`Meets`): exclusions use the first, filters the second. An
offer's data are constants, its status and its place in the table are not. What
a sentence means is given by `FacetsOf` (dates, money, negations: read by code),
`Spotted` (the words found without a model) and `Heard` (what a model may make
of it). The last resort of a crew search is any crew.

`Search` has one visitor. `req` is the handler's progress and its local
variables; `pages` the thread, each with what was asked (`want`), the matches,
the cards, the chips and where it came from.

- `Ask`, `Click`: `Query` with a sentence, or with a chip of any page. `Begin`
  holds what they share: parsing, and replacing the chip's facet.
- `List`, `Widen`, `WidenToEverything`, `ListTheCrews`, `Fail`: the calls.
- `Render`: the page. Which matches fit best is left open, and so is which chips
  are first when there are more than fit.
- `Create`, `Advance`: others. A moved offer is the newest row.

Excluded offers are removed after the limit, crews are not filtered by
exclusions, and chips do not add up: the model does what the code does. An offer has
one place here, its region or else its location, and `Excluded` looks at that;
`rank.go:195` looks at both columns, which is the same for every offer the program
writes: a seed's region is its location, and the form fills in only a location.

## 3. Runs

| Run | Shows |
|---|---|
| `devloop_sqlite` | SQLite, a model that answers anything, one operator and the ticker, a restart and a disconnect: types, overlap guard, identity of items, triage, and refinement of `BacklogBoard` |
| `devloop_memory` | Memory, mechanical clustering, fairness: identity, a regeneration ends, feedback is triaged |
| `devloop_lost_decision` | violated: with Memory a decision made while clustering is overwritten |
| `devloop_dropped_decision` | violated: an accepted item goes when the model renames its theme |
| `conversation` | types, the exact extent to which duplicates are kept out, also when a listing fails; a generated answer is kept; a mined complaint is logged |
| `conversation_duplicates` | violated: two overlapping passes log one complaint twice |
| `profiles` | a browser with two tabs, or a page with two requests, and one with a single tab: beyond what a request asks, only an overlap undoes anything, and the way back is kept |
| `profiles_undone_edit` | violated: a turn undoes an edit made on the same page, or in another tab, while the model was thinking |
| `profiles_no_way_back` | violated: after a second persona the way back expires first |
| `llm` | every kind of call against an endpoint that does anything: one voice, sound requests, room, an end |
| `market` | a start over any older file, killed or failing anywhere, two overlapping requests, and another start |
| `search` | questions and chips while others write: exclusions, honest widening, no dead end |

The properties:

- `OneRegeneration`: two processes are never inside `Regenerate`, and the flag
  is up exactly while one is.
- `ItemIdentity`: an id in the table, in a run's copy or on any page names one
  theme for ever, so a click on an old page decides what its row says or nothing.
- `KeepsThePromise`: SQLite's backlog implements `BacklogBoard`.
- `TriagedWasConsumed`, `MechanicalRunTriagesAll`: feedback turns triaged once,
  while an item counts it; a mechanical run misses none it listed.
- `RegenerationEnds`, `FeedbackIsTriaged`: liveness.
- `DuplicatesWereOutOfSight`: a mined row repeats only a row that another
  exchange or the widget logged after its pass looked, or that lay beyond the
  limit of the list; a pass whose listing failed has not looked at anything.
- `AnswerIsKept`, `MinedComplaintIsLogged`: liveness, when nothing fails any more.
- `UndoneOnlyByOverlap`: a fact comes or goes in a visitor's own profile only
  because the turn or the edit that writes the row asks for it (`Named`: to be there,
  to go, or to give way to another value of its field), or because that request puts
  back what it read, after another request of the same browser changed it. It holds
  for any number of tabs, and whatever other visitors, personas and restarts do. The
  stronger `OnlyWhatWasSaid`, which has no second case and is about turns, is what the
  code's comment says, and fails.
- `WayBack`: the visitor's own profile is the one in the cookie or the one that
  leaving brings back, until a cookie has expired (`WayBackLasts` without that).
  It is about browsers with one request at a time (`Alone`), next to any others:
  two requests can leave a persona twice, and the second time there is no cookie
  to restore.

- `OneVoice`: a caller hears content of one attempt only and is told the end at
  most once, after which the call is over; `RequestsAreSound`: every request has
  room for the hidden reasoning, is under the cap unless its caller asked for more,
  and has its JSON instruction once; `RoomToAnswer`: more room after an empty
  answer, unless the request is at the cap already or its caller asked for no more
  than half of the floor (then it is sent with the floor, and with the floor again),
  and the same request after any other failure; `EveryCallEnds`: liveness with a
  silent endpoint.
- `RecordedIsDone`, `OpensUnlessBroken`: a migration is on file as done exactly
  when it is, and no start falls back to memory unless the disk fails.
- `IndexFollowsTable`: the full-text index says what the rows say.
- `StartKeepsHands`, `DemoComplete`: no start undoes what people did, and an
  interrupted seeding of the demo market is completed by the next.
- `CardsAreNeverMistaken`: over SQLite, a card names one offer for good.
- `MovesAreWhole`: an offer that was moved to done is complete and up for review,
  one that was moved back to open is fine, whichever of two moves came last.
- `SavedAreTidy`, `NewestSearchesStay`: each query once, at most `Keep` but for
  a save under way or cut short; only older searches are dropped.
- `ExclusionsHold`: neither a match nor a chip of any page is excluded.
- `WideningIsHonest`: what is shown misses nothing but the facet the page names,
  even when the table changed between two lists.
- `NamesWhatMattered`: over a quiet table, the facet named is the least central
  one that helps, and everything is shown only when every offer misses two.
- `NoDeadEnd`: over a quiet table, an empty page means there is nothing to show.
- `ChipsLeadSomewhere`: over a quiet table, and when the sentence is understood
  as before, a chip of a page that answers the sentence shows offers that have it.

**Bounds.** Two labels give two themes, one by its own name and one through the
fall-back to the kind: enough for a theme that stays, one that goes, one that
comes back. Two or three runs let a second run start from what the first left,
including after a crash; one operator and the ticker are the two processes an
overlap needs. `FeedbackLimit = 1` with two pieces of feedback makes the limit
bite. In `Conversation` two exchanges
overlap over one message, the second through an EventSource that connects again;
`TranscriptSize = 2` against a message and two answers lets the oldest fall out,
and `FeedbackLimit = 1` with a row of another conversation lets one fall out of
sight. Larger instances do not fit with the liveness properties, which is why one
run checks safety and liveness together on this one. In `profiles` there are two
browsers, one with two tabs and one with a single tab; two profiles of their own and
one persona; a value of a field of one value and two of the regions. Three requests
are a first contact and two that overlap on its row, or a first contact, a persona
and the way out; a restart and an expiry come anywhere. The tabs of one browser are
alike, and so are the two regions (symmetry), and what a request knew does not
matter once it only has to be answered (view). The way back is lost after four
requests: a first contact, two personas, and the way out. `LLMClient` needs no
bound: its calls are the ones the program makes, with the limits of
`deepseek.go`. In `MCMarket` `Wrap = 3` leaves one free id besides the seed's and
the demo's, so two seconds give both a fresh id and a taken one; two requests and
two pieces of work are two moves, a move and a save, or two saves; `Keep = 2`
with three queries, two of them saved before this release, drops one; one crash
and one fault of the disk may come anywhere. In `MCSearch` `Limit = 2` with three
offers cuts one off; a card for two sides makes the ranking choose; the sentences
are one that is too narrow, two that exclude (a place and a trade, which the
model understands wrongly) and one for crews; two pages are a question and the
chip; one edit falls between any two lists. Every counter
that bounds a run is a constant named `Max...`, used only in guards.

**Fairness.** A process inside a regeneration, or an exchange, keeps going
(`WF` on its step): goroutines are scheduled, store calls return, and each call
of the model has a deadline (60 seconds a chunk, 45 seconds a mining pass, the
client's own deadlines otherwise). The ticker ticks for ever, so `Enter(Ticker)`
is fair. An open page connects its EventSource. In `LLMClient` the client's own
steps and the clocks are fair (a timer fires, a context ends, a request is
written), the endpoint is not: it may be silent for ever. Nothing is assumed of people:
no click, message, disconnect or refresh has to happen. Liveness properties
about failures ask that the failures the instance allows are used up
(`mishaps = MaxMishaps`), which is how "from some point on nothing fails" is
said with bounded counters.

**Deadlock.** `DevLoop` never stops: an operator can always look at the page; nor
does `LLMClient`, which takes the next call, nor `Market`, where a page can always
be visited or start-up goes on. `Conversation`, `Profiles` and `Search` may: visitors
who have sent everything the bounds allow.

## 4. Where code and comments disagree

- `cluster.go:390-393`: an item "keeps that item's id and status, so human
  decisions survive regeneration". With Memory a decision taken during the
  clustering is lost (`devloop_lost_decision`). With SQLite the status survives
  (proved), but not the id: every row is inserted anew.
- The same comment: "only "proposed" items are free to be replaced wholesale".
  Decided items whose theme has no cluster this time are removed
  (`devloop_dropped_decision`).
- `assistant.go:599-600`: `Extract` "skips anything that duplicates feedback
  already logged for this conversation". Overlapping passes do not
  (`conversation_duplicates`).
- `onboarding.go:436-437`: a correction "only ever touches what the visitor is
  correcting". The whole row is written back as it was read before the model was
  asked, over an edit that was made meanwhile, on the same page or in another tab
  (`profiles_undone_edit`).
- `demo.go:260`: "leave restores the visitor's own profile". Not once the cookie
  that remembers it has expired, which after a second persona happens first
  (`profiles_no_way_back`).

Met while translating, and listed in `PROJECT.json` without a run:

- `deepseek.go:308`: an empty answer doubles 256 tokens to the floor of 512 that
  the first attempt had been raised to already, so the acknowledgement of
  onboarding gets no "more room". `deepseek.go:155` says an empty answer is not
  retried; it is. `errors.go:8-9` ties the empty answer to `finish_reason`;
  `chatOnce` does not, `streamFallback` does. The second answer of `JSON` is
  decoded over what the first one left.
- `sqlite.go:267`: a first start that dies among the seeds leaves them incomplete.
  `web.go:259`: over Memory two offers may share an id. `demo.go:87`: the merge of
  crews returns what was stored.
- `search.go:360-361`: a chip parses the sentence again, with the model, and
  forgets an earlier chip. `rank.go:195`: "not Vienna" does not exclude "Wien".
  `crews.go:128`: widening crews says nothing. `stream.go:44`: an invented title
  is not caught. `widen.go:75`: the limit comes before the exclusions.

Also seen: `/readyz` allows 25 seconds, of which `Health` uses 20 at most; a
search saved again keeps its id, so the list, which is by id, does not move it up;
a move away from done keeps the progress of 100; the exclusions of a sentence do
not apply to crews; SQLite folds the case of ASCII letters only where Go folds
all.

Two more consequences of the same shape are visible in the models without being
properties: with SQLite, `docs/backlog.md` is rendered from the entries built
before the replacement and may show an older status than the table; and
feedback beyond the 500 newest is never listed, so never triaged.

## 5. Theorems

Those of `DevLoopProofs` and `DevLoopBoardProofs` are about every set of operators,
labels, choices, limits and bounds that satisfies `DevLoopAssumption`.

- `TypeCorrect`: `Spec => []TypeOK`.
- `NoOverlap`: `Spec => []OneRegeneration`. The invariant is inductive by
  itself: every step that leaves or enters the inside of `Regenerate` writes the
  flag in the same action; the lemmas under it say which actions do.
- `ClicksAreNeverMistaken`: `Spec => []ItemIdentity`, for SQLite, or for a
  Memory store that is not restarted (its counter starts again, and then it is
  false). `ItemIdentity` is not inductive, because the ids in `entries` are not
  among what it speaks of and come back into the table in `Replace`.
  `IdentityInv` adds that every remembered id is below `nextItem` and that at
  `replace` the entries are well built: one per theme, with the id of an item of
  `prior` of that theme or none.
- `SqliteKeepsThePromise`: over SQLite, `Spec => KeepsThePromise`. Every step is
  a `Publish` (only `Replace`), a `Decide` (only `Click`) or a stutter; what it
  needs of the state is that an entry whose theme is in no row of the table is
  a proposal. That holds because what a run listed is still listed when it
  replaces (`ListedStillThere`), and this in turn needs `OneRegeneration`.
- `SqliteDecisionsSurvive`: over SQLite,
  `[][... => a click]_vars`, the property that the run on Memory refutes; the
  assumption on the store is therefore needed.
- `MechanicalRunsTriage`: `Spec => []MechanicalRunTriagesAll`, and
  `OnlyConsumedIsTriaged`: `Spec => TriagedWasConsumed`, over either store and
  with restarts. Both speak of rows at the end of a run; `TriageInv` says what
  the run carries there: what it read as new is new until it marks it (nobody
  else triages: this needs `OneRegeneration`), mechanical entries leave out
  nothing that was listed, and what is left to mark is counted by an item.

`LLMClientProofs`, for every set of callers, budgets, limits and number of
attempts that satisfies `LLMClientAssumption`: `TypeCorrect`, `HeardOnce`
(`OneVoice`), `RequestsWithinBounds` (`RequestsAreSound`) and `RoomGrows`
(`RoomToAnswer`). None of the last three is inductive. What each needs:

- `VoiceInv`: during a call, content that was heard is being read in the attempt
  that delivered it, so a retry has nothing to repeat.
- `BudgetInv` and `CountInv`: the budget in hand against the caller's, the floor and
  the cap (it is never under what the caller asked for, or it is the floor at least),
  and the number of requests posted against the step the call is at.
- `RoomInv`: while waiting and reading, the last request sent has the budget in
  hand; before the next attempt, the budget in hand is the doubled one exactly
  when the last failure was an empty answer.

`SearchProofs`, for every catalogue, vocabulary of places, set of sentences and
readings of them, and with the table changing between any two calls of the store:
`TypeCorrect`, `ExclusionsAlwaysHold` (`ExclusionsHold`) and `NoticesAreHonest`
(`WideningIsHonest`). The promises are about pages; the invariant adds what a search under way must carry for its page
to keep them: the exclusions of its sentence, unchanged by refinement and by every
form of widening (`ExclusionsCarried`), and rows that miss no more than the facet
dropped so far (`HonestSoFar`). The lemmas under it are about the operators of
`Catalogue`: what `Found` returns meets its filter (`FoundRows`), and a filter
without one facet finds rows that miss nothing else (`FoundMissesLittle`).

Three more are about searches that meet a quiet table, one that nobody changes
between the first list and now and that is within the limit of a list:
`NoticesNameWhatMattered` (`NamesWhatMattered`), `NoSearchIsADeadEnd` (`NoDeadEnd`)
and `EveryChipLeadsSomewhere` (`ChipsLeadSomewhere`). The quiet is part of the
properties, not an assumption of the theorems: after an edit nothing is claimed
of older pages (`OthersForget`). Their invariant is `OnTheWay` for the search
under way, `Thread` for the pages: at step k of the widening, no offer passes
the filter and none misses only one of the first k - 1 facets. The lemmas say
exactly what each list returns (`FoundIs`, `WidenedIs`, `EverythingIs`). A chip
leads somewhere because its value was read off an offer of the page before, which
with the chip misses at most the facet that was dropped there; and an offer that
missed only the chip's facet now missed no more before, and would have been the
better one to show then. So the chip's facet is never the one to drop (`ChipIs`,
`ChipFinds`).

`ConversationProofs`, for every number of tabs and exchanges, either store and any
limits: `TypeCorrect` and `RepeatsOnlyTheUnseen` (`DuplicatesWereOutOfSight`). The
property speaks of rows; the invariant `Remembers` says what a pass knows while it
logs: before its loop it has logged nothing, and in its loop it knows every row of
the listing it made within the limit (none, when the listing failed) and everything
it logged itself.

`MarketTypes` and `MarketProofs`, for every set of seeds, demo market, static
content, old searches, requests, period of the ids and number of restarts and
faults that satisfies `MarketAssumption`: `TypeCorrect`, `MigrationsAreWhole`
(`RecordedIsDone`), `MigrationsApply` (`OpensUnlessBroken`), `IndexIsTrue`
(`IndexFollowsTable`) and `CardsMeanOneOffer` (`CardsAreNeverMistaken`). They share
one inductive invariant, `IInv`. `Sound` says what a file is like at any moment: ids
are unique, migrations are recorded in order and exactly when done, saved searches
have ids of their own until they are deduplicated, only seeds are in English, and
the index follows the table. `FilesSound` shows it of every file an older release
leaves, `MigrationSound` of every migration. `BootInv` says where start-up is: what
is before `version` is recorded, and the open transaction holds the file or the
file migrated once. `SeedsLeft` says that what is left to seed is not there yet.
`CardsOnDisk` and `CopiesOnDisk` say that what was shown, or is being moved, is
still a row with that id and name, which with unique ids is the theorem on cards;
rows are only added and rewritten in place (`Follows`).

Five more rest on `IInv` and an invariant of their own:

- `DemoIsComplete` (`DemoComplete`): `DemoInv`, what is not in the store yet is
  left to insert, from any file and after any earlier start.
- `MovesStayWhole` (`MovesAreWhole`), over either store: `MovesInv`, an offer that
  came from a form is one row of one store and what was moved is whole;
  `CopiesNamed`, the copy a request is about to write is of the row it replaces.
- `SavedStayTidy` (`SavedAreTidy`): `SavedInv`, rows have ids that were given out,
  and say when their search was saved last; `TrimInv`, too many rows mean that a
  save is still to come to its last statement. It assumes
  `Len(OldQueries) <= Keep`: the file comes from a release with the same cap.
  Without that a first start would find too many, and no save to blame.
- `NewestAreKept` (`NewestSearchesStay`): from `SavedInv`, and that what `Trim`
  keeps are `Keep` rows no older than any it drops (`KeptAre`).
- `StartUpKeepsHands` (`StartKeepsHands`): each migration keeps what people entered
  (`MigrationKeeps`), removing duplicates keeps every query (`DedupedSought`).

`ProfilesProofs`, for every number of browsers, tabs, personas, facts, requests,
restarts and expiries, over either store: `TypeCorrect`, `WayBackStays` (`WayBack`)
and `UndoneByOverlap` (`UndoneOnlyByOverlap`). `WayBack` rests on `CookiesInv`:
while the only request of a browser is under way nobody else sets its cookies, so
what the answer sets is one of four things (`Makes`, `Changes`, `Borrows`,
`Returning`) that each keep the way back. `UndoneOnlyByOverlap` rests on `HeldInv`,
an own profile was created once and is known to the cookies, requests and answers of
one browser only, and on `RowsInv`, the row that a waiting request has read differs
from the row as it is only in its `late`, what others of its browser changed since.

So every invariant and every action property of the runs that pass is stated by
a theorem. Liveness under fairness is out of the prover's reach: `RegenerationEnds`,
`FeedbackIsTriaged`, `AnswerIsKept`, `MinedComplaintIsLogged` and `EveryCallEnds`
stay with TLC, on its instances.

## 6. What is left

Worth adding: the two hazards without a property, the turn counter that an edit
resets while a turn is waiting (`onboarding.go:729`) and the progress of 100 that a
reopened offer keeps (`web.go:306`), once a comment or a test says what is meant;
that Memory and SQLite implement one abstract store where they agree.

**Not modelled.** Templates and localisation: text, a lookup of strings. FTS5: a
library, of which only what is put into it is modelled. The scores of `Rank`,
`RankCrews` and `TextSearch`: they order results and decide none. The sentence that
is streamed about a page of results (`stream.go`): it changes no state. The parsing of
dates, money and negations out of a sentence: an input of the search. The
home page, its suggestions and the counts: they only read. HTTP
plumbing and the reading of the environment.

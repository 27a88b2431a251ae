------------------------------- MODULE Search -------------------------------
(***************************************************************************)
(* One visitor searches while others create offers and move them: Parse,   *)
(* the exact filter, the widening step by step, the crews, the page with   *)
(* its chips, and a click on a chip of any page in the thread.  Every      *)
(* ListOffers is a call of its own, and the table may change before the    *)
(* next.  The sentence that is streamed onto a page (stream.go) changes    *)
(* no state and is left out.                                                *)
(***************************************************************************)
EXTENDS Catalogue

CONSTANTS
  Sentences,    \* what the visitor types
  FacetsOf,     \* deriveFacets: read from the sentence by deterministic code
  Spotted,      \* ParseMechanical: the intent spotted without a model
  Heard,        \* the intents a model may find in a sentence
  HasModel,     \* deps.LLM # nil
  DisplayLimit, \* cards on a page, 6
  MaxChips,     \* chips on a page, 6
  Made,         \* tables there are when the visitor arrives
  MaxPages,     \* bound: pages in the thread
  MaxEdits      \* bound: offers created and moved by others

ASSUME SearchAssumption ==
  /\ Sentences # {}
  /\ FacetsOf \in [Sentences -> Facets] /\ Spotted \in [Sentences -> Intent]
  /\ Heard \in [Sentences -> SUBSET Intent]
  /\ HasModel \in BOOLEAN
  /\ DisplayLimit \in Nat \ {0} /\ MaxChips \in Nat \ {0}
  /\ Made \subseteq Seq(Row)
  /\ MaxPages \in Nat /\ MaxEdits \in Nat

VARIABLES
  table,  \* the offers, newest first
  edits,  \* how often the table has changed
  req,    \* the search in progress
  pages   \* the pages in the visitor's thread

vars == <<table, edits, req, pages>>

Nothing == [sides |-> {}, trades |-> {}, regions |-> {}, statuses |-> {}, docs |-> {}, size |-> 0,
            window |-> {}, min |-> 0, max |-> Any, exTrades |-> {}, exRegions |-> {}]

(* No search, and what its local variables are before it sets them. *)
Idle == [pc |-> "idle", sentence |-> CHOOSE s \in Sentences : TRUE, parsed |-> Nothing, want |-> Nothing,
         chip |-> NoChip, from |-> 0, step |-> 0, rows |-> {}, widen |-> "none", crews |-> {}, first |-> 0]

Steps == {"none", "everything"} \cup {DropOrder[i] : i \in DOMAIN DropOrder}

Init == /\ table \in Made /\ edits = 0
        /\ req = Idle /\ pages = <<>>

----------------------------------------------------------------------------
\* Others

Edited(t) == table' = t /\ edits < MaxEdits /\ edits' = edits + 1 /\ UNCHANGED <<req, pages>>

ListedIds == {table[i].id : i \in DOMAIN table}

(* createOffer *)
Create == \E id \in Offers \ ListedIds, st \in Statuses : Edited(<<[id |-> id, status |-> st]>> \o table)

(* advanceOffer: the row is the newest now. *)
Advance ==
  \E i \in DOMAIN table, st \in Statuses :
    Edited(<<[table[i] EXCEPT !.status = st]>> \o SubSeq(table, 1, i - 1) \o SubSeq(table, i + 1, Len(table)))

----------------------------------------------------------------------------
\* Searching

(* Parse asks the model, when there is one, and spots words without it or  *)
(* when it fails.                                                           *)
Parsed(s) == {Spotted[s]} \cup (IF HasModel THEN Heard[s] ELSE {})

(* Query, up to the store: a sentence, or a chip with the sentence of its  *)
(* page, which is parsed again.                                             *)
Begin(s, chip, from) ==
  /\ req.pc = "idle" /\ Len(pages) < MaxPages
  /\ \E intent \in Parsed(s), role \in Roles :
       LET parsed == FinishParse(intent, FacetsOf[s], role)
       IN req' = [Idle EXCEPT !.pc = IF "offers" \in parsed.sides THEN "offers" ELSE "crews",
                              !.sentence = s, !.parsed = parsed, !.want = ApplyRefine(parsed, chip),
                              !.chip = chip, !.from = from, !.first = edits]
  /\ UNCHANGED <<table, edits, pages>>

Ask == \E s \in Sentences : Begin(s, NoChip, 0)

Click == \E i \in DOMAIN pages : \E chip \in pages[i].chips : Begin(pages[i].sentence, chip, i)

AfterOffers(want) == IF "crews" \in want.sides THEN "crews" ELSE "render"

(* The mutant of List that forgets the first facet to drop. *)
ListSkippingOne ==
  /\ req.pc = "offers"
  /\ LET rows == Found(table, req.want)
     IN req' = IF rows # {} THEN [req EXCEPT !.rows = rows, !.pc = AfterOffers(req.want)]
                            ELSE [req EXCEPT !.pc = "widen", !.step = 2]
  /\ UNCHANGED <<table, edits, pages>>

(* Search: the exact filter. *)
List ==
  /\ req.pc = "offers"
  /\ LET rows == Found(table, req.want)
     IN req' = IF rows # {} THEN [req EXCEPT !.rows = rows, !.pc = AfterOffers(req.want)]
                            ELSE [req EXCEPT !.pc = "widen", !.step = 1]
  /\ UNCHANGED <<table, edits, pages>>

(* One turn of widenSearch's loop. *)
Widen ==
  /\ req.pc = "widen" /\ req.step <= Len(DropOrder)
  /\ LET rows == Found(table, Dropped(req.want, DropOrder[req.step]))
     IN req' = IF rows # {} THEN [req EXCEPT !.rows = rows, !.widen = DropOrder[req.step],
                                             !.pc = AfterOffers(req.want)]
                            ELSE [req EXCEPT !.step = req.step + 1]
  /\ UNCHANGED <<table, edits, pages>>

WidenToEverything ==
  /\ req.pc = "widen" /\ req.step > Len(DropOrder)
  /\ req' = [req EXCEPT !.rows = Found(table, Everything(req.want)), !.widen = "everything",
                        !.pc = AfterOffers(req.want)]
  /\ UNCHANGED <<table, edits, pages>>

ListTheCrews ==
  /\ req.pc = "crews"
  /\ \E crews \in RunCrews(req.want) : req' = [req EXCEPT !.crews = crews, !.pc = "render"]
  /\ UNCHANGED <<table, edits, pages>>

(* A call of the store fails, or the 120 seconds are over: an error 500. *)
Fail == req.pc \in {"offers", "widen", "crews"} /\ req' = Idle /\ UNCHANGED <<table, edits, pages>>

----------------------------------------------------------------------------
\* The page

Refs(rows, crews) == {row.id : row \in rows} \cup crews

(* The mutant of Choices that makes room for one more. *)
OneTooMany(S, room) ==
  {T \in SUBSET S : Cardinality(T) = room + 1 \/ (T = S /\ Cardinality(S) <= room + 1)}

(* As many members of S as there is room for. *)
Choices(S, room) ==
  {T \in SUBSET S : Cardinality(T) = room \/ (T = S /\ Cardinality(S) <= room)}

(* Which matches fit best (Rank, RankCrews), and which chips come first,   *)
(* is left open.                                                            *)
Render ==
  /\ req.pc = "render"
  /\ \E cards \in Choices(Refs(req.rows, req.crews), DisplayLimit),
       chips \in Choices(ChipsFor(req.rows, req.want), MaxChips) :
       pages' = Append(pages, [sentence |-> req.sentence, parsed |-> req.parsed, want |-> req.want,
                               chip |-> req.chip, from |-> req.from, rows |-> req.rows,
                               widen |-> req.widen, crews |-> req.crews, cards |-> cards, chips |-> chips, first |-> req.first])
  /\ req' = Idle
  /\ UNCHANGED <<table, edits>>

Next == Create \/ Advance \/ Ask \/ Click \/ List \/ Widen \/ WidenToEverything
          \/ ListTheCrews \/ Fail \/ Render

Spec == Init /\ [][Next]_vars

----------------------------------------------------------------------------
\* Properties

Search == [pc : {"idle", "offers", "widen", "crews", "render"}, sentence : Sentences, parsed : Wanted,
           want : Wanted, chip : Chip \cup {NoChip}, from : 0 .. MaxPages, step : 0 .. Len(DropOrder) + 1,
           rows : SUBSET Row, widen : Steps, crews : SUBSET Crews, first : Nat]

Page == [sentence : Sentences, parsed : Wanted, want : Wanted, chip : Chip \cup {NoChip}, from : 0 .. MaxPages,
         rows : SUBSET Row, widen : Steps, crews : SUBSET Crews,
         cards : SUBSET (Offers \cup Crews), chips : SUBSET Chip, first : Nat]

(* Types of a visitor's search. *)
TypeOK ==
  /\ table \in Seq(Row) /\ edits \in 0 .. MaxEdits
  /\ req \in Search
  /\ pages \in Seq(Page) /\ Len(pages) <= MaxPages
  /\ \A i \in DOMAIN pages : /\ Cardinality(pages[i].cards) <= DisplayLimit
                            /\ Cardinality(pages[i].chips) <= MaxChips

(* However far a search is widened, and whatever the model took the        *)
(* sentence to mean, an offer with a trade or a place as the sentence      *)
(* excluded them is neither on a page nor what a chip leads to.             *)
ExclusionsHold ==
  \A i \in DOMAIN pages :
    LET page == pages[i]
    IN /\ \A row \in page.rows : ~Excluded(row.id, FacetsOf[page.sentence])
       /\ \A chip \in page.chips :
            /\ chip.facet = "trade" => chip.value \notin FacetsOf[page.sentence].exTrades
            /\ chip.facet = "region" => \A word \in FacetsOf[page.sentence].exRegions : chip.value \notin Inside[word]

(* The facets of w that an offer, as it was listed, does not meet. *)
Missed(row, w) ==
  {facet \in Steps :
     \/ facet = "timeframe" /\ ~InWindow(row.id, w)
     \/ facet = "budget"    /\ ~InBudget(row.id, w)
     \/ facet = "documents" /\ ~(w.docs \subseteq About[row.id].docs)
     \/ facet = "status"    /\ w.statuses # {} /\ row.status \notin w.statuses
     \/ facet = "region"    /\ w.regions # {} /\ \A word \in w.regions : About[row.id].region \notin Meets[word]
     \/ facet = "trade"     /\ w.trades # {} /\ About[row.id].trade \notin w.trades}

(* The notice is honest: what is shown meets everything that was asked,    *)
(* but for the one facet that the page says was dropped, even when the     *)
(* table changed between two steps of the widening.                         *)
WideningIsHonest ==
  \A i \in DOMAIN pages : \A row \in pages[i].rows :
    pages[i].widen # "everything" => Missed(row, pages[i].want) \subseteq {pages[i].widen}

(* The offers of t that the sentence does not exclude. *)
Candidates(t, w) == {t[i] : i \in {i \in DOMAIN t : ~Excluded(t[i].id, w)}}

(* The search saw one table, and the store cut nothing off. *)
Quiet(page) == page.first = edits /\ Len(table) <= Limit

Before(facet, other) == \E i, j \in DOMAIN DropOrder : i < j /\ DropOrder[i] = facet /\ DropOrder[j] = other

(* The notice names what mattered: over a table that does not change, each *)
(* offer shown fails the dropped facet and nothing else, no less central   *)
(* facet would have done, and everything is shown only when no offer       *)
(* fails fewer than two.                                                    *)
NamesWhatMattered ==
  \A i \in DOMAIN pages :
    LET page == pages[i]
        all == Candidates(table, page.want)
    IN Quiet(page) /\ "offers" \in page.want.sides =>
         /\ page.widen = "none" => page.rows = {row \in all : Missed(row, page.want) = {}}
         /\ page.widen \notin {"none", "everything"} =>
              /\ page.rows = {row \in all : Missed(row, page.want) = {page.widen}}
              /\ \A row \in all : Missed(row, page.want) # {}
              /\ \A row \in all, facet \in Steps : Missed(row, page.want) = {facet} => ~Before(facet, page.widen)
         /\ page.widen = "everything" =>
              page.rows = all /\ \A row \in all : Cardinality(Missed(row, page.want)) >= 2

(* A search always looks somewhere, and comes back with nothing only when  *)
(* every offer is excluded and there is no crew, or the side that has      *)
(* something was not asked.                                                 *)
NoDeadEnd ==
  \A i \in DOMAIN pages :
    LET page == pages[i]
    IN Quiet(page) /\ page.cards = {} =>
         /\ page.want.sides # {}
         /\ "offers" \in page.want.sides => Candidates(table, page.want) = {}
         /\ "crews" \in page.want.sides => Crews = {}

(* A chip is a next move: over a table that does not change, a chip of a   *)
(* page that answers the sentence itself, when the sentence is understood  *)
(* as it was then, shows offers with the facet of the chip, and nothing    *)
(* else, unless the page says that everything is shown.                     *)
ChipsLeadSomewhere ==
  \A i \in DOMAIN pages :
    LET page == pages[i]
        parent == pages[page.from]
        Has(row) == \/ page.chip.facet = "trade" /\ About[row.id].trade = page.chip.value
                    \/ page.chip.facet = "region" /\ About[row.id].region \in Meets[page.chip.value]
                    \/ page.chip.facet = "status" /\ row.status = page.chip.value
    IN page.from # 0 =>
         (parent.from = 0 /\ parent.parsed = page.parsed /\ Quiet(parent) =>
            /\ page.rows # {}
            /\ page.widen # "everything" => \A row \in page.rows : Has(row))
=============================================================================

---------------------------- MODULE SearchProofs ----------------------------
(***************************************************************************)
(* For every catalogue, every vocabulary of places, every sentence and     *)
(* whatever a model makes of it, with the table changing between any two   *)
(* calls of the store: a search keeps its types, shows nothing that the    *)
(* sentence excludes, and says honestly which facet it dropped.  And while  *)
(* the table stays as it is: it drops no facet but the first that          *)
(* mattered, comes back with nothing only when there is nothing, and       *)
(* offers only chips that lead somewhere.                                   *)
(***************************************************************************)
EXTENDS Search, SequenceTheorems, FiniteSetTheorems, TLAPS

----------------------------------------------------------------------------
\* What the operators of the catalogue return

(* Understanding a sentence gives a filter with the exclusions that were   *)
(* read from it.                                                            *)
LEMMA FinishParseType ==
  ASSUME NEW intent \in Intent, NEW fc \in Facets, NEW role \in Roles
  PROVE  /\ FinishParse(intent, fc, role) \in Wanted
         /\ FinishParse(intent, fc, role).exTrades = fc.exTrades
         /\ FinishParse(intent, fc, role).exRegions = fc.exRegions
<1>1. {Normal[word] : word \in intent.regions \ fc.exRegions} \subseteq Words
  BY CatalogueAssumption DEF Intent
<1>2. {side \in {"offers", "crews"} : IF side = "offers" THEN WantsOffers(intent.kind, role)
                                      ELSE WantsCrews(intent.kind, role)} \subseteq {"offers", "crews"}
  OBVIOUS
<1> QED
  BY <1>1, <1>2 DEF FinishParse, Wanted, Intent, Facets

(* A chip replaces a facet, never an exclusion. *)
LEMMA RefineType ==
  ASSUME NEW w \in Wanted, NEW chip \in Chip \cup {NoChip}
  PROVE  /\ ApplyRefine(w, chip) \in Wanted
         /\ ApplyRefine(w, chip).exTrades = w.exTrades
         /\ ApplyRefine(w, chip).exRegions = w.exRegions
<1>1. /\ chip.facet = "trade" => chip.value \in Trades
      /\ chip.facet = "region" => chip.value \in Words
      /\ chip.facet = "status" => chip.value \in Statuses
  BY CatalogueAssumption DEF Chip, NoChip
<1> QED
  BY <1>1 DEF ApplyRefine, Wanted

(* Dropping a facet leaves the other facets as they are. *)
LEMMA DroppedFields ==
  ASSUME NEW w \in Wanted, NEW facet \in Steps
  PROVE  /\ Dropped(w, facet).exTrades = w.exTrades
         /\ Dropped(w, facet).exRegions = w.exRegions
         /\ facet # "timeframe" => Dropped(w, facet).window = w.window
         /\ facet # "budget" => Dropped(w, facet).min = w.min /\ Dropped(w, facet).max = w.max
         /\ facet # "documents" => Dropped(w, facet).docs = w.docs
         /\ facet # "status" => Dropped(w, facet).statuses = w.statuses
         /\ facet # "region" => Dropped(w, facet).regions = w.regions
         /\ facet # "trade" => Dropped(w, facet).trades = w.trades
BY DEF Dropped, Wanted

(* The last resort keeps the exclusions, too. *)
LEMMA EverythingFields ==
  ASSUME NEW w \in Wanted
  PROVE  Everything(w).exTrades = w.exTrades /\ Everything(w).exRegions = w.exRegions
BY DEF Everything, Wanted

(* Whether an offer is excluded depends on the exclusions alone. *)
LEMMA SameExclusions ==
  ASSUME NEW id, NEW v, NEW w, v.exTrades = w.exTrades, v.exRegions = w.exRegions
  PROVE  Excluded(id, v) <=> Excluded(id, w)
BY DEF Excluded

(* What the store and the filter after it find is listed, is not excluded, *)
(* and meets every facet of the filter.                                     *)
LEMMA FoundRows ==
  ASSUME NEW t \in Seq(Row), NEW w, NEW row \in Found(t, w)
  PROVE  /\ row \in Row
         /\ ~Excluded(row.id, w) /\ InBudget(row.id, w) /\ InWindow(row.id, w)
         /\ MatchesFacets(row, w)
<1>1. row \in ListOffers(t, w)
      /\ ~Excluded(row.id, w) /\ InBudget(row.id, w) /\ InWindow(row.id, w)
  BY DEF Found, ApplyPostFilter
<1>2. PICK i \in DOMAIN t : row = t[i] /\ MatchesFacets(t[i], w)
  BY <1>1 DEF ListOffers
<1> QED
  BY <1>1, <1>2

(* The sets that crews are drawn from hold nothing else. *)
LEMMA CrewsType ==
  ASSUME NEW w, NEW crews \in RunCrews(w)
  PROVE  crews \subseteq Crews
BY DEF RunCrews, ListCrews

(* Chips offer what the rows have. *)
LEMMA ChipsType ==
  ASSUME NEW rows \in SUBSET Row, NEW w, NEW chip \in ChipsFor(rows, w)
  PROVE  /\ chip \in Chip
         /\ chip.facet = "trade" => \E row \in rows : chip.value = About[row.id].trade
         /\ chip.facet = "region" => \E row \in rows : chip.value = About[row.id].region
<1>1. \A row \in rows : /\ About[row.id].trade \in Trades /\ About[row.id].region \in Regions
                        /\ row.status \in Statuses
  BY CatalogueAssumption DEF Row, OfferData
<1>2. \/ \E row \in rows : chip = [facet |-> "trade", value |-> About[row.id].trade]
      \/ \E row \in rows : chip = [facet |-> "region", value |-> About[row.id].region]
      \/ \E row \in rows : chip = [facet |-> "status", value |-> row.status]
  BY DEF ChipsFor
<1> QED
  BY <1>1, <1>2 DEF Chip

(* A page has no more than its room, and only what there is. *)
LEMMA ChoicesType ==
  ASSUME NEW S, NEW room \in Nat, NEW T \in Choices(S, room)
  PROVE  T \subseteq S /\ Cardinality(T) <= room
BY DEF Choices

----------------------------------------------------------------------------
\* The invariant

(* A search under way excludes what its sentence does, and has found       *)
(* nothing that is excluded.                                                *)
ExclusionsCarried ==
  /\ req.pc # "idle" => /\ req.want.exTrades = FacetsOf[req.sentence].exTrades
                        /\ req.want.exRegions = FacetsOf[req.sentence].exRegions
  /\ \A row \in req.rows : ~Excluded(row.id, FacetsOf[req.sentence])

(* What a search under way has found misses at most the facet it dropped. *)
HonestSoFar ==
  req.widen # "everything" => \A row \in req.rows : Missed(row, req.want) \subseteq {req.widen}

(* There is room for the page of a search under way, the page it came from *)
(* is there, and the widening begins with the first facet.                  *)
RoomForPage == /\ req.pc # "idle" => Len(pages) < MaxPages /\ req.from <= Len(pages)
               /\ req.pc = "widen" => req.step # 0

(* The inductive invariant. *)
IInv == TypeOK /\ RoomForPage /\ ExclusionsCarried /\ HonestSoFar
          /\ ExclusionsHold /\ WideningIsHonest

(* No search has the types of one, and has found nothing. *)
LEMMA IdleType == Idle \in Search /\ Idle.pc = "idle" /\ Idle.rows = {} /\ Idle.widen = "none"
<1>1. (CHOOSE s \in Sentences : TRUE) \in Sentences
  BY SearchAssumption
<1>2. Nothing \in Wanted
  BY CatalogueAssumption DEF Nothing, Wanted
<1>3. 0 \in 0 .. Len(DropOrder) + 1
  BY DEF DropOrder
<1> QED
  BY <1>1, <1>2, <1>3, SearchAssumption DEF Idle, Search, Steps

----------------------------------------------------------------------------
\* The visitor's thread

(* A page that joins the thread is its last, and moves no other. *)
LEMMA OneMorePage ==
  ASSUME NEW page \in Page, pages \in Seq(Page), pages' = Append(pages, page)
  PROVE  /\ pages' \in Seq(Page) /\ Len(pages') = Len(pages) + 1
         /\ \A i \in DOMAIN pages : i \in DOMAIN pages' /\ pages'[i] = pages[i]
         /\ \A i \in DOMAIN pages' : i \in DOMAIN pages \/ pages'[i] = page
BY AppendProperties

(* A row moved to the front, or put there, leaves a table. *)
LEMMA TableWithFirst ==
  ASSUME NEW t \in Seq(Row), NEW row \in Row
  PROVE  /\ <<row>> \o t \in Seq(Row)
         /\ \A i \in DOMAIN t :
              <<row>> \o SubSeq(t, 1, i - 1) \o SubSeq(t, i + 1, Len(t)) \in Seq(Row)
<1>1. <<row>> \in Seq(Row)
  OBVIOUS
<1>2. <<row>> \o t \in Seq(Row)
  BY <1>1, ConcatProperties
<1>3. ASSUME NEW i \in DOMAIN t
      PROVE  <<row>> \o SubSeq(t, 1, i - 1) \o SubSeq(t, i + 1, Len(t)) \in Seq(Row)
  <2>1. i \in 1 .. Len(t) /\ \A j \in 1 .. Len(t) : t[j] \in Row
    BY <1>3
  <2>2. SubSeq(t, 1, i - 1) \in Seq(Row)
    <3>1. \A j \in 1 .. i - 1 : t[j] \in Row
      BY <2>1
    <3> QED
      BY <2>1, <3>1, SubSeqProperties
  <2>3. SubSeq(t, i + 1, Len(t)) \in Seq(Row)
    <3>1. \A j \in i + 1 .. Len(t) : t[j] \in Row
      BY <2>1
    <3> QED
      BY <2>1, <3>1, SubSeqProperties
  <2>4. <<row>> \o SubSeq(t, 1, i - 1) \in Seq(Row)
    BY <1>1, <2>2, ConcatProperties
  <2> QED
    BY <2>3, <2>4, ConcatProperties
<1> QED
  BY <1>2, <1>3

(* A search begins with the exclusions of its sentence, with nothing found. *)
LEMMA BeginStep ==
  ASSUME TypeOK, NEW s \in Sentences, NEW chip \in Chip \cup {NoChip}, NEW from \in 0 .. Len(pages),
         Begin(s, chip, from)
  PROVE  /\ req' \in Search /\ req'.pc \in {"offers", "crews"} /\ req'.rows = {} /\ req'.from = from
         /\ req'.want.exTrades = FacetsOf[req'.sentence].exTrades
         /\ req'.want.exRegions = FacetsOf[req'.sentence].exRegions
         /\ Len(pages) < MaxPages /\ UNCHANGED <<table, edits, pages>>
<1>1. PICK intent \in Parsed(s), role \in Roles :
        LET parsed == FinishParse(intent, FacetsOf[s], role)
        IN req' = [Idle EXCEPT !.pc = IF "offers" \in parsed.sides THEN "offers" ELSE "crews",
                               !.sentence = s, !.parsed = parsed, !.want = ApplyRefine(parsed, chip),
                               !.chip = chip, !.from = from, !.first = edits]
  BY DEF Begin
<1> DEFINE parsed == FinishParse(intent, FacetsOf[s], role)
<1>2. intent \in Intent /\ FacetsOf[s] \in Facets
  BY SearchAssumption DEF Parsed
<1>3. /\ parsed \in Wanted /\ parsed.exTrades = FacetsOf[s].exTrades
      /\ parsed.exRegions = FacetsOf[s].exRegions
  BY <1>2, FinishParseType
<1>4. /\ ApplyRefine(parsed, chip) \in Wanted
      /\ ApplyRefine(parsed, chip).exTrades = FacetsOf[s].exTrades
      /\ ApplyRefine(parsed, chip).exRegions = FacetsOf[s].exRegions
  BY <1>3, RefineType
<1>5. edits \in Nat /\ from \in 0 .. MaxPages
  BY SearchAssumption DEF TypeOK
<1> HIDE DEF parsed
<1>6. req' = [Idle EXCEPT !.pc = IF "offers" \in parsed.sides THEN "offers" ELSE "crews",
                          !.sentence = s, !.parsed = parsed, !.want = ApplyRefine(parsed, chip),
                          !.chip = chip, !.from = from, !.first = edits]
  BY <1>1 DEF parsed
<1>7. /\ req'.pc \in {"offers", "crews"} /\ req'.sentence = s /\ req'.want = ApplyRefine(parsed, chip)
      /\ req'.from = from /\ req'.rows = {}
  BY <1>6, IdleType DEF Search
<1>8. req' \in Search
  BY <1>3, <1>4, <1>5, <1>6, IdleType DEF Search
<1> QED
  BY <1>4, <1>7, <1>8 DEF Begin

(* Looking in the table, with the filter f in place of what was asked,     *)
(* finds rows that the sentence does not exclude, or takes the search to   *)
(* another step.                                                            *)
LEMMA LookStep ==
  ASSUME TypeOK, RoomForPage, ExclusionsCarried, HonestSoFar, req.pc # "idle",
         NEW f, f.exTrades = req.want.exTrades, f.exRegions = req.want.exRegions,
         NEW facet \in Steps,
         facet # "everything" => \A row \in Found(table, f) : Missed(row, req.want) \subseteq {facet},
         req' = [req EXCEPT !.rows = Found(table, f), !.widen = facet, !.pc = AfterOffers(req.want)],
         UNCHANGED <<table, edits, pages>>
  PROVE  req' \in Search /\ RoomForPage' /\ ExclusionsCarried' /\ HonestSoFar'
<1>1. req \in Search /\ table \in Seq(Row)
  BY DEF TypeOK
<1>2. \A row \in Found(table, f) : row \in Row /\ ~Excluded(row.id, f)
  BY <1>1, FoundRows
<1>3. AfterOffers(req.want) \in {"crews", "render"}
  BY DEF AfterOffers
<1>4. /\ req' \in Search /\ req'.rows = Found(table, f) /\ req'.widen = facet /\ req'.want = req.want
      /\ req'.sentence = req.sentence /\ req'.from = req.from /\ req'.pc \in {"crews", "render"}
  BY <1>1, <1>2, <1>3 DEF Search
<1>5. RoomForPage'
  BY <1>4 DEF RoomForPage
<1>6. \A row \in Found(table, f) : ~Excluded(row.id, FacetsOf[req.sentence])
  <2>1. f.exTrades = FacetsOf[req.sentence].exTrades /\ f.exRegions = FacetsOf[req.sentence].exRegions
    BY DEF ExclusionsCarried
  <2> QED
    BY <1>2, <2>1, SameExclusions
<1>7. ExclusionsCarried'
  BY <1>4, <1>6 DEF ExclusionsCarried
<1>8. HonestSoFar'
  BY <1>4 DEF HonestSoFar, Missed, InWindow, InBudget
<1> QED
  BY <1>4, <1>5, <1>7, <1>8

(* The search goes on with the next step, having found nothing yet. *)
LEMMA OnwardStep ==
  ASSUME TypeOK, RoomForPage, ExclusionsCarried, HonestSoFar, req.pc # "idle",
         NEW step \in 1 .. Len(DropOrder) + 1,
         req' = [req EXCEPT !.pc = "widen", !.step = step],
         UNCHANGED <<table, edits, pages>>
  PROVE  req' \in Search /\ RoomForPage' /\ ExclusionsCarried' /\ HonestSoFar'
<1>1. req \in Search
  BY DEF TypeOK
<1>2. step \in 0 .. Len(DropOrder) + 1 /\ step # 0
  BY DEF DropOrder
<1>3. /\ req' \in Search /\ req'.rows = req.rows /\ req'.widen = req.widen /\ req'.want = req.want
      /\ req'.sentence = req.sentence /\ req'.from = req.from /\ req'.step = step
  BY <1>1, <1>2 DEF Search
<1> QED
  BY <1>2, <1>3 DEF RoomForPage, ExclusionsCarried, HonestSoFar, Missed, InWindow, InBudget

(* The exact filter misses nothing, and a filter without one facet misses  *)
(* nothing else.                                                            *)
LEMMA FoundMissesLittle ==
  ASSUME NEW w \in Wanted, NEW t \in Seq(Row)
  PROVE  /\ \A row \in Found(t, w) : Missed(row, w) = {}
         /\ \A facet \in Steps : \A row \in Found(t, Dropped(w, facet)) : Missed(row, w) \subseteq {facet}
<1>1. ASSUME NEW row \in Found(t, w) PROVE Missed(row, w) = {}
  <2>1. InBudget(row.id, w) /\ InWindow(row.id, w) /\ MatchesFacets(row, w)
    BY FoundRows
  <2> QED
    BY <2>1 DEF Missed, MatchesFacets
<1>2. ASSUME NEW facet \in Steps, NEW row \in Found(t, Dropped(w, facet))
      PROVE  Missed(row, w) \subseteq {facet}
  <2> DEFINE v == Dropped(w, facet)
  <2>1. InBudget(row.id, v) /\ InWindow(row.id, v) /\ MatchesFacets(row, v)
    BY FoundRows
  <2>2. facet # "timeframe" => InWindow(row.id, w)
    BY <2>1, DroppedFields DEF InWindow
  <2>3. facet # "budget" => InBudget(row.id, w)
    BY <2>1, DroppedFields DEF InBudget
  <2>4. facet # "documents" => w.docs \subseteq About[row.id].docs
    BY <2>1, DroppedFields DEF MatchesFacets
  <2>5. facet # "status" => w.statuses = {} \/ row.status \in w.statuses
    BY <2>1, DroppedFields DEF MatchesFacets
  <2>6. facet # "region" => w.regions = {} \/ \E word \in w.regions : About[row.id].region \in Meets[word]
    BY <2>1, DroppedFields DEF MatchesFacets
  <2>7. facet # "trade" => w.trades = {} \/ About[row.id].trade \in w.trades
    BY <2>1, DroppedFields DEF MatchesFacets
  <2> QED
    BY <2>2, <2>3, <2>4, <2>5, <2>6, <2>7 DEF Missed
<1> QED
  BY <1>1, <1>2

(* The page that Render makes: no more than it has room for, of what the   *)
(* search found, as the search found it.                                    *)
LEMMA RenderStep ==
  ASSUME TypeOK, RoomForPage, ExclusionsCarried, HonestSoFar, Render
  PROVE  \E page \in Page :
           /\ pages' = Append(pages, page) /\ Len(pages) < MaxPages
           /\ Cardinality(page.cards) <= DisplayLimit /\ Cardinality(page.chips) <= MaxChips
           /\ \A row \in page.rows : ~Excluded(row.id, FacetsOf[page.sentence])
           /\ \A chip \in page.chips :
                /\ chip.facet = "trade" => chip.value \notin FacetsOf[page.sentence].exTrades
                /\ chip.facet = "region" =>
                     \A word \in FacetsOf[page.sentence].exRegions : chip.value \notin Inside[word]
           /\ page.widen # "everything" => \A row \in page.rows : Missed(row, page.want) \subseteq {page.widen}
<1>1. PICK cards \in Choices(Refs(req.rows, req.crews), DisplayLimit),
           chips \in Choices(ChipsFor(req.rows, req.want), MaxChips) :
        pages' = Append(pages, [sentence |-> req.sentence, parsed |-> req.parsed, want |-> req.want,
                                chip |-> req.chip, from |-> req.from, rows |-> req.rows,
                                widen |-> req.widen, crews |-> req.crews, cards |-> cards,
                                chips |-> chips, first |-> req.first])
  BY DEF Render
<1> DEFINE page == [sentence |-> req.sentence, parsed |-> req.parsed, want |-> req.want,
                    chip |-> req.chip, from |-> req.from, rows |-> req.rows,
                    widen |-> req.widen, crews |-> req.crews, cards |-> cards,
                    chips |-> chips, first |-> req.first]
<1>2. req \in Search
  BY DEF TypeOK
<1>3. cards \subseteq Refs(req.rows, req.crews) /\ Cardinality(cards) <= DisplayLimit
  BY SearchAssumption, ChoicesType
<1>4. chips \subseteq ChipsFor(req.rows, req.want) /\ Cardinality(chips) <= MaxChips
  BY SearchAssumption, ChoicesType
<1>5. Refs(req.rows, req.crews) \subseteq Offers \cup Crews
  BY <1>2 DEF Refs, Search, Row
<1>6. \A chip \in chips : chip \in Chip
  BY <1>2, <1>4, ChipsType DEF Search
<1>7. page \in Page
  BY <1>2, <1>3, <1>5, <1>6 DEF Page, Search
<1>8. Len(pages) < MaxPages
  BY DEF RoomForPage, Render
<1>9. \A row \in req.rows : ~Excluded(row.id, FacetsOf[req.sentence])
  BY DEF ExclusionsCarried
<1>10. ASSUME NEW chip \in chips
       PROVE  /\ chip.facet = "trade" => chip.value \notin FacetsOf[req.sentence].exTrades
              /\ chip.facet = "region" =>
                   \A word \in FacetsOf[req.sentence].exRegions : chip.value \notin Inside[word]
  <2>1. /\ chip.facet = "trade" => \E row \in req.rows : chip.value = About[row.id].trade
        /\ chip.facet = "region" => \E row \in req.rows : chip.value = About[row.id].region
    BY <1>2, <1>4, ChipsType DEF Search
  <2> QED
    BY <1>9, <2>1 DEF Excluded
<1>11. page.widen # "everything" => \A row \in page.rows : Missed(row, page.want) \subseteq {page.widen}
  BY DEF HonestSoFar
<1>12. /\ page.cards = cards /\ page.chips = chips /\ page.rows = req.rows
       /\ page.sentence = req.sentence
  OBVIOUS
<1>13. pages' = Append(pages, page)
  BY <1>1
<1> HIDE DEF page
<1> WITNESS page \in Page
<1> QED
  BY <1>3, <1>4, <1>8, <1>9, <1>10, <1>11, <1>12, <1>13

(* What the pages of a thread promise does not depend on what follows. *)
LEMMA PagesUnchanged ==
  ASSUME ExclusionsHold, WideningIsHonest, UNCHANGED pages
  PROVE  ExclusionsHold' /\ WideningIsHonest'
BY DEF ExclusionsHold, WideningIsHonest, Excluded, Missed, InWindow, InBudget

(* An idle search carries nothing. *)
LEMMA IdleStep ==
  ASSUME req' = Idle
  PROVE  req' \in Search /\ RoomForPage' /\ ExclusionsCarried' /\ HonestSoFar'
BY IdleType DEF RoomForPage, ExclusionsCarried, HonestSoFar

(* Nor does a search under way depend on the table or the narration. *)
LEMMA SearchUnchanged ==
  ASSUME RoomForPage, ExclusionsCarried, HonestSoFar, UNCHANGED <<req, pages>>
  PROVE  RoomForPage' /\ ExclusionsCarried' /\ HonestSoFar'
BY DEF RoomForPage, ExclusionsCarried, HonestSoFar, Excluded, Missed, InWindow, InBudget

----------------------------------------------------------------------------
\* The invariant is kept

(* When the visitor arrives there is no page and no search. *)
LEMMA IInvInit == Init => IInv
<1> SUFFICES ASSUME Init PROVE IInv
  OBVIOUS
<1>1. /\ table \in Seq(Row) /\ edits = 0 /\ req = Idle /\ pages = <<>>
  BY SearchAssumption DEF Init
<1>2. pages \in Seq(Page) /\ Len(pages) = 0 /\ DOMAIN pages = {}
  BY <1>1
<1>3. TypeOK
  BY <1>1, <1>2, IdleType, SearchAssumption DEF TypeOK
<1>4. RoomForPage /\ ExclusionsCarried /\ HonestSoFar
  BY <1>1, IdleType DEF RoomForPage, ExclusionsCarried, HonestSoFar
<1> QED
  BY <1>1, <1>2, <1>3, <1>4 DEF IInv, ExclusionsHold, WideningIsHonest

(* Others change the table and nothing of the visitor's. *)
LEMMA OthersNext == IInv /\ (Create \/ Advance) => IInv'
<1> SUFFICES ASSUME IInv, Create \/ Advance PROVE IInv'
  OBVIOUS
<1> USE DEF IInv
<1>1. table \in Seq(Row)
  BY DEF TypeOK
<1>2. /\ table' \in Seq(Row)
      /\ edits < MaxEdits /\ edits' = edits + 1 /\ UNCHANGED <<req, pages>>
  <2>1. CASE Create
    <3>1. PICK id \in Offers \ ListedIds, st \in Statuses : Edited(<<[id |-> id, status |-> st]>> \o table)
      BY <2>1 DEF Create
    <3>2. [id |-> id, status |-> st] \in Row
      BY DEF Row
    <3> QED
      BY <1>1, <3>1, <3>2, TableWithFirst DEF Edited
  <2>2. CASE Advance
    <3>1. PICK i \in DOMAIN table, st \in Statuses :
            Edited(<<[table[i] EXCEPT !.status = st]>> \o SubSeq(table, 1, i - 1)
                     \o SubSeq(table, i + 1, Len(table)))
      BY <2>2 DEF Advance
    <3>2. table[i] \in Row
      BY <1>1
    <3>3. [table[i] EXCEPT !.status = st] \in Row
      BY <3>2 DEF Row
    <3> QED
      BY <1>1, <3>1, <3>3, TableWithFirst DEF Edited
  <2> QED
    BY <2>1, <2>2
<1>3. TypeOK'
  BY <1>2, SearchAssumption DEF TypeOK
<1> QED
  BY <1>2, <1>3, SearchUnchanged, PagesUnchanged

(* A step of the search under way leaves the thread as it is. *)
LEMMA SearchingNext ==
  IInv /\ (Ask \/ Click \/ List \/ Widen \/ WidenToEverything \/ ListTheCrews \/ Fail) => IInv'
<1> SUFFICES ASSUME IInv, Ask \/ Click \/ List \/ Widen \/ WidenToEverything \/ ListTheCrews \/ Fail
             PROVE  IInv'
  OBVIOUS
<1> USE DEF IInv
<1>1. req \in Search /\ req.want \in Wanted /\ table \in Seq(Row) /\ pages \in Seq(Page)
  BY DEF TypeOK, Search
<1>2. UNCHANGED <<table, edits, pages>>
  BY DEF Ask, Click, Begin, List, Widen, WidenToEverything, ListTheCrews, Fail
<1>3. SUFFICES req' \in Search /\ RoomForPage' /\ ExclusionsCarried' /\ HonestSoFar'
  BY <1>2, PagesUnchanged DEF TypeOK
<1>4. ASSUME NEW s \in Sentences, NEW chip \in Chip \cup {NoChip}, NEW from \in 0 .. Len(pages),
             Begin(s, chip, from)
      PROVE  req' \in Search /\ RoomForPage' /\ ExclusionsCarried' /\ HonestSoFar'
  BY <1>4, BeginStep DEF RoomForPage, ExclusionsCarried, HonestSoFar
<1>5. CASE Ask
  <2>1. PICK s \in Sentences : Begin(s, NoChip, 0)
    BY <1>5 DEF Ask
  <2>2. 0 \in 0 .. Len(pages)
    BY <1>1
  <2> QED
    BY <1>4, <2>1, <2>2
<1>6. CASE Click
  <2>1. PICK i \in DOMAIN pages : \E chip \in pages[i].chips : Begin(pages[i].sentence, chip, i)
    BY <1>6 DEF Click
  <2>2. pages[i] \in Page /\ i \in 0 .. Len(pages)
    BY <1>1
  <2>3. pages[i].sentence \in Sentences /\ pages[i].chips \subseteq Chip
    BY <2>2 DEF Page
  <2> QED
    BY <1>4, <2>1, <2>2, <2>3
<1>7. 1 \in 1 .. Len(DropOrder) + 1 /\ (\A n \in 1 .. Len(DropOrder) : n + 1 \in 1 .. Len(DropOrder) + 1)
      /\ (\A n \in 1 .. Len(DropOrder) : DropOrder[n] \in Steps) /\ "everything" \in Steps
  BY DEF DropOrder, Steps
<1>8. CASE List
  <2>1. CASE req' = [req EXCEPT !.rows = Found(table, req.want), !.pc = AfterOffers(req.want)]
    <3>1. req' = [req EXCEPT !.rows = Found(table, req.want), !.widen = req.widen,
                             !.pc = AfterOffers(req.want)]
      BY <1>1, <2>1 DEF Search
    <3>2. req.widen \in Steps /\ req.pc # "idle"
      BY <1>1, <1>8 DEF Search, List
    <3>3. \A row \in Found(table, req.want) : Missed(row, req.want) \subseteq {req.widen}
      BY <1>1, FoundMissesLittle
    <3> QED
      BY <1>2, <3>1, <3>2, <3>3, LookStep
  <2>2. CASE req' = [req EXCEPT !.pc = "widen", !.step = 1]
    BY <1>2, <1>7, <1>8, <2>2, OnwardStep DEF List
  <2> QED
    BY <1>8, <2>1, <2>2 DEF List
<1>9. CASE Widen
  <2> DEFINE facet == DropOrder[req.step]
  <2>1. /\ req.pc = "widen" /\ req.step <= Len(DropOrder)
        /\ \/ req' = [req EXCEPT !.rows = Found(table, Dropped(req.want, facet)),
                                 !.widen = facet, !.pc = AfterOffers(req.want)]
           \/ req' = [req EXCEPT !.step = req.step + 1]
    BY <1>9 DEF Widen
  <2>2. req.step \in 1 .. Len(DropOrder)
    BY <1>1, <2>1 DEF Search, DropOrder, RoomForPage
  <2>3. facet \in Steps /\ req.step + 1 \in 1 .. Len(DropOrder) + 1
    BY <1>7, <2>2
  <2>4. CASE req' = [req EXCEPT !.rows = Found(table, Dropped(req.want, facet)),
                                !.widen = facet, !.pc = AfterOffers(req.want)]
    <3>1. \A row \in Found(table, Dropped(req.want, facet)) : Missed(row, req.want) \subseteq {facet}
      BY <1>1, <2>3, FoundMissesLittle
    <3>2. /\ Dropped(req.want, facet).exTrades = req.want.exTrades
          /\ Dropped(req.want, facet).exRegions = req.want.exRegions
      BY <1>1, <2>3, DroppedFields
    <3> HIDE DEF facet
    <3> QED
      BY <1>2, <2>1, <2>3, <2>4, <3>1, <3>2, LookStep
  <2>5. CASE req' = [req EXCEPT !.step = req.step + 1]
    <3>1. req' = [req EXCEPT !.pc = "widen", !.step = req.step + 1]
      BY <1>1, <2>1, <2>5 DEF Search
    <3> QED
      BY <1>2, <2>1, <2>3, <3>1, OnwardStep
  <2> QED
    BY <2>1, <2>4, <2>5
<1>10. CASE WidenToEverything
  <2>1. /\ req.pc # "idle"
        /\ req' = [req EXCEPT !.rows = Found(table, Everything(req.want)), !.widen = "everything",
                              !.pc = AfterOffers(req.want)]
    BY <1>10 DEF WidenToEverything
  <2>2. /\ Everything(req.want).exTrades = req.want.exTrades
        /\ Everything(req.want).exRegions = req.want.exRegions
    BY <1>1, EverythingFields
  <2> QED
    BY <1>2, <1>7, <2>1, <2>2, LookStep
<1>11. CASE ListTheCrews
  <2>1. PICK crews \in RunCrews(req.want) : req' = [req EXCEPT !.crews = crews, !.pc = "render"]
    BY <1>11 DEF ListTheCrews
  <2>2. crews \subseteq Crews /\ req.pc # "idle"
    BY <1>11, CrewsType DEF ListTheCrews
  <2>3. /\ req' \in Search /\ req'.rows = req.rows /\ req'.widen = req.widen /\ req'.want = req.want
        /\ req'.sentence = req.sentence /\ req'.from = req.from /\ req'.pc = "render"
    BY <1>1, <2>1, <2>2 DEF Search
  <2> QED
    BY <1>2, <2>2, <2>3 DEF RoomForPage, ExclusionsCarried, HonestSoFar, Missed, InWindow, InBudget
<1>12. CASE Fail
  BY <1>12, IdleStep DEF Fail
<1> QED
  BY <1>5, <1>6, <1>8, <1>9, <1>10, <1>11, <1>12

(* A page that joins the thread keeps what the pages promise. *)
LEMMA RenderNext == IInv /\ Render => IInv'
<1> SUFFICES ASSUME IInv, Render PROVE IInv'
  OBVIOUS
<1> USE DEF IInv
<1>1. /\ req' = Idle /\ UNCHANGED <<table, edits>>
      /\ pages \in Seq(Page) /\ Len(pages) \in Nat
  BY DEF Render, TypeOK
<1>2. PICK page \in Page :
        /\ pages' = Append(pages, page) /\ Len(pages) < MaxPages
        /\ Cardinality(page.cards) <= DisplayLimit /\ Cardinality(page.chips) <= MaxChips
        /\ \A row \in page.rows : ~Excluded(row.id, FacetsOf[page.sentence])
        /\ \A chip \in page.chips :
             /\ chip.facet = "trade" => chip.value \notin FacetsOf[page.sentence].exTrades
             /\ chip.facet = "region" =>
                  \A word \in FacetsOf[page.sentence].exRegions : chip.value \notin Inside[word]
        /\ page.widen # "everything" => \A row \in page.rows : Missed(row, page.want) \subseteq {page.widen}
  BY RenderStep
<1>3. /\ pages' \in Seq(Page) /\ Len(pages') = Len(pages) + 1
      /\ \A i \in DOMAIN pages : i \in DOMAIN pages' /\ pages'[i] = pages[i]
      /\ \A i \in DOMAIN pages' : i \in DOMAIN pages \/ pages'[i] = page
  BY <1>1, <1>2, OneMorePage
<1>4. TypeOK'
  <2>1. \A i \in DOMAIN pages' : /\ Cardinality(pages'[i].cards) <= DisplayLimit
                                 /\ Cardinality(pages'[i].chips) <= MaxChips
    BY <1>2, <1>3 DEF TypeOK
  <2>2. Len(pages') <= MaxPages
    BY <1>1, <1>2, <1>3, SearchAssumption DEF TypeOK
  <2> QED
    BY <1>1, <1>3, <2>1, <2>2, IdleStep DEF TypeOK
<1>5. RoomForPage' /\ ExclusionsCarried' /\ HonestSoFar'
  BY <1>1, IdleStep
<1>6. ExclusionsHold'
  BY <1>2, <1>3 DEF ExclusionsHold, Excluded
<1>7. WideningIsHonest'
  BY <1>2, <1>3 DEF WideningIsHonest, Missed, InWindow, InBudget
<1> QED
  BY <1>4, <1>5, <1>6, <1>7

(* Every step keeps it. *)
LEMMA IInvNext == IInv /\ [Next]_vars => IInv'
<1> SUFFICES ASSUME IInv, [Next]_vars PROVE IInv'
  OBVIOUS
<1>1. CASE Next
  BY <1>1, OthersNext, SearchingNext, RenderNext DEF Next
<1>2. CASE UNCHANGED vars
  BY <1>2, SearchUnchanged, PagesUnchanged DEF IInv, vars, TypeOK
<1> QED
  BY <1>1, <1>2

(* It holds of every behaviour. *)
LEMMA IInvHolds == Spec => []IInv
<1>1. Init => IInv
  BY IInvInit
<1>2. IInv /\ [Next]_vars => IInv'
  BY IInvNext
<1> QED
  BY <1>1, <1>2, PTL DEF Spec

----------------------------------------------------------------------------
\* The theorems about every table

(* The thread, the search under way and the table keep their types, for    *)
(* any catalogue: no page has more cards or chips than it has room for.     *)
THEOREM TypeCorrect == Spec => []TypeOK
<1>1. IInv => TypeOK
  BY DEF IInv
<1> QED
  BY <1>1, IInvHolds, PTL

(* finishParse, applyRefine, the widening and the chips: whatever a model  *)
(* heard, however far the search widened and whatever others did to the    *)
(* table meanwhile, what a sentence excludes is on none of its pages.      *)
THEOREM ExclusionsAlwaysHold == Spec => []ExclusionsHold
<1>1. IInv => ExclusionsHold
  BY DEF IInv
<1> QED
  BY <1>1, IInvHolds, PTL

(* widenSearch: what a page shows misses at most the facet that its notice *)
(* names, though each look is at a table that may have changed.            *)
THEOREM NoticesAreHonest == Spec => []WideningIsHonest
<1>1. IInv => WideningIsHonest
  BY DEF IInv
<1> QED
  BY <1>1, IInvHolds, PTL

----------------------------------------------------------------------------
\* What is found, exactly

(* The facets there are to drop. *)
Order == {"timeframe", "budget", "documents", "status", "region", "trade"}

(* Their order, and what else a notice may say. *)
LEMMA OrderIs ==
  /\ Len(DropOrder) = 6 /\ DOMAIN DropOrder = 1 .. 6
  /\ DropOrder[1] = "timeframe" /\ DropOrder[2] = "budget" /\ DropOrder[3] = "documents"
  /\ DropOrder[4] = "status" /\ DropOrder[5] = "region" /\ DropOrder[6] = "trade"
  /\ Steps = {"none", "everything"} \cup Order
  /\ "none" \notin Order /\ "everything" \notin Order
<1>1. /\ Len(DropOrder) = 6 /\ DOMAIN DropOrder = 1 .. 6
      /\ DropOrder[1] = "timeframe" /\ DropOrder[2] = "budget" /\ DropOrder[3] = "documents"
      /\ DropOrder[4] = "status" /\ DropOrder[5] = "region" /\ DropOrder[6] = "trade"
  BY DEF DropOrder
<1>2. 1 .. 6 = {1, 2, 3, 4, 5, 6}
  OBVIOUS
<1>3. {DropOrder[i] : i \in DOMAIN DropOrder} = Order
  BY <1>1, <1>2 DEF Order
<1> QED
  BY <1>1, <1>3 DEF Steps, Order

(* Every facet has one place in the order. *)
LEMMA OnePlace ==
  /\ \A i, j \in 1 .. 6 : DropOrder[i] = DropOrder[j] => i = j
  /\ \A facet \in Order : \E i \in 1 .. 6 : DropOrder[i] = facet
  /\ \A i \in 1 .. 6 : DropOrder[i] \in Order
<1>1. 1 .. 6 = {1, 2, 3, 4, 5, 6}
  OBVIOUS
<1>2. \A facet \in Order : \E i \in {1, 2, 3, 4, 5, 6} : DropOrder[i] = facet
  BY OrderIs DEF Order
<1>3. \A i, j \in {1, 2, 3, 4, 5, 6} : DropOrder[i] = DropOrder[j] => i = j
  BY OrderIs
<1>4. \A i \in {1, 2, 3, 4, 5, 6} : DropOrder[i] \in Order
  BY OrderIs DEF Order
<1> QED
  BY <1>1, <1>2, <1>3, <1>4

(* One of two facets is dropped before the other. *)
LEMMA SomeOrder ==
  /\ \A facet, other \in Order : facet # other => Before(facet, other) \/ Before(other, facet)
  /\ \A n \in 1 .. 6 : \A facet : Before(facet, DropOrder[n]) => \E k \in 1 .. n - 1 : facet = DropOrder[k]
<1>1. ASSUME NEW facet \in Order, NEW other \in Order, facet # other
      PROVE  Before(facet, other) \/ Before(other, facet)
  <2>1. PICK i \in 1 .. 6, j \in 1 .. 6 : DropOrder[i] = facet /\ DropOrder[j] = other
    BY OnePlace
  <2>2. i < j \/ j < i
    BY <1>1, <2>1
  <2> QED
    BY <2>1, <2>2, OrderIs DEF Before
<1>2. ASSUME NEW n \in 1 .. 6, NEW facet, Before(facet, DropOrder[n])
      PROVE  \E k \in 1 .. n - 1 : facet = DropOrder[k]
  <2>1. PICK i \in 1 .. 6, j \in 1 .. 6 : i < j /\ DropOrder[i] = facet /\ DropOrder[j] = DropOrder[n]
    BY <1>2, OrderIs DEF Before
  <2>2. j = n
    BY <2>1, OnePlace
  <2>3. i \in 1 .. n - 1
    BY <2>1, <2>2
  <2> QED
    BY <2>1, <2>3
<1> QED
  BY <1>1, <1>2

(* An offer misses facets that can be dropped. *)
LEMMA MissedIsDroppable == \A row, w : Missed(row, w) \subseteq Order
BY DEF Missed, Order

(* Two facets are missed when it is not one, nor none. *)
LEMMA AtLeastTwo ==
  ASSUME NEW row, NEW w, Missed(row, w) # {}, \A facet \in Order : Missed(row, w) # {facet}
  PROVE  Cardinality(Missed(row, w)) >= 2
<1> DEFINE S == Missed(row, w)
<1>1. S \subseteq Order
  BY MissedIsDroppable
<1> HIDE DEF S
<1>2. IsFiniteSet(Order)
  <2>1. Order = {"timeframe"} \cup {"budget"} \cup {"documents"} \cup {"status"} \cup {"region"} \cup {"trade"}
    BY DEF Order
  <2> QED
    BY <2>1, FS_Singleton, FS_Union
<1>3. IsFiniteSet(S)
  BY <1>1, <1>2, FS_Subset
<1>4. Cardinality(S) \in Nat /\ (Cardinality(S) = 0 <=> S = {})
  BY <1>3, FS_CardinalityType, FS_EmptySet
<1>5. Cardinality(S) = 1 => \E facet : S = {facet}
  BY <1>3, FS_Singleton
<1>6. \A facet : S = {facet} => facet \in Order
  BY <1>1
<1>7. S # {} /\ \A facet \in Order : S # {facet}
  BY DEF S
<1>8. Cardinality(S) # 0 /\ Cardinality(S) # 1
  BY <1>4, <1>5, <1>6, <1>7
<1> QED
  BY <1>4, <1>8 DEF S

(* A table that the store lists whole is listed whole. *)
LEMMA ListedWhole ==
  ASSUME NEW t \in Seq(Row), Len(t) <= Limit, NEW w
  PROVE  ListOffers(t, w) = {t[i] : i \in {i \in DOMAIN t : MatchesFacets(t[i], w)}}
<1> DEFINE hits == {i \in DOMAIN t : MatchesFacets(t[i], w)}
<1>1. ASSUME NEW i \in hits PROVE Cardinality({j \in hits : j < i}) < Limit
  <2>1. i \in 1 .. Len(t) /\ Len(t) \in Nat /\ Limit \in Nat
    BY CatalogueAssumption
  <2>2. {j \in hits : j < i} \subseteq 1 .. (i - 1)
    BY <2>1
  <2> HIDE DEF hits
  <2>3. IsFiniteSet(1 .. (i - 1)) /\ Cardinality(1 .. (i - 1)) = i - 1
    <3>1. /\ IsFiniteSet(1 .. (i - 1))
          /\ Cardinality(1 .. (i - 1)) = IF 1 > i - 1 THEN 0 ELSE (i - 1) - 1 + 1
      <4> DEFINE n == i - 1
      <4>1. n \in Int /\ 1 \in Int
        BY <2>1
      <4> HIDE DEF n
      <4>2. IsFiniteSet(1 .. n) /\ Cardinality(1 .. n) = IF 1 > n THEN 0 ELSE n - 1 + 1
        BY <4>1, FS_Interval
      <4> QED
        BY <4>2 DEF n
    <3> QED
      BY <2>1, <3>1
  <2>4. /\ Cardinality({j \in hits : j < i}) <= i - 1
        /\ Cardinality({j \in hits : j < i}) \in Nat
    BY <2>2, <2>3, FS_Subset, FS_CardinalityType
  <2> QED
    BY <2>1, <2>4
<1>2. ListOffers(t, w) = {t[i] : i \in {i \in hits : Cardinality({j \in hits : j < i}) < Limit}}
  BY DEF ListOffers
<1>3. {i \in hits : Cardinality({j \in hits : j < i}) < Limit} = hits
  BY <1>1
<1> QED
  BY <1>2, <1>3

(* The exact filter finds what misses nothing. *)
LEMMA FoundIs ==
  ASSUME NEW t \in Seq(Row), Len(t) <= Limit, NEW w \in Wanted
  PROVE  Found(t, w) = {row \in Candidates(t, w) : Missed(row, w) = {}}
<1>1. \A row : Missed(row, w) = {} <=> InBudget(row.id, w) /\ InWindow(row.id, w) /\ MatchesFacets(row, w)
  <2>1. ASSUME NEW row, InBudget(row.id, w), InWindow(row.id, w), MatchesFacets(row, w) PROVE Missed(row, w) = {}
    BY <2>1 DEF Missed, MatchesFacets
  <2>2. ASSUME NEW row, Missed(row, w) = {} PROVE InBudget(row.id, w) /\ InWindow(row.id, w) /\ MatchesFacets(row, w)
    <3>1. \A facet \in Order : facet \in Steps /\ facet \notin Missed(row, w)
      BY <2>2, OrderIs
    <3>2. "timeframe" \notin Missed(row, w) /\ "budget" \notin Missed(row, w) /\ "documents" \notin Missed(row, w)
          /\ "status" \notin Missed(row, w) /\ "region" \notin Missed(row, w) /\ "trade" \notin Missed(row, w)
      BY <3>1 DEF Order
    <3>3. {"timeframe", "budget", "documents", "status", "region", "trade"} \subseteq Steps
      BY <3>1 DEF Order
    <3>4. InBudget(row.id, w) /\ InWindow(row.id, w)
      BY <3>2, <3>3 DEF Missed
    <3>5. MatchesFacets(row, w)
      BY <3>2, <3>3 DEF Missed, MatchesFacets
    <3> QED
      BY <3>4, <3>5
  <2> QED
    BY <2>1, <2>2
<1>2. ListOffers(t, w) = {t[i] : i \in {i \in DOMAIN t : MatchesFacets(t[i], w)}}
  BY ListedWhole
<1>3. \A row : row \in Found(t, w) <=> /\ \E i \in DOMAIN t : row = t[i] /\ MatchesFacets(t[i], w)
                                      /\ ~Excluded(row.id, w) /\ InBudget(row.id, w) /\ InWindow(row.id, w)
  BY <1>2 DEF Found, ApplyPostFilter
<1>4. \A row : row \in Candidates(t, w) <=> \E i \in DOMAIN t : row = t[i] /\ ~Excluded(t[i].id, w)
  BY DEF Candidates
<1> QED
  BY <1>1, <1>3, <1>4

(* A filter whose facets are other ones. *)
LEMMA FilterType ==
  ASSUME NEW w \in Wanted, NEW window \in SUBSET Days, NEW min \in 0 .. Any, NEW max \in 0 .. Any,
         NEW docs \in SUBSET Docs, NEW statuses \in SUBSET Statuses, NEW regions \in SUBSET Words,
         NEW trades \in SUBSET Trades
  PROVE  [w EXCEPT !.window = window, !.min = min, !.max = max, !.docs = docs, !.statuses = statuses,
                   !.regions = regions, !.trades = trades] \in Wanted
BY DEF Wanted

(* Without a facet, an offer misses what it missed but for that. *)
LEMMA DroppedMisses ==
  ASSUME NEW w \in Wanted, NEW facet \in Order
  PROVE  /\ Dropped(w, facet) \in Wanted
         /\ \A row \in Row : Missed(row, Dropped(w, facet)) = Missed(row, w) \ {facet}
         /\ \A t : Candidates(t, Dropped(w, facet)) = Candidates(t, w)
<1> DEFINE v == Dropped(w, facet)
<1>1. facet \in Steps
  BY OrderIs
<1>2. /\ v.exTrades = w.exTrades /\ v.exRegions = w.exRegions
      /\ facet # "timeframe" => v.window = w.window
      /\ facet # "budget" => v.min = w.min /\ v.max = w.max
      /\ facet # "documents" => v.docs = w.docs
      /\ facet # "status" => v.statuses = w.statuses
      /\ facet # "region" => v.regions = w.regions
      /\ facet # "trade" => v.trades = w.trades
  BY <1>1, DroppedFields
<1>3. /\ facet = "timeframe" => v.window = {}
      /\ facet = "budget" => v.min = 0 /\ v.max = Any
      /\ facet = "documents" => v.docs = {}
      /\ facet = "status" => v.statuses = {}
      /\ facet = "region" => v.regions = {}
      /\ facet = "trade" => v.trades = {}
  BY DEF Dropped, Wanted
<1>4. v \in Wanted
  <2> DEFINE window == IF facet = "timeframe" THEN {} ELSE w.window
             min == IF facet = "budget" THEN 0 ELSE w.min
             max == IF facet = "budget" THEN Any ELSE w.max
             docs == IF facet = "documents" THEN {} ELSE w.docs
             statuses == IF facet = "status" THEN {} ELSE w.statuses
             regions == IF facet = "region" THEN {} ELSE w.regions
             trades == IF facet = "trade" THEN {} ELSE w.trades
  <2>1. /\ window \in SUBSET Days /\ docs \in SUBSET Docs /\ statuses \in SUBSET Statuses
        /\ regions \in SUBSET Words /\ trades \in SUBSET Trades
    BY DEF Wanted
  <2>2. min \in 0 .. Any /\ max \in 0 .. Any
    BY CatalogueAssumption DEF Wanted
  <2>3. v = [w EXCEPT !.window = window, !.min = min, !.max = max, !.docs = docs, !.statuses = statuses,
                      !.regions = regions, !.trades = trades]
    BY DEF Dropped
  <2> HIDE DEF v, window, min, max, docs, statuses, regions, trades
  <2> QED
    BY <2>1, <2>2, <2>3, FilterType
<1> HIDE DEF v
<1>5. ASSUME NEW row \in Row PROVE Missed(row, v) = Missed(row, w) \ {facet}
  <2>1. About[row.id].budget \in 0 .. Any
    BY CatalogueAssumption DEF Row, OfferData
  <2>2. facet = "timeframe" => InWindow(row.id, v)
    BY <1>3 DEF InWindow
  <2>3. facet = "budget" => InBudget(row.id, v)
    BY <1>3, <2>1 DEF InBudget
  <2>4. facet # "timeframe" => (InWindow(row.id, v) <=> InWindow(row.id, w))
    BY <1>2 DEF InWindow
  <2>5. facet # "budget" => (InBudget(row.id, v) <=> InBudget(row.id, w))
    BY <1>2 DEF InBudget
  <2>6. \A g \in Order \ {facet} : g \in Missed(row, v) <=> g \in Missed(row, w)
    BY <1>2, <2>4, <2>5 DEF Missed, Order
  <2>7. facet \notin Missed(row, v)
    BY <1>3, <2>2, <2>3 DEF Missed
  <2> QED
    BY <2>6, <2>7, MissedIsDroppable
<1>6. \A t : Candidates(t, v) = Candidates(t, w)
  BY <1>2 DEF Candidates, Excluded
<1> QED
  BY <1>4, <1>5, <1>6 DEF v

(* So the search without a facet finds what misses that at most. *)
LEMMA WidenedIs ==
  ASSUME NEW t \in Seq(Row), Len(t) <= Limit, NEW w \in Wanted, NEW facet \in Order
  PROVE  Found(t, Dropped(w, facet)) = {row \in Candidates(t, w) : Missed(row, w) \subseteq {facet}}
<1>1. Found(t, Dropped(w, facet)) = {row \in Candidates(t, w) : Missed(row, Dropped(w, facet)) = {}}
  BY FoundIs, DroppedMisses
<1>2. Candidates(t, w) \subseteq Row
  BY DEF Candidates
<1>3. \A row \in Row : Missed(row, Dropped(w, facet)) = {} <=> Missed(row, w) \subseteq {facet}
  BY DroppedMisses
<1> QED
  BY <1>1, <1>2, <1>3

(* And the last resort finds everything that is not excluded. *)
LEMMA EverythingIs ==
  ASSUME NEW t \in Seq(Row), Len(t) <= Limit, NEW w \in Wanted
  PROVE  Found(t, Everything(w)) = Candidates(t, w)
<1> DEFINE v == Everything(w)
<1>1. /\ v.exTrades = w.exTrades /\ v.exRegions = w.exRegions /\ v.window = {} /\ v.min = 0 /\ v.max = Any
      /\ v.docs = {} /\ v.statuses = {} /\ v.regions = {} /\ v.trades = {} /\ v \in Wanted
  <2>1. 0 \in 0 .. Any /\ Any \in 0 .. Any
    BY CatalogueAssumption
  <2>2. v = [w EXCEPT !.window = {}, !.min = 0, !.max = Any, !.docs = {}, !.statuses = {},
                      !.regions = {}, !.trades = {}]
    BY DEF Everything
  <2> HIDE DEF v
  <2>3. v \in Wanted
    BY <2>1, <2>2, FilterType
  <2> QED
    BY <2>2, <2>3 DEF Wanted
<1> HIDE DEF v
<1>2. ASSUME NEW row \in Row PROVE Missed(row, v) = {}
  <2>1. About[row.id].budget \in 0 .. Any
    BY CatalogueAssumption DEF Row, OfferData
  <2>2. InWindow(row.id, v) /\ InBudget(row.id, v)
    BY <1>1, <2>1 DEF InWindow, InBudget
  <2> QED
    BY <1>1, <2>2 DEF Missed
<1>3. Candidates(t, v) = Candidates(t, w) /\ Candidates(t, v) \subseteq Row
  BY <1>1 DEF Candidates, Excluded
<1>4. Found(t, v) = {row \in Candidates(t, v) : Missed(row, v) = {}}
  BY <1>1, FoundIs
<1> QED
  BY <1>2, <1>3, <1>4 DEF v

----------------------------------------------------------------------------
\* What a search has found out

(* The facet a notice names is the one that mattered. *)
Mattered(t, w, rows, widen) ==
  LET all == Candidates(t, w)
  IN /\ widen = "none" => rows = {row \in all : Missed(row, w) = {}}
     /\ widen \notin {"none", "everything"} =>
          /\ rows = {row \in all : Missed(row, w) = {widen}}
          /\ \A row \in all : Missed(row, w) # {}
          /\ \A row \in all, facet \in Steps : Missed(row, w) = {facet} => ~Before(facet, widen)
     /\ widen = "everything" => rows = all /\ \A row \in all : Cardinality(Missed(row, w)) >= 2

(* What a search, or its page, was asked: its sentence, changed by a chip  *)
(* of an older page; and that asks for something.                           *)
Asked(x, thread, e) ==
  /\ x.first <= e /\ x.want = ApplyRefine(x.parsed, x.chip)
  /\ x.want.sides # {} /\ ("offers" \notin x.want.sides => x.rows = {})
  /\ x.from = 0 => x.chip = NoChip
  /\ x.from # 0 => /\ x.from \in DOMAIN thread /\ x.chip \in thread[x.from].chips
                   /\ thread[x.from].first <= x.first

(* Its search has seen one table, t. *)
Seen(x, t, e) == x.first = e /\ Len(t) <= Limit

(* What it has found. *)
Outcome(x, t, e) ==
  "offers" \in x.want.sides =>
    /\ x.widen # "everything" => x.rows # {}
    /\ Seen(x, t, e) => Mattered(t, x.want, x.rows, x.widen)

(* A search under way: while the table stays as it is, no offer was found  *)
(* by the steps so far.                                                     *)
UnderWay(x, thread, t, e) ==
  /\ Asked(x, thread, e)
  /\ x.pc \in {"offers", "widen"} => "offers" \in x.want.sides /\ x.widen = "none"
  /\ x.pc = "widen" /\ Seen(x, t, e) =>
       \A row \in Candidates(t, x.want) :
         /\ Missed(row, x.want) # {}
         /\ \A k \in 1 .. x.step - 1 : Missed(row, x.want) # {DropOrder[k]}
  /\ x.pc \in {"crews", "render"} => Outcome(x, t, e)
  /\ x.pc = "render" /\ "crews" \in x.want.sides /\ x.crews = {} => Crews = {}

(* Its page. *)
Settled(x, thread, t, e) ==
  /\ Asked(x, thread, e) /\ Outcome(x, t, e)
  /\ x.chips \subseteq ChipsFor(x.rows, x.want)
  /\ x.cards = {} => x.rows = {} /\ x.crews = {}
  /\ "crews" \in x.want.sides /\ x.crews = {} => Crews = {}

OnTheWay == req.pc # "idle" => UnderWay(req, pages, table, edits)

Thread == \A i \in DOMAIN pages : Settled(pages[i], pages, table, edits)

(* The pages of the thread, as the types have them. *)
LEMMA PageTypes ==
  ASSUME TypeOK, NEW i \in DOMAIN pages
  PROVE  /\ pages[i] \in Page /\ pages[i].want \in Wanted /\ pages[i].parsed \in Wanted
         /\ pages[i].rows \subseteq Row /\ pages[i].widen \in Steps /\ pages[i].first \in Nat
         /\ pages[i].from \in Nat /\ pages[i].chip \in Chip \cup {NoChip}
<1>1. pages[i] \in Page
  BY DEF TypeOK
<1> QED
  BY <1>1, SearchAssumption DEF Page

(* What is settled of the pages names the facets that mattered, *)
LEMMA ThreadMattered == TypeOK /\ Thread => NamesWhatMattered
<1> SUFFICES ASSUME TypeOK, Thread, NEW i \in DOMAIN pages, Quiet(pages[i]), "offers" \in pages[i].want.sides
             PROVE  LET page == pages[i]
                        all == Candidates(table, page.want)
                    IN /\ page.widen = "none" => page.rows = {row \in all : Missed(row, page.want) = {}}
                       /\ page.widen \notin {"none", "everything"} =>
                            /\ page.rows = {row \in all : Missed(row, page.want) = {page.widen}}
                            /\ \A row \in all : Missed(row, page.want) # {}
                            /\ \A row \in all, facet \in Steps :
                                 Missed(row, page.want) = {facet} => ~Before(facet, page.widen)
                       /\ page.widen = "everything" =>
                            page.rows = all /\ \A row \in all : Cardinality(Missed(row, page.want)) >= 2
  BY DEF NamesWhatMattered
<1>1. Mattered(table, pages[i].want, pages[i].rows, pages[i].widen)
  BY DEF Thread, Settled, Outcome, Seen, Quiet
<1> QED
  BY <1>1 DEF Mattered

(* gives a reason where there is no card, *)
LEMMA ThreadNoDeadEnd == TypeOK /\ Thread => NoDeadEnd
<1> SUFFICES ASSUME TypeOK, Thread, NEW i \in DOMAIN pages, Quiet(pages[i]), pages[i].cards = {}
             PROVE  /\ pages[i].want.sides # {}
                    /\ "offers" \in pages[i].want.sides => Candidates(table, pages[i].want) = {}
                    /\ "crews" \in pages[i].want.sides => Crews = {}
  BY DEF NoDeadEnd
<1>1. Asked(pages[i], pages, edits) /\ Outcome(pages[i], table, edits) /\ pages[i].rows = {} /\ pages[i].crews = {}
      /\ ("crews" \in pages[i].want.sides /\ pages[i].crews = {} => Crews = {})
  BY DEF Thread, Settled
<1>2. "offers" \in pages[i].want.sides => Candidates(table, pages[i].want) = {}
  BY <1>1 DEF Outcome, Mattered, Seen, Quiet
<1> QED
  BY <1>1, <1>2 DEF Asked

(* A page without a chip asks what its sentence does. *)
LEMMA NoChipIs == \A w \in Wanted : ApplyRefine(w, NoChip) = w
BY DEF ApplyRefine, NoChip, Wanted

(* What a chip asks for, on top of its page: an offer of that page has it, *)
(* and it changes one facet.                                                *)
LEMMA ChipIs ==
  ASSUME NEW w \in Wanted, NEW rows \in SUBSET Row, NEW chip \in ChipsFor(rows, w)
  PROVE  /\ chip.facet \in Order
         /\ ApplyRefine(w, chip) \in Wanted /\ ApplyRefine(w, chip).sides = w.sides
         /\ \A t : Candidates(t, ApplyRefine(w, chip)) = Candidates(t, w)
         /\ \A row \in Row : Missed(row, w) \ {chip.facet} = Missed(row, ApplyRefine(w, chip)) \ {chip.facet}
         /\ \E row \in rows : chip.facet \notin Missed(row, ApplyRefine(w, chip))
         /\ \A row \in Row : chip.facet \notin Missed(row, ApplyRefine(w, chip)) =>
              \/ chip.facet = "trade" /\ About[row.id].trade = chip.value
              \/ chip.facet = "region" /\ About[row.id].region \in Meets[chip.value]
              \/ chip.facet = "status" /\ row.status = chip.value
<1> DEFINE v == ApplyRefine(w, chip)
<1>1. chip \in Chip
  BY ChipsType
<1>2. v \in Wanted /\ v.exTrades = w.exTrades /\ v.exRegions = w.exRegions
  BY <1>1, RefineType
<1>3. /\ chip.facet \in {"trade", "region", "status"}
      /\ v.sides = w.sides /\ v.docs = w.docs /\ v.window = w.window /\ v.min = w.min /\ v.max = w.max
      /\ v.trades = (IF chip.facet = "trade" THEN {chip.value} ELSE w.trades)
      /\ v.regions = (IF chip.facet = "region" THEN {chip.value} ELSE w.regions)
      /\ v.statuses = (IF chip.facet = "status" THEN {chip.value} ELSE w.statuses)
  BY <1>1 DEF Chip, ApplyRefine, Wanted
<1>4. \E row \in rows : \/ chip.facet = "trade" /\ About[row.id].trade = chip.value
                        \/ chip.facet = "region" /\ About[row.id].region = chip.value
                        \/ chip.facet = "status" /\ row.status = chip.value
  BY DEF ChipsFor
<1>5. \A row \in rows : About[row.id].region \in Meets[About[row.id].region]
  BY CatalogueAssumption DEF Row, OfferData
<1> HIDE DEF v
<1>6. \A t : Candidates(t, v) = Candidates(t, w)
  BY <1>2 DEF Candidates, Excluded
<1>7. ASSUME NEW row \in Row
      PROVE  Missed(row, w) \ {chip.facet} = Missed(row, v) \ {chip.facet}
  BY <1>3 DEF Missed, InWindow, InBudget
<1>8. \A row : \/ chip.facet = "trade" /\ About[row.id].trade = chip.value
               \/ chip.facet = "region" /\ About[row.id].region \in Meets[chip.value]
               \/ chip.facet = "status" /\ row.status = chip.value
               => chip.facet \notin Missed(row, v)
  BY <1>3 DEF Missed
<1>9. \E row \in rows : chip.facet \notin Missed(row, v)
  BY <1>4, <1>5, <1>8
<1>10. \A row \in Row : chip.facet \notin Missed(row, v) =>
         \/ chip.facet = "trade" /\ About[row.id].trade = chip.value
         \/ chip.facet = "region" /\ About[row.id].region \in Meets[chip.value]
         \/ chip.facet = "status" /\ row.status = chip.value
  BY <1>3, OrderIs DEF Missed, Order
<1>11. chip.facet \in Order
  BY <1>3 DEF Order
<1> QED
  BY <1>2, <1>3, <1>6, <1>7, <1>9, <1>10, <1>11 DEF v

(* A click on a chip: the offer that it was made from is found again, and  *)
(* misses no more than before, so that the facet of the chip is never the  *)
(* one to drop.                                                             *)
LEMMA ChipFinds ==
  ASSUME NEW w \in Wanted, NEW rows \in SUBSET Row, NEW widen \in Steps, NEW chip \in ChipsFor(rows, w),
         Mattered(table, w, rows, widen),
         NEW found \in SUBSET Row, NEW dropped \in Steps,
         dropped # "everything" => found # {}, Mattered(table, ApplyRefine(w, chip), found, dropped)
  PROVE  /\ found # {}
         /\ dropped # "everything" => \A row \in found : chip.facet \notin Missed(row, ApplyRefine(w, chip))
<1> DEFINE v == ApplyRefine(w, chip)
           all == Candidates(table, w)
           facet == chip.facet
<1>1. /\ facet \in Order /\ Candidates(table, v) = all
      /\ \A row \in Row : Missed(row, w) \ {facet} = Missed(row, v) \ {facet}
  BY ChipIs
<1>2. PICK row \in rows : facet \notin Missed(row, v)
  BY ChipIs
<1>3. row \in all /\ row \in Row /\ rows \subseteq all
  BY DEF Mattered
<1>4. dropped = "everything" => found # {}
  BY <1>1, <1>3 DEF Mattered
<1>5. dropped # "everything" => found \subseteq all
  BY <1>1 DEF Mattered
<1>6. dropped \notin {"none", "everything"} => /\ \A r \in all : Missed(r, v) # {}
                                               /\ \A r \in found : Missed(r, v) = {dropped}
                                               /\ \A r \in all, f \in Steps : Missed(r, v) = {f} => ~Before(f, dropped)
  BY <1>1 DEF Mattered
<1>7. widen \notin {"none", "everything"} => /\ \A r \in all : Missed(r, w) # {}
                                             /\ \A r \in rows : Missed(r, w) = {widen}
                                             /\ \A r \in all, f \in Steps : Missed(r, w) = {f} => ~Before(f, widen)
  BY DEF Mattered
<1>8. widen = "everything" => \A r \in all : Cardinality(Missed(r, w)) >= 2
  BY DEF Mattered
<1>9. widen = "none" => \A r \in rows : Missed(r, w) = {}
  BY DEF Mattered
<1>10. dropped = "none" => \A r \in found : Missed(r, v) = {}
  BY <1>1 DEF Mattered
<1> HIDE DEF v, all
<1>11. ASSUME dropped = facet PROVE FALSE
  <2>1. dropped \notin {"none", "everything"} /\ found # {}
    BY <1>1, <1>11, OrderIs
  <2>2. PICK r \in found : r \in all /\ r \in Row /\ Missed(r, v) = {facet}
    BY <1>5, <1>6, <1>11, <2>1
  <2>3. Missed(r, w) \subseteq {facet}
    BY <1>1, <2>2
  <2>4. Missed(row, w) \ {facet} = Missed(row, v) /\ Missed(row, v) # {}
    BY <1>1, <1>2, <1>3, <1>6, <2>1
  <2>5. CASE widen = "none"
    BY <1>9, <2>4, <2>5
  <2>6. CASE widen = "everything"
    <3>1. Cardinality(Missed(r, w)) >= 2
      BY <1>8, <2>2, <2>6
    <3>2. Missed(r, w) = {} \/ Missed(r, w) = {facet}
      BY <2>3
    <3>3. Cardinality({}) = 0 /\ Cardinality({facet}) = 1
      BY FS_EmptySet, FS_Singleton
    <3> QED
      BY <3>1, <3>2, <3>3
  <2>7. CASE widen \notin {"none", "everything"}
    <3>1. Missed(row, w) = {widen} /\ Missed(r, w) = {facet}
      BY <1>7, <2>2, <2>3, <2>7
    <3>2. widen # facet /\ Missed(row, v) = {widen}
      BY <2>4, <3>1
    <3>3. widen \in Steps /\ facet \in Steps /\ widen \in Order
      BY <1>1, <2>7, OrderIs
    <3>4. ~Before(widen, facet) /\ ~Before(facet, widen)
      BY <1>3, <1>6, <1>7, <1>11, <2>1, <2>2, <2>7, <3>1, <3>2, <3>3
    <3> QED
      BY <1>1, <3>2, <3>3, <3>4, SomeOrder
  <2> QED
    BY <2>5, <2>6, <2>7
<1>12. dropped # "everything" => \A r \in found : facet \notin Missed(r, v)
  BY <1>6, <1>10, <1>11
<1> QED
  BY <1>4, <1>12 DEF v

(* and makes every chip a next move. *)
LEMMA ThreadChips == TypeOK /\ Thread => ChipsLeadSomewhere
<1> SUFFICES ASSUME TypeOK, Thread, NEW i \in DOMAIN pages, pages[i].from # 0,
                    pages[pages[i].from].from = 0, pages[pages[i].from].parsed = pages[i].parsed,
                    Quiet(pages[pages[i].from])
             PROVE  /\ pages[i].rows # {}
                    /\ pages[i].widen # "everything" =>
                         \A row \in pages[i].rows :
                           \/ pages[i].chip.facet = "trade" /\ About[row.id].trade = pages[i].chip.value
                           \/ pages[i].chip.facet = "region" /\ About[row.id].region \in Meets[pages[i].chip.value]
                           \/ pages[i].chip.facet = "status" /\ row.status = pages[i].chip.value
  BY DEF ChipsLeadSomewhere
<1> DEFINE page == pages[i]
           parent == pages[pages[i].from]
<1>1. Settled(page, pages, table, edits) /\ page.from \in DOMAIN pages
  BY DEF Thread, Settled, Asked
<1>2. Settled(parent, pages, table, edits)
  BY <1>1 DEF Thread
<1>3. /\ page.want \in Wanted /\ page.rows \subseteq Row /\ page.widen \in Steps /\ page.first \in Nat
      /\ parent.want \in Wanted /\ parent.parsed \in Wanted /\ parent.rows \subseteq Row /\ parent.widen \in Steps
      /\ parent.first \in Nat /\ edits \in Nat
  <2>1. edits \in Nat
    BY SearchAssumption DEF TypeOK
  <2> QED
    BY <1>1, <2>1, PageTypes
<1>4. Quiet(parent) /\ parent.from = 0 /\ parent.parsed = page.parsed /\ page.from # 0
  OBVIOUS
<1> HIDE DEF page, parent
<1>5. /\ page.chip \in parent.chips /\ parent.first <= page.first /\ page.first <= edits
      /\ page.want = ApplyRefine(page.parsed, page.chip)
  BY <1>1, <1>4 DEF Settled, Asked, page, parent
<1>6. parent.want = parent.parsed
  BY <1>2, <1>3, <1>4, NoChipIs DEF Settled, Asked
<1>7. page.chip \in ChipsFor(parent.rows, parent.want) /\ page.want = ApplyRefine(parent.want, page.chip)
  BY <1>2, <1>4, <1>5, <1>6 DEF Settled
<1>8. page.first = edits /\ Quiet(page)
  BY <1>3, <1>4, <1>5 DEF Quiet
<1>9. /\ page.want.sides = parent.want.sides /\ parent.rows # {}
      /\ \A row \in Row : page.chip.facet \notin Missed(row, page.want) =>
           \/ page.chip.facet = "trade" /\ About[row.id].trade = page.chip.value
           \/ page.chip.facet = "region" /\ About[row.id].region \in Meets[page.chip.value]
           \/ page.chip.facet = "status" /\ row.status = page.chip.value
  BY <1>3, <1>7, ChipIs
<1>10. "offers" \in parent.want.sides /\ "offers" \in page.want.sides
  BY <1>2, <1>9 DEF Settled, Asked
<1>11. /\ Mattered(table, parent.want, parent.rows, parent.widen)
       /\ Mattered(table, page.want, page.rows, page.widen) /\ (page.widen # "everything" => page.rows # {})
  BY <1>1, <1>2, <1>4, <1>8, <1>10 DEF Settled, Outcome, Seen, Quiet
<1>12. /\ page.rows # {}
       /\ page.widen # "everything" => \A row \in page.rows : page.chip.facet \notin Missed(row, page.want)
  BY <1>3, <1>7, <1>11, ChipFinds
<1> QED
  BY <1>3, <1>9, <1>12 DEF page

----------------------------------------------------------------------------
\* Nothing makes it forget

(* While nobody touches the table and the thread, the pages stay what they *)
(* are,                                                                     *)
LEMMA ThreadKept ==
  /\ Thread /\ UNCHANGED <<pages, table, edits>> => Thread'
  /\ OnTheWay /\ UNCHANGED <<req, pages, table, edits>> => OnTheWay'
BY DEF Thread, OnTheWay

(* and of a table that has changed, nothing is said. *)
LEMMA OthersForget ==
  ASSUME TypeOK, OnTheWay, Thread, edits' = edits + 1, UNCHANGED <<req, pages>>
  PROVE  OnTheWay' /\ Thread'
<1>1. edits \in Nat
  BY SearchAssumption DEF TypeOK
<1>2. ASSUME NEW x, x.first \in Nat, Asked(x, pages, edits)
      PROVE  Asked(x, pages, edits + 1) /\ \A t : ~Seen(x, t, edits + 1)
  <2>1. x.first <= edits
    BY <1>2 DEF Asked
  <2>2. x.first <= edits + 1 /\ x.first # edits + 1
    BY <1>1, <1>2, <2>1
  <2> QED
    BY <1>2, <2>2 DEF Asked, Seen
<1>3. ASSUME NEW i \in DOMAIN pages PROVE Settled(pages[i], pages, table', edits + 1)
  <2>1. Settled(pages[i], pages, table, edits) /\ pages[i].first \in Nat
    BY PageTypes DEF Thread
  <2>2. Asked(pages[i], pages, edits + 1) /\ \A t : ~Seen(pages[i], t, edits + 1)
    BY <1>2, <2>1 DEF Settled
  <2> QED
    BY <2>1, <2>2 DEF Settled, Outcome
<1>4. ASSUME req.pc # "idle" PROVE UnderWay(req, pages, table', edits + 1)
  <2>1. UnderWay(req, pages, table, edits) /\ req.first \in Nat
    BY <1>4 DEF OnTheWay, TypeOK, Search
  <2>2. Asked(req, pages, edits + 1) /\ \A t : ~Seen(req, t, edits + 1)
    BY <1>2, <2>1 DEF UnderWay
  <2> QED
    BY <2>1, <2>2 DEF UnderWay, Outcome
<1> QED
  BY <1>3, <1>4 DEF Thread, OnTheWay

(* Whatever a sentence means, it asks for offers, for crews or for both. *)
LEMMA SidesAsked ==
  ASSUME NEW intent \in Intent, NEW fc, NEW role \in Roles
  PROVE  FinishParse(intent, fc, role).sides # {}
<1>1. WantsOffers(intent.kind, role) \/ WantsCrews(intent.kind, role)
  BY DEF Intent, Roles, WantsOffers, WantsCrews
<1>2. \/ "offers" \in FinishParse(intent, fc, role).sides
      \/ "crews" \in FinishParse(intent, fc, role).sides
  BY <1>1 DEF FinishParse
<1> QED
  BY <1>2

(* A search begins at the table as it is, with a sentence, or a chip of a  *)
(* page that there is.                                                      *)
LEMMA BeginUnderWay ==
  ASSUME TypeOK, Thread, NEW s \in Sentences, NEW chip, NEW from, Begin(s, chip, from),
         \/ from = 0 /\ chip = NoChip
         \/ from \in DOMAIN pages /\ chip \in pages[from].chips /\ from # 0
  PROVE  OnTheWay' /\ Thread'
<1>1. PICK intent \in Parsed(s), role \in Roles :
        LET parsed == FinishParse(intent, FacetsOf[s], role)
        IN req' = [Idle EXCEPT !.pc = IF "offers" \in parsed.sides THEN "offers" ELSE "crews",
                               !.sentence = s, !.parsed = parsed, !.want = ApplyRefine(parsed, chip),
                               !.chip = chip, !.from = from, !.first = edits]
  BY DEF Begin
<1> DEFINE parsed == FinishParse(intent, FacetsOf[s], role)
<1>2. intent \in Intent /\ FacetsOf[s] \in Facets
  BY SearchAssumption DEF Parsed
<1>3. parsed.sides # {} /\ parsed \in Wanted
  BY <1>2, SidesAsked, FinishParseType
<1> HIDE DEF parsed
<1>4. ApplyRefine(parsed, chip).sides = parsed.sides
  BY <1>3 DEF ApplyRefine, Wanted
<1>5. req' = [Idle EXCEPT !.pc = IF "offers" \in parsed.sides THEN "offers" ELSE "crews",
                          !.sentence = s, !.parsed = parsed, !.want = ApplyRefine(parsed, chip),
                          !.chip = chip, !.from = from, !.first = edits]
  BY <1>1 DEF parsed
<1>6. /\ req'.pc = (IF "offers" \in parsed.sides THEN "offers" ELSE "crews") /\ req'.parsed = parsed
      /\ req'.want = ApplyRefine(parsed, chip) /\ req'.chip = chip /\ req'.from = from /\ req'.first = edits
      /\ req'.rows = {} /\ req'.widen = "none"
  BY <1>5 DEF Idle
<1>7. UNCHANGED <<pages, table, edits>> /\ edits \in Nat
  BY SearchAssumption DEF Begin, TypeOK
<1>8. from # 0 => pages[from].first <= edits
  BY DEF Thread, Settled, Asked
<1>9. Asked(req', pages, edits)
  BY <1>3, <1>4, <1>6, <1>7, <1>8 DEF Asked
<1>10. UnderWay(req', pages, table, edits)
  BY <1>4, <1>6, <1>9 DEF UnderWay, Outcome
<1> QED
  BY <1>7, <1>10, ThreadKept DEF OnTheWay

(* A look at the table that is the last. *)
LEMMA LookedUnderWay ==
  ASSUME TypeOK, OnTheWay, req.pc \in {"offers", "widen"}, NEW rows, NEW widen,
         req' = [req EXCEPT !.rows = rows, !.widen = widen, !.pc = AfterOffers(req.want)],
         rows # {} \/ widen = "everything", UNCHANGED <<pages, table, edits>>,
         Seen(req, table, edits) => Mattered(table, req.want, rows, widen)
  PROVE  OnTheWay'
<1>1. req \in Search /\ UnderWay(req, pages, table, edits)
  BY DEF TypeOK, OnTheWay
<1>2. /\ req'.pc = (IF "crews" \in req.want.sides THEN "crews" ELSE "render") /\ req'.rows = rows
      /\ req'.widen = widen /\ req'.want = req.want /\ req'.parsed = req.parsed /\ req'.chip = req.chip
      /\ req'.from = req.from /\ req'.first = req.first
  BY <1>1 DEF Search, AfterOffers
<1>3. "offers" \in req.want.sides
  BY <1>1 DEF UnderWay
<1>4. Asked(req', pages, edits)
  BY <1>1, <1>2, <1>3 DEF UnderWay, Asked
<1>5. Outcome(req', table, edits)
  BY <1>2 DEF Outcome, Seen
<1>6. UnderWay(req', pages, table, edits)
  BY <1>2, <1>4, <1>5 DEF UnderWay
<1> QED
  BY <1>6 DEF OnTheWay

(* A look that found nothing, so that another follows. *)
LEMMA OnwardUnderWay ==
  ASSUME TypeOK, OnTheWay, req.pc \in {"offers", "widen"}, NEW step,
         req' = [req EXCEPT !.pc = "widen", !.step = step], UNCHANGED <<pages, table, edits>>,
         Seen(req, table, edits) =>
           \A row \in Candidates(table, req.want) :
             /\ Missed(row, req.want) # {}
             /\ \A k \in 1 .. step - 1 : Missed(row, req.want) # {DropOrder[k]}
  PROVE  OnTheWay'
<1>1. req \in Search /\ UnderWay(req, pages, table, edits)
  BY DEF TypeOK, OnTheWay
<1>2. /\ req'.pc = "widen" /\ req'.step = step /\ req'.rows = req.rows
      /\ req'.widen = req.widen /\ req'.want = req.want /\ req'.parsed = req.parsed /\ req'.chip = req.chip
      /\ req'.from = req.from /\ req'.first = req.first
  BY <1>1 DEF Search
<1>3. Asked(req', pages, edits)
  BY <1>1, <1>2 DEF UnderWay, Asked
<1>4. UnderWay(req', pages, table, edits)
  BY <1>1, <1>2, <1>3 DEF UnderWay, Seen
<1> QED
  BY <1>4 DEF OnTheWay

(* The exact filter, and one step of the widening. *)
LEMMA ListUnderWay ==
  ASSUME TypeOK, OnTheWay, Thread, List
  PROVE  OnTheWay' /\ Thread'
<1>1. table \in Seq(Row) /\ req \in Search /\ req.want \in Wanted /\ req.pc = "offers" /\ UNCHANGED <<pages, table, edits>>
  BY DEF TypeOK, Search, List
<1>2. req.widen = "none"
  BY <1>1 DEF OnTheWay, UnderWay
<1>3. Seen(req, table, edits) => Found(table, req.want) = {row \in Candidates(table, req.want) : Missed(row, req.want) = {}}
  BY <1>1, FoundIs DEF Seen
<1>4. CASE Found(table, req.want) # {}
  <2>1. req' = [req EXCEPT !.rows = Found(table, req.want), !.widen = "none", !.pc = AfterOffers(req.want)]
    BY <1>1, <1>2, <1>4 DEF List, Search
  <2>2. Seen(req, table, edits) => Mattered(table, req.want, Found(table, req.want), "none")
    BY <1>3 DEF Mattered
  <2>3. OnTheWay'
    BY <1>1, <1>4, <2>1, <2>2, LookedUnderWay
  <2> QED
    BY <1>1, <2>3, ThreadKept
<1>5. CASE Found(table, req.want) = {}
  <2>1. req' = [req EXCEPT !.pc = "widen", !.step = 1]
    BY <1>5 DEF List
  <2>2. Seen(req, table, edits) =>
           \A row \in Candidates(table, req.want) :
             /\ Missed(row, req.want) # {}
             /\ \A k \in 1 .. 1 - 1 : Missed(row, req.want) # {DropOrder[k]}
    BY <1>3, <1>5
  <2>3. OnTheWay'
    BY <1>1, <2>1, <2>2, OnwardUnderWay
  <2> QED
    BY <1>1, <2>3, ThreadKept
<1> QED
  BY <1>4, <1>5

(* The facets before this one were dropped in vain. *)
LEMMA WidenUnderWay ==
  ASSUME TypeOK, RoomForPage, OnTheWay, Thread, Widen
  PROVE  OnTheWay' /\ Thread'
<1>1. table \in Seq(Row) /\ req \in Search /\ req.want \in Wanted /\ req.pc = "widen" /\ UNCHANGED <<pages, table, edits>>
  BY DEF TypeOK, Search, Widen
<1>2. req.step \in 1 .. 6
  BY <1>1, OrderIs DEF Search, RoomForPage, Widen
<1> DEFINE facet == DropOrder[req.step]
           all == Candidates(table, req.want)
<1>3. facet \in Order /\ facet \in Steps /\ facet \notin {"none", "everything"}
  BY <1>2, OnePlace, OrderIs
<1>4. Seen(req, table, edits) => Found(table, Dropped(req.want, facet)) = {row \in all : Missed(row, req.want) \subseteq {facet}}
  BY <1>1, <1>3, WidenedIs DEF Seen
<1>5. Seen(req, table, edits) =>
        \A row \in all : /\ Missed(row, req.want) # {}
                         /\ \A k \in 1 .. req.step - 1 : Missed(row, req.want) # {DropOrder[k]}
  BY <1>1 DEF OnTheWay, UnderWay
<1>6. CASE Found(table, Dropped(req.want, facet)) # {}
  <2> DEFINE rows == Found(table, Dropped(req.want, facet))
  <2>1. req' = [req EXCEPT !.rows = rows, !.widen = facet, !.pc = AfterOffers(req.want)]
    BY <1>6 DEF Widen
  <2>2. ASSUME Seen(req, table, edits) PROVE Mattered(table, req.want, rows, facet)
    <3>1. rows = {row \in all : Missed(row, req.want) = {facet}} /\ \A row \in all : Missed(row, req.want) # {}
      BY <1>4, <1>5, <2>2
    <3>2. ASSUME NEW row \in all, NEW f \in Steps, Missed(row, req.want) = {f}, Before(f, facet) PROVE FALSE
      BY <1>2, <1>5, <2>2, <3>2, SomeOrder
    <3> HIDE DEF rows, facet
    <3> QED
      BY <1>3, <3>1, <3>2 DEF Mattered
  <2> HIDE DEF facet
  <2>3. OnTheWay'
    BY <1>1, <1>6, <2>1, <2>2, LookedUnderWay
  <2> QED
    BY <1>1, <2>3, ThreadKept
<1>7. CASE Found(table, Dropped(req.want, facet)) = {}
  <2>1. req' = [req EXCEPT !.pc = "widen", !.step = req.step + 1]
    BY <1>1, <1>7 DEF Widen, Search
  <2>2. ASSUME Seen(req, table, edits), NEW row \in all
        PROVE  /\ Missed(row, req.want) # {}
               /\ \A k \in 1 .. (req.step + 1) - 1 : Missed(row, req.want) # {DropOrder[k]}
    <3>1. Missed(row, req.want) # {} /\ Missed(row, req.want) # {facet}
      BY <1>4, <1>5, <1>7, <2>2
    <3>2. \A k \in 1 .. (req.step + 1) - 1 : k = req.step \/ k \in 1 .. req.step - 1
      BY <1>2
    <3> QED
      BY <1>5, <2>2, <3>1, <3>2
  <2>3. OnTheWay'
    BY <1>1, <2>1, <2>2, OnwardUnderWay
  <2> QED
    BY <1>1, <2>3, ThreadKept
<1> QED
  BY <1>6, <1>7

(* When no offer misses one facet only. *)
LEMMA EverythingUnderWay ==
  ASSUME TypeOK, OnTheWay, Thread, WidenToEverything
  PROVE  OnTheWay' /\ Thread'
<1>1. table \in Seq(Row) /\ req \in Search /\ req.want \in Wanted /\ req.pc = "widen" /\ UNCHANGED <<pages, table, edits>>
  BY DEF TypeOK, Search, WidenToEverything
<1>2. req.step = 7
  BY <1>1, OrderIs DEF Search, WidenToEverything
<1>3. req' = [req EXCEPT !.rows = Found(table, Everything(req.want)), !.widen = "everything", !.pc = AfterOffers(req.want)]
  BY DEF WidenToEverything
<1>4. ASSUME Seen(req, table, edits) PROVE Mattered(table, req.want, Found(table, Everything(req.want)), "everything")
  <2>1. Found(table, Everything(req.want)) = Candidates(table, req.want)
    BY <1>1, <1>4, EverythingIs DEF Seen
  <2>2. \A row \in Candidates(table, req.want) :
          Missed(row, req.want) # {} /\ \A k \in 1 .. 6 : Missed(row, req.want) # {DropOrder[k]}
    <3>1. req.step - 1 = 6
      BY <1>2
    <3> QED
      BY <1>1, <1>4, <3>1 DEF OnTheWay, UnderWay
  <2>3. \A row \in Candidates(table, req.want) : Cardinality(Missed(row, req.want)) >= 2
    BY <2>2, OnePlace, AtLeastTwo
  <2> QED
    BY <2>1, <2>3 DEF Mattered
<1>5. OnTheWay'
  BY <1>1, <1>3, <1>4, LookedUnderWay
<1> QED
  BY <1>1, <1>5, ThreadKept

(* RunCrews comes back without a crew only when there is none. *)
LEMMA CrewsWhenThereAre ==
  ASSUME NEW w, {} \in RunCrews(w)
  PROVE  Crews = {}
<1>1. ASSUME NEW trades, NEW regions, NEW docs, NEW size, {} \in ListCrews(trades, regions, docs, size)
      PROVE  /\ \A c \in Crews : ~MatchesCrew(c, trades, regions, docs, size)
             /\ ListCrews(trades, regions, docs, size) = {{}}
  <2>1. Cardinality({}) = 0 /\ Limit # 0
    BY FS_EmptySet, CatalogueAssumption
  <2>2. \A c \in Crews : ~MatchesCrew(c, trades, regions, docs, size)
    BY <1>1, <2>1 DEF ListCrews
  <2>3. {c \in Crews : MatchesCrew(c, trades, regions, docs, size)} = {}
    BY <2>2
  <2>4. \A hits \in ListCrews(trades, regions, docs, size) : hits = {}
    BY <2>3 DEF ListCrews
  <2> QED
    BY <1>1, <2>2, <2>4
<1>2. {} \in ListCrews({}, {}, {}, 0)
  BY <1>1 DEF RunCrews
<1>3. \A c \in Crews : MatchesCrew(c, {}, {}, {}, 0)
  BY CatalogueAssumption DEF MatchesCrew, CrewData
<1> QED
  BY <1>1, <1>2, <1>3

(* The crews come after the offers. *)
LEMMA CrewsUnderWay ==
  ASSUME TypeOK, OnTheWay, Thread, ListTheCrews
  PROVE  OnTheWay' /\ Thread'
<1>1. req \in Search /\ req.pc = "crews" /\ UNCHANGED <<pages, table, edits>>
  BY DEF TypeOK, ListTheCrews
<1>2. PICK crews \in RunCrews(req.want) : req' = [req EXCEPT !.crews = crews, !.pc = "render"]
  BY DEF ListTheCrews
<1>3. /\ req'.pc = "render" /\ req'.crews = crews /\ req'.rows = req.rows
      /\ req'.widen = req.widen /\ req'.want = req.want /\ req'.parsed = req.parsed /\ req'.chip = req.chip
      /\ req'.from = req.from /\ req'.first = req.first
  BY <1>1, <1>2 DEF Search
<1>4. UnderWay(req, pages, table, edits)
  BY <1>1 DEF OnTheWay
<1>5. Asked(req', pages, edits) /\ Outcome(req', table, edits)
  BY <1>1, <1>3, <1>4 DEF UnderWay, Asked, Outcome, Seen
<1>6. crews = {} => Crews = {}
  BY <1>2, CrewsWhenThereAre
<1>7. UnderWay(req', pages, table, edits)
  BY <1>3, <1>5, <1>6 DEF UnderWay
<1> QED
  BY <1>1, <1>7, ThreadKept DEF OnTheWay

(* There is a card when anything was found. *)
LEMMA CardsShown ==
  ASSUME NEW rows, NEW crews, {} \in Choices(Refs(rows, crews), DisplayLimit)
  PROVE  rows = {} /\ crews = {}
<1>1. Cardinality({}) = 0 /\ DisplayLimit # 0
  BY FS_EmptySet, SearchAssumption
<1>2. Refs(rows, crews) = {}
  BY <1>1 DEF Choices
<1> QED
  BY <1>2 DEF Refs

(* A page says what its search found, and moves no other. *)
LEMMA RenderSettles ==
  ASSUME TypeOK, OnTheWay, Thread, Render
  PROVE  OnTheWay' /\ Thread'
<1>1. PICK cards \in Choices(Refs(req.rows, req.crews), DisplayLimit),
           chips \in Choices(ChipsFor(req.rows, req.want), MaxChips) :
        pages' = Append(pages, [sentence |-> req.sentence, parsed |-> req.parsed, want |-> req.want,
                                chip |-> req.chip, from |-> req.from, rows |-> req.rows,
                                widen |-> req.widen, crews |-> req.crews, cards |-> cards,
                                chips |-> chips, first |-> req.first])
  BY DEF Render
<1> DEFINE page == [sentence |-> req.sentence, parsed |-> req.parsed, want |-> req.want,
                    chip |-> req.chip, from |-> req.from, rows |-> req.rows,
                    widen |-> req.widen, crews |-> req.crews, cards |-> cards,
                    chips |-> chips, first |-> req.first]
<1>2. /\ page.parsed = req.parsed /\ page.want = req.want /\ page.chip = req.chip /\ page.from = req.from
      /\ page.rows = req.rows /\ page.widen = req.widen /\ page.crews = req.crews /\ page.cards = cards
      /\ page.chips = chips /\ page.first = req.first
  OBVIOUS
<1>3. pages' = Append(pages, page) /\ UNCHANGED <<table, edits>> /\ req.pc = "render" /\ req'.pc = "idle"
  BY <1>1 DEF Render, Idle
<1> HIDE DEF page
<1>4. UnderWay(req, pages, table, edits) /\ pages \in Seq(Page)
  BY <1>3 DEF OnTheWay, TypeOK
<1>5. Asked(page, pages, edits) /\ Outcome(page, table, edits)
  BY <1>2, <1>3, <1>4 DEF UnderWay, Asked, Outcome, Seen
<1>6. chips \subseteq ChipsFor(req.rows, req.want) /\ (cards = {} => req.rows = {} /\ req.crews = {})
  BY CardsShown DEF Choices
<1>7. Settled(page, pages, table, edits)
  BY <1>2, <1>3, <1>4, <1>5, <1>6 DEF Settled, UnderWay
<1>8. /\ \A i \in DOMAIN pages : i \in DOMAIN pages' /\ pages'[i] = pages[i]
      /\ \A i \in DOMAIN pages' : i \in DOMAIN pages \/ pages'[i] = page
  <2>1. /\ Len(pages') = Len(pages) + 1 /\ Len(pages) \in Nat
        /\ DOMAIN pages = 1 .. Len(pages) /\ DOMAIN pages' = 1 .. Len(pages')
        /\ \A i \in 1 .. Len(pages) : pages'[i] = pages[i]
        /\ pages'[Len(pages) + 1] = page
    BY <1>3, <1>4
  <2> QED
    BY <2>1
<1>9. \A x : Settled(x, pages, table, edits) => Settled(x, pages', table, edits)
  BY <1>8 DEF Settled, Asked
<1>10. \A i \in DOMAIN pages' : Settled(pages'[i], pages', table', edits')
  BY <1>3, <1>7, <1>8, <1>9 DEF Thread
<1> QED
  BY <1>3, <1>10 DEF Thread, OnTheWay

(* There is no thread and no search when the visitor arrives. *)
LEMMA FoundInit == Init => OnTheWay /\ Thread
BY DEF Init, Idle, OnTheWay, Thread

(* Every step, whoever takes it. *)
LEMMA FoundNext == IInv /\ OnTheWay /\ Thread /\ [Next]_vars => OnTheWay' /\ Thread'
<1> SUFFICES ASSUME IInv, OnTheWay, Thread, [Next]_vars PROVE OnTheWay' /\ Thread'
  OBVIOUS
<1>1. TypeOK /\ RoomForPage
  BY DEF IInv
<1>2. CASE Create \/ Advance
  <2>1. edits' = edits + 1 /\ UNCHANGED <<req, pages>>
    BY <1>2 DEF Create, Advance, Edited
  <2> QED
    BY <1>1, <2>1, OthersForget
<1>3. CASE Ask
  BY <1>1, <1>3, BeginUnderWay DEF Ask
<1>4. CASE Click
  <2>1. PICK i \in DOMAIN pages : \E chip \in pages[i].chips : Begin(pages[i].sentence, chip, i)
    BY <1>4 DEF Click
  <2>2. pages[i].sentence \in Sentences /\ i # 0
    BY <1>1, PageTypes DEF Page, TypeOK
  <2> QED
    BY <1>1, <2>1, <2>2, BeginUnderWay
<1>5. CASE List
  BY <1>1, <1>5, ListUnderWay
<1>6. CASE Widen
  BY <1>1, <1>6, WidenUnderWay
<1>7. CASE WidenToEverything
  BY <1>1, <1>7, EverythingUnderWay
<1>8. CASE ListTheCrews
  BY <1>1, <1>8, CrewsUnderWay
<1>9. CASE Fail
  BY <1>9, ThreadKept DEF Fail, Idle, OnTheWay
<1>10. CASE Render
  BY <1>1, <1>10, RenderSettles
<1>11. CASE UNCHANGED vars
  BY <1>11, ThreadKept DEF vars
<1> QED
  BY <1>2, <1>3, <1>4, <1>5, <1>6, <1>7, <1>8, <1>9, <1>10, <1>11 DEF Next

(* It holds of every behaviour. *)
LEMMA FoundHolds == Spec => [](TypeOK /\ Thread)
<1>1. IInv => TypeOK
  BY DEF IInv
<1> QED
  BY <1>1, IInvInit, IInvNext, FoundInit, FoundNext, PTL DEF Spec

(* widenSearch: over a table that does not change while the visitor        *)
(* searches, and that one call of the store lists whole, the facet that a  *)
(* notice names is the first without which there is an offer; and without  *)
(* a notice, everything is shown that meets what was asked.                 *)
THEOREM NoticesNameWhatMattered == Spec => []NamesWhatMattered
BY FoundHolds, ThreadMattered, PTL

(* Search and RunCrews: a page without a card has a reason: every offer is *)
(* excluded by the sentence, or there is no crew.                           *)
THEOREM NoSearchIsADeadEnd == Spec => []NoDeadEnd
BY FoundHolds, ThreadNoDeadEnd, PTL

(* applyRefine and the chips: one click further there is an offer, with    *)
(* the facet that was clicked, for any catalogue and any order of offers.  *)
THEOREM EveryChipLeadsSomewhere == Spec => []ChipsLeadSomewhere
BY FoundHolds, ThreadChips, PTL
=============================================================================

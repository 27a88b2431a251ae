------------------------------ MODULE Catalogue ------------------------------
(***************************************************************************)
(* What a search asks of the tables (internal/search and internal/store):  *)
(* the facet predicates both stores filter by, the filter the store cannot *)
(* express, the facets the widening drops, and the chips a result offers.  *)
(* Lists of facets are sets: they are an OR within a field and an AND      *)
(* across fields.  Case and blanks are folded.                              *)
(***************************************************************************)
EXTENDS Naturals, Sequences, FiniteSets

CONSTANTS
  Offers,     \* ids of offers
  About,      \* what an offer says of itself: trade, region, docs, budget, start
  Crews,      \* ids of crews
  AboutCrew,  \* what a crew says of itself: trades, regions, docs, size
  Trades, Docs, Statuses, Days,
  Regions,    \* region, or else location, as an offer spells it; if it has both, they agree
  Nowhere,    \* the region of an offer that gives neither
  Words,      \* places as people and the model spell them
  Inside,     \* the regions that contain a word
  Meets,      \* the regions that contain a word or are contained in it
  Normal,     \* normalizeRegion
  Limit,      \* rows a call of the store returns at most, 50
  Any         \* more than any budget: no upper bound

Unknown == 0   \* a budget that does not parse, a start date that is not set

OfferData == [trade : Trades, region : Regions, docs : SUBSET Docs,
              budget : 0 .. Any, start : {Unknown} \cup Days]
CrewData  == [trades : SUBSET Trades, regions : SUBSET Regions, docs : SUBSET Docs, size : Nat]

ASSUME CatalogueAssumption ==
  /\ About \in [Offers -> OfferData] /\ AboutCrew \in [Crews -> CrewData]
  /\ Offers \cap Crews = {} /\ Unknown \notin Days
  /\ Nowhere \in Regions /\ Regions \subseteq Words
  /\ Inside \in [Words -> SUBSET Regions] /\ Meets \in [Words -> SUBSET Regions]
  /\ Normal \in [Words -> Words]
  /\ \A w \in Words : Inside[w] \subseteq Meets[w] /\ Nowhere \in Meets[w]
  /\ \A r \in Regions : r \in Inside[r]
  /\ Limit \in Nat \ {0} /\ Any \in Nat

(* What one search asks for: the intent and the facets of the sentence. *)
Wanted == [sides : SUBSET {"offers", "crews"}, trades : SUBSET Trades, regions : SUBSET Words,
           statuses : SUBSET Statuses, docs : SUBSET Docs, size : Nat,
           window : SUBSET Days, min : 0 .. Any, max : 0 .. Any,
           exTrades : SUBSET Trades, exRegions : SUBSET Words]

(* A row of offers, with what changes after it was created. *)
Row == [id : Offers, status : Statuses]

----------------------------------------------------------------------------
\* Filtering

MatchesFacets(row, w) ==
  /\ w.statuses = {} \/ row.status \in w.statuses
  /\ w.trades = {} \/ About[row.id].trade \in w.trades
  /\ w.regions = {} \/ \E word \in w.regions : About[row.id].region \in Meets[word]
  /\ w.docs \subseteq About[row.id].docs

(* ListOffers; the newest row comes first in the table. *)
ListOffers(table, w) ==
  LET hits == {i \in DOMAIN table : MatchesFacets(table[i], w)}
  IN {table[i] : i \in {i \in hits : Cardinality({j \in hits : j < i}) < Limit}}

(* Whether the sentence rules an offer out. *)
Excluded(id, w) ==
  \/ About[id].trade \in w.exTrades
  \/ \E word \in w.exRegions : About[id].region \in Inside[word]

(* Budget and window count only when the offer's own are known. *)
InBudget(id, w) == About[id].budget = Unknown \/ About[id].budget \in w.min .. w.max
InWindow(id, w) == w.window = {} \/ About[id].start \in w.window \cup {Unknown}

ApplyPostFilter(rows, w) ==
  {row \in rows : ~Excluded(row.id, w) /\ InBudget(row.id, w) /\ InWindow(row.id, w)}

Found(table, w) == ApplyPostFilter(ListOffers(table, w), w)

----------------------------------------------------------------------------
\* Widening

DropOrder == <<"timeframe", "budget", "documents", "status", "region", "trade">>

(* The mutant of Dropped that drops what comes before, too. *)
DroppedSoFar(w, facet) ==
  LET Upto(f) == \E i, j \in DOMAIN DropOrder : DropOrder[i] = f /\ DropOrder[j] = facet /\ i <= j
  IN [w EXCEPT !.window   = IF Upto("timeframe") THEN {} ELSE w.window,
               !.min      = IF Upto("budget") THEN 0 ELSE w.min,
               !.max      = IF Upto("budget") THEN Any ELSE w.max,
               !.docs     = IF Upto("documents") THEN {} ELSE w.docs,
               !.statuses = IF Upto("status") THEN {} ELSE w.statuses,
               !.regions  = IF Upto("region") THEN {} ELSE w.regions,
               !.trades   = IF Upto("trade") THEN {} ELSE w.trades]

Dropped(w, facet) ==
  [w EXCEPT !.window   = IF facet = "timeframe" THEN {} ELSE w.window,
            !.min      = IF facet = "budget" THEN 0 ELSE w.min,
            !.max      = IF facet = "budget" THEN Any ELSE w.max,
            !.docs     = IF facet = "documents" THEN {} ELSE w.docs,
            !.statuses = IF facet = "status" THEN {} ELSE w.statuses,
            !.regions  = IF facet = "region" THEN {} ELSE w.regions,
            !.trades   = IF facet = "trade" THEN {} ELSE w.trades]

(* The mutant of Everything that forgets the exclusions. *)
EverythingAtAll(w) ==
  [w EXCEPT !.window = {}, !.min = 0, !.max = Any, !.docs = {}, !.statuses = {},
            !.regions = {}, !.trades = {}, !.exTrades = {}, !.exRegions = {}]

(* The last resort: everything but what was excluded. *)
Everything(w) ==
  [w EXCEPT !.window = {}, !.min = 0, !.max = Any, !.docs = {}, !.statuses = {},
            !.regions = {}, !.trades = {}]

----------------------------------------------------------------------------
\* Crews

MatchesCrew(c, trades, regions, docs, size) ==
  /\ trades = {} \/ AboutCrew[c].trades \cap trades # {}
  /\ regions = {} \/ \E word \in regions : AboutCrew[c].regions \cap Meets[word] # {}
  /\ docs \subseteq AboutCrew[c].docs
  /\ size <= AboutCrew[c].size

ListCrews(trades, regions, docs, size) ==
  {hits \in SUBSET {c \in Crews : MatchesCrew(c, trades, regions, docs, size)} :
     \/ Cardinality(hits) = Limit
     \/ Cardinality(hits) < Limit /\ \A c \in Crews : MatchesCrew(c, trades, regions, docs, size) => c \in hits}

(* The mutant of RunCrews that never offers a crew of another trade. *)
RunCrewsOfTrade(w) ==
  LET exact == ListCrews(w.trades, w.regions, w.docs, w.size)
  IN IF exact # {{}} THEN exact ELSE ListCrews(w.trades, {}, {}, 0)

(* RunCrews: everything that was asked for, or the trades, or any crew.    *)
(* Nothing writes crews while the process serves.  Which of them come      *)
(* first, by rating, is left open.                                          *)
RunCrews(w) ==
  LET exact == ListCrews(w.trades, w.regions, w.docs, w.size)
      sameTrade == ListCrews(w.trades, {}, {}, 0)
  IN IF exact # {{}} THEN exact
     ELSE IF sameTrade # {{}} THEN sameTrade
     ELSE ListCrews({}, {}, {}, 0)

----------------------------------------------------------------------------
\* Understanding

Intent == [kind : {"find_offers", "find_crews", "other"}, trades : SUBSET Trades, regions : SUBSET Words,
           statuses : SUBSET Statuses, docs : SUBSET Docs, size : Nat]

Facets == [window : SUBSET Days, min : 0 .. Any, max : 0 .. Any,
           exTrades : SUBSET Trades, exRegions : SUBSET Words]

Roles == {"owner", "executor", "unknown"}

WantsOffers(kind, role) == kind = "find_offers" \/ (kind = "other" /\ role \in {"unknown", "executor"})
WantsCrews(kind, role)  == kind = "find_crews" \/ (kind = "other" /\ role \in {"unknown", "owner"})

(* finishParse, and which sides runSides will search. *)
FinishParse(intent, fc, role) ==
  [sides |-> {side \in {"offers", "crews"} : IF side = "offers" THEN WantsOffers(intent.kind, role)
                                                                ELSE WantsCrews(intent.kind, role)},
   trades |-> intent.trades \ fc.exTrades,
   regions |-> {Normal[word] : word \in intent.regions \ fc.exRegions},
   statuses |-> intent.statuses, docs |-> intent.docs, size |-> intent.size,
   window |-> fc.window, min |-> fc.min, max |-> fc.max,
   exTrades |-> fc.exTrades, exRegions |-> fc.exRegions]

----------------------------------------------------------------------------
\* Chips

Chip == [facet : {"trade"}, value : Trades] \cup [facet : {"region"}, value : Regions]
          \cup [facet : {"status"}, value : Statuses]
NoChip == [facet |-> "none", value |-> Nowhere]

(* tradeChips, regionChips and statusChips, from every match. *)
ChipsFor(rows, w) ==
  {[facet |-> "trade", value |-> t] : t \in {About[row.id].trade : row \in rows} \ w.trades}
    \cup
  {[facet |-> "region", value |-> r] :
     r \in {r \in {About[row.id].region : row \in rows} \ {Nowhere} :
              \A word \in w.regions : r \notin Inside[word]}}
    \cup
  {[facet |-> "status", value |-> s] : s \in {row.status : row \in rows} \ w.statuses}

(* The mutant of ApplyRefine that loses the value and drops the facet. *)
RefineByDropping(w, chip) ==
  [w EXCEPT !.trades   = IF chip.facet = "trade" THEN {} ELSE w.trades,
            !.regions  = IF chip.facet = "region" THEN {} ELSE w.regions,
            !.statuses = IF chip.facet = "status" THEN {} ELSE w.statuses]

(* applyRefine: the facet is replaced.  No page sends "drop". *)
ApplyRefine(w, chip) ==
  [w EXCEPT !.trades   = IF chip.facet = "trade" THEN {chip.value} ELSE w.trades,
            !.regions  = IF chip.facet = "region" THEN {chip.value} ELSE w.regions,
            !.statuses = IF chip.facet = "status" THEN {chip.value} ELSE w.statuses]
=============================================================================

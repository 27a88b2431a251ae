------------------------------ MODULE MCSearch ------------------------------
EXTENDS Search

Offer(trade, region, docs, budget, start) ==
  [trade |-> trade, region |-> region, docs |-> docs, budget |-> budget, start |-> start]

MCOffers == {"o1", "o2", "o3"}
MCAbout == [id \in MCOffers |->
  CASE id = "o1" -> Offer("steel", "Wien, AT", {"a1"}, 2, 1)
    [] id = "o2" -> Offer("energy", "Berlin, DE", {}, 1, Unknown)
    [] id = "o3" -> Offer("steel", "nowhere", {}, Unknown, 2)]
MCCrews == {"c1"}
MCAboutCrew == [c \in MCCrews |-> [trades |-> {"steel"}, regions |-> {"Wien, AT"}, docs |-> {}, size |-> 2]]
MCTrades == {"steel", "energy"}
MCDocs == {"a1"}
MCStatuses == {"open", "done"}
MCDays == {1, 2}
MCRegions == {"Wien, AT", "Berlin, DE", "nowhere"}

(* People type Wien, Vienna and Berlin; a chip sends the offer's spelling. *)
MCWords == MCRegions \cup {"Wien", "Vienna", "Berlin"}
MCInside == [w \in MCWords |-> CASE w = "Wien" -> {"Wien, AT"} [] w = "Berlin" -> {"Berlin, DE"}
                                 [] w = "Vienna" -> {} [] OTHER -> {w}]
MCMeets  == [w \in MCWords |-> MCInside[w] \cup {"nowhere"}]
MCNormal == [w \in MCWords |-> IF w = "Vienna" THEN "Wien" ELSE w]
MCAny == 3

Plain == [window |-> {}, min |-> 0, max |-> MCAny, exTrades |-> {}, exRegions |-> {}]
Blank == [kind |-> "other", trades |-> {}, regions |-> {}, statuses |-> {}, docs |-> {}, size |-> 0]

MCSentences == {"narrow", "not Berlin", "not steel", "crew"}
MCFacetsOf == [s \in MCSentences |->
  CASE s = "narrow" -> [Plain EXCEPT !.window = {2}, !.max = 1]
    [] s = "not Berlin" -> [Plain EXCEPT !.exRegions = {"Berlin"}, !.window = {2}]
    [] s = "not steel" -> [Plain EXCEPT !.exTrades = {"steel"}, !.min = 2]
    [] s = "crew" -> Plain]
MCSpotted == [s \in MCSentences |->
  CASE s = "narrow" -> [Blank EXCEPT !.trades = {"energy"}, !.docs = {"a1"}]
    [] s = "not Berlin" -> [Blank EXCEPT !.regions = {"Berlin"}, !.statuses = {"done"}]
    [] s = "not steel" -> [Blank EXCEPT !.trades = {"steel"}, !.kind = "find_offers"]
    [] s = "crew" -> [Blank EXCEPT !.size = 3, !.regions = {"Berlin"}, !.kind = "find_crews"]]
MCHeard == [s \in MCSentences |->
  CASE s = "narrow" -> {[Blank EXCEPT !.trades = {"energy"}, !.regions = {"Vienna"}, !.kind = "find_offers"]}
    [] s = "not Berlin" -> {[Blank EXCEPT !.regions = {"Vienna"}, !.trades = {"steel"}]}
    [] s = "not steel" -> {[Blank EXCEPT !.trades = {"steel", "energy"}, !.statuses = {"open"}, !.docs = {"a1"}]}
    [] s = "crew" -> {Blank}]

Listed(id, st) == [id |-> id, status |-> st]
MCMade == {<<>>, <<Listed("o1", "open"), Listed("o2", "done")>>,
           <<Listed("o3", "done"), Listed("o1", "open")>>, <<Listed("o2", "open"), Listed("o3", "open"), Listed("o1", "done")>>}
=============================================================================

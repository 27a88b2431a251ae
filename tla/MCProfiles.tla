----------------------------- MODULE MCProfiles -----------------------------
(* Instances of Profiles for TLC. *)
EXTENDS Profiles, TLC

CONSTANTS t1, t2, t3, b1, b2, owner, executor, munich, vienna

(* A browser with two tabs, or with a page that sends an edit while its     *)
(* prompt is being answered, and one with a single tab.                     *)
MCBrowserOf == [t \in Tabs |-> IF t = t3 THEN b2 ELSE b1]

MCFieldOf == [f \in Facts |-> IF f \in {owner, executor} THEN "role" ELSE "regions"]

(* The two tabs of a browser are alike, and so are the two regions, which   *)
(* no persona has.                                                          *)
MCSymmetry == {p @@ q : p \in Permutations({t1, t2}), q \in Permutations({munich, vienna})}

(* What a request knew no longer matters once it only has to be answered.   *)
MCKnowing == [t \in Tabs |-> IF pc[t] = "answer" THEN <<None, {}, {}, {}, {}>>
                             ELSE <<who[t], base[t], says[t], takes[t], late[t]>>]
MCView == <<store, tables, client, pc, sent, set, MCKnowing, bounds>>
============================================================================

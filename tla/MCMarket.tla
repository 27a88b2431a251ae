------------------------------ MODULE MCMarket ------------------------------
EXTENDS Market, TLC

CONSTANTS r1, r2, q1, q2, q3, crew, perspective

TwoRequests == {r1, r2}
ThreeQueries == {q1, q2, q3}
Symmetry == Permutations(TwoRequests)

(* Id 2 is the seed's, id 1 the demo's; created offers may want any. *)
MCSeedIds == <<2>>
MCDemoIds == <<1>>
MCCrewIds == <<crew>>
MCStatic == <<perspective>>
MCOldQueries == <<q1, q2>>
MCStatuses == {"open", "process", "done"}
=============================================================================

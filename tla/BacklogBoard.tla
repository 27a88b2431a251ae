---------------------------- MODULE BacklogBoard ---------------------------
(***************************************************************************)
(* What the backlog promises the people who decide it, with no word of how *)
(* a regeneration computes it: a board of items that is now and then       *)
(* published anew and on which people decide single items.  Comments of    *)
(* internal/devloop/cluster.go state the promise: decisions survive a      *)
(* regeneration, matched by theme, and only a person makes one.            *)
(***************************************************************************)
EXTENDS Naturals

CONSTANTS Themes, Statuses

VARIABLES
  board,   \* the items: [id, theme, status]
  nextId   \* ids from here on have never been on the board

boardVars == <<board, nextId>>

Init == board = {} /\ nextId = 1

(* A new board: every item has an id never used before and a theme of its   *)
(* own; a theme that was on the board keeps its status, a theme that was    *)
(* not starts as a proposal.                                                *)
Publish ==
  /\ nextId' \in Nat /\ nextId' >= nextId
  /\ \A b \in board' :
       /\ b.theme \in Themes /\ nextId <= b.id /\ b.id < nextId'
       /\ \A a \in board : a.theme = b.theme => b.status = a.status
       /\ (\A a \in board : a.theme # b.theme) => b.status = "proposed"
  /\ \A a, b \in board' : a.id = b.id \/ a.theme = b.theme => a = b

(* A person decides the one item with this id, whatever its status was. *)
Decide(id, status) ==
  /\ \E b \in board : b.id = id
  /\ board' = {IF b.id = id THEN [b EXCEPT !.status = status] ELSE b : b \in board}
  /\ UNCHANGED nextId

Next ==
  \/ Publish
  \/ \E b \in board, status \in Statuses : Decide(b.id, status)

Spec == Init /\ [][Next]_boardVars
============================================================================

--------------------------- MODULE MCConversation ---------------------------
(* Instances of Conversation for TLC. *)
EXTENDS Conversation, TLC

(* No definition tells one complaint, or one tab, from another. *)
MCSymmetry == Permutations(Complaints) \cup Permutations(Tabs)
============================================================================

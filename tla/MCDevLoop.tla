----------------------------- MODULE MCDevLoop -----------------------------
(* Instances of DevLoop for TLC. *)
EXTENDS DevLoop

(* One piece of feedback with a theme of its own, one filed by its kind. *)
MCLabels == {[theme |-> "upload", kind |-> "bug"], [theme |-> "", kind |-> "praise"]}
============================================================================

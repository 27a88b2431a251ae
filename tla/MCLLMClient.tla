---------------------------- MODULE MCLLMClient ----------------------------
(* The client with the values of deepseek.go and the calls of the program. *)
EXTENDS LLMClient

(* Chat answers; streamed answers, narration and acknowledgements; mining, *)
(* profile extraction and clustering; /readyz.                              *)
MCCalls ==
  {[kind |-> "chat", tokens |-> 1024, deadline |-> FALSE]}
    \cup [kind : {"stream"}, tokens : {256, 512, 1024}, deadline : {FALSE}]
    \cup [kind : {"json"}, tokens : {768, 1024, 1536}, deadline : {TRUE}]
    \cup {[kind |-> "health", tokens |-> 512, deadline |-> TRUE]}
=============================================================================

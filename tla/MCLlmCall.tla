------------------------------ MODULE MCLlmCall -----------------------------
(* Model-checking definitions for LlmCall. *)
EXTENDS LlmCall

(* A build with settings of its own, a proxy included. *)
MCBuild == [provider |-> "anthropic", api_key |-> "built-in", host |-> "office", port |-> 80]
=============================================================================

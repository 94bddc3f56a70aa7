----------------------------- MODULE LlmFormats -----------------------------
(***************************************************************************)
(* The two wire formats of a conversation (llm/llm_proxy.c).  The agent    *)
(* keeps its conversation in the Anthropic format, in which a message      *)
(* holds text, tool calls and tool results; for OpenAI each request is     *)
(* converted, with a message of its own for each tool result.  Text is     *)
(* left out but for whether there is any; a tool call is its id.           *)
(***************************************************************************)
EXTENDS Naturals, Sequences, SequencesExt

(* Anthropic messages: calls and results are sequences of ids.             *)
UserText         == [role |-> "user", text |-> TRUE, calls |-> <<>>, results |-> <<>>]
Assistant(t, cs) == [role |-> "assistant", text |-> t, calls |-> cs, results |-> <<>>]
Results(cs)      == [role |-> "user", text |-> FALSE, calls |-> <<>>, results |-> cs]

(* OpenAI messages. *)
System        == [role |-> "system", calls |-> <<>>]
Plain(role)   == [role |-> role, calls |-> <<>>]
WithCalls(cs) == [role |-> "assistant", calls |-> cs]
ToolMsg(id)   == [role |-> "tool", calls |-> <<id>>]

(* Fault: the calls of an assistant message that has text are dropped.     *)
ConvertTextOnly(m) ==
    IF m.role = "assistant"
    THEN <<IF m.text THEN Plain("assistant") ELSE WithCalls(m.calls)>>
    ELSE [i \in 1..Len(m.results) |-> ToolMsg(m.results[i])]
         \o (IF m.text THEN <<Plain("user")>> ELSE <<>>)

(* convert_messages_openai, one message: an assistant message stays one    *)
(* message; a user message becomes its tool results, then its text.        *)
Convert(m) ==
    IF m.role = "assistant"
    THEN <<WithCalls(m.calls)>>
    ELSE [i \in 1..Len(m.results) |-> ToolMsg(m.results[i])]
         \o (IF m.text THEN <<Plain("user")>> ELSE <<>>)

ConvertMessages(messages) ==
    <<System>> \o FlattenSeq([i \in 1..Len(messages) |-> Convert(messages[i])])

----------------------------------------------------------------------------
(* What each format demands of a request: every tool call is answered,     *)
(* once and in order, before anything else is said, and nothing else is.   *)

AnthropicPaired(ms) ==
    /\ \A i \in 1..Len(ms) : ms[i].calls # <<>> =>
           i < Len(ms) /\ ms[i + 1].results = ms[i].calls
    /\ \A i \in 1..Len(ms) : ms[i].results # <<>> =>
           i > 1 /\ ms[i - 1].calls = ms[i].results

OpenAiPaired(ms) ==
    LET Calls(i) == IF ms[i].role = "assistant" THEN ms[i].calls ELSE <<>>
    IN /\ \A i \in 1..Len(ms) : \A n \in 1..Len(Calls(i)) :
              i + n <= Len(ms) /\ ms[i + n] = ToolMsg(Calls(i)[n])
       /\ \A i \in 1..Len(ms) : ms[i].role = "tool" =>
              \E j \in 1..(i - 1) : i - j <= Len(Calls(j)) /\ ms[i] = ToolMsg(Calls(j)[i - j])
=============================================================================

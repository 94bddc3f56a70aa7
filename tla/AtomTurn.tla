------------------------------ MODULE AtomTurn ------------------------------
(***************************************************************************)
(* One turn of atom_agent_task (atom_main.c), from a popped message to the *)
(* answer: read the user's history, ask the model, run the tools it asks   *)
(* for, ask again, store the question and the answer, and ask the model    *)
(* for a summary when one is due.  The CLI task may clear a session        *)
(* between any two steps.  AtomServer has this turn as its steps           *)
(* AgentThink and AgentSummarise.                                          *)
(***************************************************************************)
EXTENDS AtomSession

CONSTANTS Apology,      \* "Sorry, I couldn't process your request."
          RecentMsgs,   \* history read when there is no cloud summary: 4
          MaxIter,      \* ATOM_AGENT_MAX_TOOL_ITER: 5
          MaxCalls      \* ATOM_MAX_TOOL_CALLS: 4

ASSUME TurnAssumption == /\ MaxIter \in Nat \ {0} /\ RecentMsgs \in Nat \ {0}
                         /\ MaxCalls \in Nat /\ Apology \in Texts /\ Blank \notin Texts

VARIABLES pc,         \* where the agent is in its turn
          user,       \* msg.chat_id
          question,   \* msg.content
          cf_ok,      \* cloud history is in use for this turn
          messages,   \* the conversation sent to the model
          iteration,
          calls,      \* resp.call_count of a tool_use response
          response    \* response_text

turnVars == <<pc, user, question, cf_ok, messages, iteration, calls, response>>
vars == <<sessions, turnVars>>

Said(role, text) == [role |-> role, of |-> user, text |-> text]

(* The two messages of a tool round, with n calls and their n results.     *)
ToolUse(n)    == [role |-> "assistant", of |-> user, tool_use |-> 1..n]
ToolResult(n) == [role |-> "user", of |-> user, tool_result |-> 1..n]

Init == /\ SessionInit
        /\ pc = "idle" /\ user = Blank /\ question = Blank /\ cf_ok = FALSE
        /\ messages = <<>> /\ iteration = 0 /\ calls = 0 /\ response = Blank

----------------------------------------------------------------------------
(* Steps 1 to 3.  Cloud history is for Discord, and only when configured.  *)
Begin(u, q, cf) ==
    /\ pc = "idle"
    /\ pc' = "read" /\ user' = u /\ question' = q /\ cf_ok' = cf
    /\ UNCHANGED <<sessions, messages, iteration, calls, response>>

(* Without a cloud summary only the newest exchanges are read.             *)
Limit == IF cf_ok THEN 0 ELSE RecentMsgs

(* Steps 4 and 5.  The history comes as JSON in a buffer; when it does not *)
(* fit it is cut, does not parse, and counts as empty.                     *)
ReadHistory ==
    /\ pc = "read"
    /\ \E history \in {HistoryOf(user, Limit), <<>>} :
           messages' = Append(history, Said("user", question))
    /\ pc' = "ask" /\ iteration' = 0
    /\ UNCHANGED <<sessions, user, question, cf_ok, calls, response>>

(* The end of the loop: the conversation is deleted, and the user gets the *)
(* model's text or, when there is none, an apology.                        *)
EndLoop(text) ==
    /\ response' = text /\ messages' = <<>> /\ iteration' = 0
    /\ pc' = "save user"
    /\ UNCHANGED <<sessions, user, question, cf_ok>>

(* Step 6: one call of the model.  It may say something, ask for tools     *)
(* (its first MaxCalls count, and it may name none) or fail.               *)
ModelAnswers ==
    /\ pc = "ask" /\ iteration < MaxIter
    /\ \E text \in Texts : EndLoop(text)
    /\ UNCHANGED calls

ModelAsksForTools ==
    /\ pc = "ask" /\ iteration < MaxIter
    /\ calls' \in 0..MaxCalls
    /\ pc' = "tools"
    /\ UNCHANGED <<sessions, user, question, cf_ok, messages, iteration, response>>

(* Fault: a tool that fails leaves no result. *)
RunToolsSkippingOne ==
    /\ pc = "tools"
    /\ \E n \in 0..calls : messages' = messages \o <<ToolUse(calls), ToolResult(n)>>
    /\ iteration' = iteration + 1 /\ calls' = 0 /\ pc' = "ask"
    /\ UNCHANGED <<sessions, user, question, cf_ok, response>>

(* Fault: a round without calls does not count. *)
RunToolsUncounted ==
    /\ pc = "tools"
    /\ IF calls = 0 THEN UNCHANGED <<messages, iteration>>
       ELSE /\ messages' = messages \o <<ToolUse(calls), ToolResult(calls)>>
            /\ iteration' = iteration + 1
    /\ calls' = 0 /\ pc' = "ask"
    /\ UNCHANGED <<sessions, user, question, cf_ok, response>>

(* Every call is executed; a tool that fails has its error as the result.  *)
RunTools ==
    /\ pc = "tools"
    /\ messages' = messages \o <<ToolUse(calls), ToolResult(calls)>>
    /\ iteration' = iteration + 1 /\ calls' = 0 /\ pc' = "ask"
    /\ UNCHANGED <<sessions, user, question, cf_ok, response>>

GiveUp ==
    /\ pc = "ask" /\ iteration >= MaxIter
    /\ EndLoop(Apology)
    /\ UNCHANGED calls

(* Step 8, in two critical sections; nobody looks at their results.        *)
Save(m) == SessionAppend(user, m) \/ SessionAppendFails(user)

SaveQuestion ==
    /\ pc = "save user"
    /\ Save(Said("user", question))
    /\ pc' = "save assistant"
    /\ UNCHANGED <<user, question, cf_ok, messages, iteration, calls, response>>

(* The turn's locals go out of scope when the loop comes round.            *)
TurnEnds ==
    /\ pc' = "idle" /\ user' = Blank /\ question' = Blank /\ cf_ok' = FALSE /\ response' = Blank
    /\ messages' = <<>>

(* In cloud mode a summary may be due after the answer.                    *)
SaveAnswer ==
    /\ pc = "save assistant"
    /\ Save(Said("assistant", response))
    /\ \/ TurnEnds
       \/ cf_ok /\ pc' = "due" /\ UNCHANGED <<user, question, cf_ok, response, messages>>
    /\ UNCHANGED <<iteration, calls>>

(* Step 11.  The whole ring is read again, into a buffer of its own, and   *)
(* sent as it is; without that buffer there is no summary.                 *)
ReadForSummary ==
    /\ pc = "due"
    /\ \/ /\ messages' \in {HistoryOf(user, 0), <<>>}
          /\ pc' = "summarise"
          /\ UNCHANGED <<user, question, cf_ok, response>>
       \/ TurnEnds
    /\ UNCHANGED <<sessions, iteration, calls>>

(* The model's second call, without tools, whatever comes of it.           *)
Summarise ==
    /\ pc = "summarise"
    /\ TurnEnds
    /\ UNCHANGED <<sessions, iteration, calls>>

(* session_clear on the serial console. *)
CliClear(u) == SessionClear(u) /\ UNCHANGED turnVars

----------------------------------------------------------------------------
Calls == ModelAnswers \/ ModelAsksForTools \/ RunTools \/ Summarise
Rest  == ReadHistory \/ GiveUp \/ SaveQuestion \/ SaveAnswer \/ ReadForSummary

Next == \/ \E u \in Users, q \in Texts \ {Apology}, cf \in BOOLEAN : Begin(u, q, cf)
        \/ Calls \/ Rest
        \/ \E u \in Users : CliClear(u)

Spec == Init /\ [][Next]_vars

(* The agent is the only task of its core.  The model and the web tools    *)
(* are another matter: through a proxy that takes no data, a request is    *)
(* written for ever (proxy_conn_write).  Nobody has to post or to clear.   *)
FairSpec == Spec /\ WF_vars(Rest)

----------------------------------------------------------------------------
(* Properties *)

ToolMessages == [role : {"assistant"}, of : Users, tool_use : {1..n : n \in 0..MaxCalls}]
                \cup [role : {"user"}, of : Users, tool_result : {1..n : n \in 0..MaxCalls}]

(* Every variable has its type; a turn's locals are set while it lasts.    *)
TypeOK ==
    /\ SessionTypeOK
    /\ pc \in {"idle", "read", "ask", "tools", "save user", "save assistant", "due", "summarise"}
    /\ user \in Users \cup {Blank} /\ question \in Texts \cup {Blank}
    /\ (pc = "idle") <=> (user = Blank)
    /\ cf_ok \in BOOLEAN
    /\ messages \in Seq(Messages \cup ToolMessages)
    /\ iteration \in 0..MaxIter /\ calls \in 0..MaxCalls
    /\ response \in Texts \cup {Blank}

Alternates(s) == \A i \in 1..(Len(s) - 1) : s[i].role # s[i + 1].role

(* What the model is sent is a proper conversation, whatever was stored,   *)
(* cut off, cleared or refused before: the roles alternate.  In the turn   *)
(* itself the user has the last word, and each round of tool calls is      *)
(* followed at once by the results of exactly these calls.  For a summary  *)
(* it ends with the answer just given, unless it is empty.                 *)
ConversationWellFormed ==
    /\ pc \in {"ask", "summarise"} => Alternates(messages)
    /\ pc = "ask" =>
          /\ messages[Len(messages)].role = "user"
          /\ \A i \in 1..Len(messages) :
                "tool_use" \in DOMAIN messages[i] =>
                    /\ "tool_result" \in DOMAIN messages[i + 1]
                    /\ messages[i + 1].tool_result = messages[i].tool_use
    /\ pc = "summarise" => messages = <<>> \/ messages[Len(messages)] = Said("assistant", response)

(* Nothing said in one user's conversation reaches the model in another's, *)
(* although slots change hands when a session is cleared.                  *)
NoOtherUsersWords == \A i \in 1..Len(messages) : messages[i].of = user

(* Every turn comes to its end, however often the model asks for tools,    *)
(* unless one call of the model or of a tool never returns.                *)
EveryTurnEnds == \/ (pc = "read") ~> (pc = "idle")
                 \/ <>[](pc = "ask") \/ <>[](pc = "tools") \/ <>[](pc = "summarise")
=============================================================================

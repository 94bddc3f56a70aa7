----------------------------- MODULE MimiServer -----------------------------
(***************************************************************************)
(* The path of a Telegram message through the MimiClaw firmware: the       *)
(* polling task and the sender (telegram/telegram_bot.c), the message bus, *)
(* the agent task (agent/agent_loop.c) and the dispatcher (mimi.c).  The   *)
(* device may restart at any time; all it keeps is in RAM, while Telegram  *)
(* keeps every update that a poll has not confirmed.                       *)
(*                                                                         *)
(* A message on the bus is named by its heap text <<kind, update, n>>:     *)
(* "in" is the user's text, "status" the working notice of the agent's     *)
(* n-th round, "answer" a final text of n chunks.                          *)
(***************************************************************************)
EXTENDS MessageBus, Integers

CONSTANTS MaxUpdates,  \* bound: updates that ever exist
          NoText,      \* those that are no text message
          MaxIter,     \* MIMI_AGENT_MAX_TOOL_ITER: 10
          MaxChunks,   \* bound: chunks of MIMI_TG_MAX_MSG_LEN in an answer
          NoMsg        \* a task holds no message

VARIABLES posted,     \* at Telegram: updates 1..posted exist
          confirmed,  \* at Telegram: updates 1..confirmed are forgotten
          batch,      \* updates fetched and not looked at yet
          offset,     \* s_update_offset
          tg_msg,     \* what the poller is pushing
          agent_pc, agent_msg, agent_out, iteration,  \* agent_loop_task
          disp_msg, disp_chunk, disp_plain,           \* outbound_dispatch_task
          heap,       \* live text blocks
          leaked,     \* history: texts whose push failed
          taken,      \* history: updates that were ever looked at
          newest,     \* history: the latest piece that arrived since the start
          in_order    \* history: every piece came after the one before

telegramVars == <<posted, confirmed>>
pollVars  == <<batch, offset, tg_msg, taken>>
agentVars == <<agent_pc, agent_msg, agent_out, iteration>>
dispVars  == <<disp_msg, disp_chunk, disp_plain, newest, in_order>>
heapVars  == <<heap, leaked>>
vars == <<busVars, telegramVars, pollVars, agentVars, dispVars, heapVars>>

Updates == 1..MaxUpdates

ASSUME MimiAssumption ==
    /\ MaxUpdates \in Nat \ {0} /\ NoText \subseteq Updates
    /\ MaxIter \in Nat \ {0} /\ MaxChunks \in Nat \ {0}

InTexts  == {"in"} \X Updates \X {0}
OutTexts == ({"status"} \X Updates \X (0..(MaxIter - 1)))
            \cup ({"answer"} \X Updates \X (1..MaxChunks))

ASSUME NoMsgAssumption == NoMsg \notin InTexts \cup OutTexts

InText(u) == <<"in", u, 0>>
About(m)  == m[2]

(* Without its buffers the agent task deletes itself. *)
AgentStarts == {"idle", "dead"}

Init ==
    /\ posted = 0 /\ confirmed = 0 /\ taken = {}
    /\ BusInit
    /\ batch = <<>> /\ offset = 0 /\ tg_msg = NoMsg
    /\ agent_pc \in AgentStarts /\ agent_msg = NoMsg /\ agent_out = NoMsg /\ iteration = 0
    /\ disp_msg = NoMsg /\ disp_chunk = 1 /\ disp_plain = FALSE
    /\ heap = {} /\ leaked = {} /\ newest = 0 /\ in_order = TRUE

----------------------------------------------------------------------------
(* Telegram *)

NewUpdate ==
    /\ posted < MaxUpdates
    /\ posted' = posted + 1
    /\ UNCHANGED <<busVars, confirmed, pollVars, agentVars, dispVars, heapVars>>

Larger(a, b) == IF a < b THEN b ELSE a

(* The answer to a poll: the unconfirmed updates, or the first few of them. *)
Fetched(from, to) == [i \in 1..(to - from + 1) |-> from + i - 1]

----------------------------------------------------------------------------
(* The poller *)

(* getUpdates confirms what lies below the offset; its answer may be lost, *)
(* and so may the request.                                                 *)
Poll ==
    /\ batch = <<>> /\ tg_msg = NoMsg
    /\ \/ UNCHANGED <<confirmed, batch>>
       \/ /\ confirmed' = Larger(confirmed, offset - 1)
          /\ \E last \in confirmed'..posted : batch' = Fetched(confirmed' + 1, last)
       \/ confirmed' = Larger(confirmed, offset - 1) /\ UNCHANGED batch
    /\ UNCHANGED <<busVars, posted, offset, tg_msg, taken, agentVars, dispVars, heapVars>>

(* The strdup of the text; without one, and without memory, no push.       *)
TakeText(u) ==
    \/ /\ u \notin NoText
       /\ tg_msg' = InText(u) /\ heap' = heap \cup {InText(u)}
    \/ UNCHANGED <<tg_msg, heap>>

(* Fault: the offset jumps one too far. *)
TakeUpdateSkipping ==
    /\ batch # <<>> /\ tg_msg = NoMsg
    /\ offset' = Larger(offset, Head(batch) + 2)
    /\ taken' = taken \cup {Head(batch)}
    /\ TakeText(Head(batch))
    /\ batch' = Tail(batch)
    /\ UNCHANGED <<busVars, telegramVars, agentVars, dispVars, leaked>>

(* process_updates, one update: the offset first, then the message. *)
TakeUpdate ==
    /\ batch # <<>> /\ tg_msg = NoMsg
    /\ offset' = Larger(offset, Head(batch) + 1)
    /\ taken' = taken \cup {Head(batch)}
    /\ TakeText(Head(batch))
    /\ batch' = Tail(batch)
    /\ UNCHANGED <<busVars, telegramVars, agentVars, dispVars, leaked>>

(* Nobody looks at the result of the push. *)
TgPush ==
    /\ tg_msg # NoMsg
    /\ \/ PushInbound(tg_msg) /\ UNCHANGED leaked
       \/ PushInboundFails /\ leaked' = leaked \cup {tg_msg}
    /\ tg_msg' = NoMsg
    /\ UNCHANGED <<outbound, telegramVars, batch, offset, taken, agentVars, dispVars, heap>>

----------------------------------------------------------------------------
(* The agent *)

AgentPop ==
    /\ agent_pc = "idle"
    /\ PopInbound
    /\ agent_msg' = Head(inbound) /\ agent_pc' = "round" /\ iteration' = 0
    /\ UNCHANGED <<outbound, telegramVars, pollVars, agent_out, dispVars, heapVars>>

(* The strdup of a text to send; when it returns NULL nothing is pushed.   *)
Prepare(text, pcPush, pcOnFailure) ==
    \/ agent_out' = text /\ heap' = heap \cup {text} /\ agent_pc' = pcPush
    \/ UNCHANGED <<agent_out, heap>> /\ agent_pc' = pcOnFailure

(* Fault: one round too many. *)
StartRoundLate ==
    /\ agent_pc = "round" /\ iteration <= MaxIter
    /\ Prepare(<<"status", About(agent_msg), iteration>>, "push_status", "ask")
    /\ UNCHANGED <<busVars, telegramVars, pollVars, agent_msg, iteration, dispVars, leaked>>

(* A working notice goes out before each call of the model. *)
StartRound ==
    /\ agent_pc = "round" /\ iteration < MaxIter
    /\ Prepare(<<"status", About(agent_msg), iteration>>, "push_status", "ask")
    /\ UNCHANGED <<busVars, telegramVars, pollVars, agent_msg, iteration, dispVars, leaked>>

(* Fault: a round that failed to find an answer does not count. *)
AskForToolsUncounted ==
    /\ agent_pc = "ask"
    /\ agent_pc' = "round"
    /\ UNCHANGED <<busVars, telegramVars, pollVars, agent_msg, agent_out, iteration, dispVars,
                   heapVars>>

(* The model wants tools: they are run, and the next round begins. *)
AskForTools ==
    /\ agent_pc = "ask"
    /\ agent_pc' = "round" /\ iteration' = iteration + 1
    /\ UNCHANGED <<busVars, telegramVars, pollVars, agent_msg, agent_out, dispVars, heapVars>>

(* The loop is over, with the model's text, which goes out as it is, or    *)
(* with an error, a text that could not be copied or no text in MaxIter    *)
(* rounds, for which an apology of one chunk goes out.                     *)
EndLoop ==
    /\ \/ agent_pc = "ask"
       \/ agent_pc = "round" /\ iteration >= MaxIter
    /\ \E n \in IF agent_pc = "ask" THEN 1..MaxChunks ELSE {1} :
           Prepare(<<"answer", About(agent_msg), n>>, "push_answer", "cleanup")
    /\ iteration' = 0
    /\ UNCHANGED <<busVars, telegramVars, pollVars, agent_msg, dispVars, leaked>>

(* Nobody looks at the result of these pushes either. *)
AgentPush ==
    /\ agent_pc \in {"push_status", "push_answer"}
    /\ \/ PushOutbound(agent_out) /\ UNCHANGED leaked
       \/ PushOutboundFails /\ leaked' = leaked \cup {agent_out}
    /\ agent_out' = NoMsg
    /\ agent_pc' = IF agent_pc = "push_status" THEN "ask" ELSE "cleanup"
    /\ UNCHANGED <<inbound, telegramVars, pollVars, agent_msg, iteration, dispVars, heap>>

(* Fault: the user's text is not freed. *)
AgentCleanupLeaking ==
    /\ agent_pc = "cleanup"
    /\ agent_pc' = "idle" /\ agent_msg' = NoMsg
    /\ UNCHANGED <<busVars, telegramVars, pollVars, agent_out, iteration, dispVars, heapVars>>

AgentCleanup ==
    /\ agent_pc = "cleanup"
    /\ heap' = heap \ {agent_msg}
    /\ agent_pc' = "idle" /\ agent_msg' = NoMsg
    /\ UNCHANGED <<busVars, telegramVars, pollVars, agent_out, iteration, dispVars, leaked>>

----------------------------------------------------------------------------
(* The dispatcher *)

DispatchPop ==
    /\ disp_msg = NoMsg
    /\ PopOutbound
    /\ disp_msg' = Head(outbound) /\ disp_chunk' = 1
    /\ UNCHANGED <<inbound, telegramVars, pollVars, agentVars, disp_plain, newest, in_order,
                   heapVars>>

Chunks(m) == IF m[1] = "answer" THEN m[3] ELSE 1

(* The order in which the user should see the pieces. *)
Place(m, chunk) == About(m) * (MaxIter + MaxChunks + 1)
                   + (IF m[1] = "status" THEN m[3] + 1 ELSE MaxIter + chunk)

Arrives == /\ newest' = Place(disp_msg, disp_chunk)
           /\ in_order' = (in_order /\ newest' > newest)

(* telegram_send_message returns, and the dispatcher frees the text. *)
DoneSending == /\ disp_msg' = NoMsg /\ disp_chunk' = 1
               /\ heap' = heap \ {disp_msg}

NextChunk == /\ disp_plain' = FALSE
             /\ IF disp_chunk < Chunks(disp_msg)
                THEN disp_chunk' = disp_chunk + 1 /\ UNCHANGED <<disp_msg, heap>>
                ELSE DoneSending

(* Fault: no answer from Telegram counts as a refusal. *)
SendChunkRetrying ==
    /\ disp_msg # NoMsg /\ ~disp_plain
    /\ \/ Arrives /\ NextChunk
       \/ /\ Arrives \/ UNCHANGED <<newest, in_order>>
          /\ disp_plain' = TRUE /\ UNCHANGED <<disp_msg, disp_chunk, heap>>
    /\ UNCHANGED <<busVars, telegramVars, pollVars, agentVars, leaked>>

(* A chunk goes out as Markdown.  It arrives or not, whatever comes back;  *)
(* only when Telegram refuses it is it tried as plain text.                *)
SendChunk ==
    /\ disp_msg # NoMsg /\ ~disp_plain
    /\ \/ Arrives /\ NextChunk
       \/ UNCHANGED <<newest, in_order>> /\ NextChunk
       \/ disp_plain' = TRUE /\ UNCHANGED <<disp_msg, disp_chunk, heap, newest, in_order>>
    /\ UNCHANGED <<busVars, telegramVars, pollVars, agentVars, leaked>>

SendPlain ==
    /\ disp_msg # NoMsg /\ disp_plain
    /\ Arrives \/ UNCHANGED <<newest, in_order>>
    /\ NextChunk
    /\ UNCHANGED <<busVars, telegramVars, pollVars, agentVars, leaked>>

(* No bot token, or no memory for the next chunk: the rest is not sent. *)
GiveUpSending ==
    /\ disp_msg # NoMsg /\ ~disp_plain
    /\ DoneSending
    /\ UNCHANGED <<busVars, telegramVars, pollVars, agentVars, disp_plain, newest, in_order,
                   leaked>>

----------------------------------------------------------------------------
(* A reset keeps nothing of the firmware. *)
Restart ==
    /\ inbound' = <<>> /\ outbound' = <<>>
    /\ batch' = <<>> /\ offset' = 0 /\ tg_msg' = NoMsg
    /\ agent_pc' \in AgentStarts /\ agent_msg' = NoMsg /\ agent_out' = NoMsg /\ iteration' = 0
    /\ disp_msg' = NoMsg /\ disp_chunk' = 1 /\ disp_plain' = FALSE
    /\ heap' = {} /\ leaked' = {} /\ newest' = 0 /\ in_order' = TRUE
    /\ UNCHANGED <<telegramVars, taken>>

Poller     == Poll \/ TakeUpdate \/ TgPush
Agent      == \/ AgentPop \/ StartRound \/ AskForTools \/ EndLoop
              \/ AgentPush \/ AgentCleanup
Dispatcher == DispatchPop \/ SendChunk \/ SendPlain \/ GiveUpSending

Next == NewUpdate \/ Poller \/ Agent \/ Dispatcher \/ Restart

Spec == Init /\ [][Next]_vars

(* What the tasks do by themselves: a push ends within a second.  Telegram,*)
(* the model and the tools are called through the proxy when one is set,   *)
(* where a request that is not taken is written for ever                   *)
(* (proxy_conn_write), so no such call need return.                        *)
PollerAlone == TakeUpdate \/ TgPush
AgentAlone  == \/ AgentPop \/ StartRound \/ AgentPush \/ AgentCleanup
               \/ agent_pc = "round" /\ EndLoop

(* FreeRTOS runs every ready task. *)
FairSpec == Spec /\ WF_vars(PollerAlone) /\ WF_vars(AgentAlone)

----------------------------------------------------------------------------
(* Properties *)

(* Every variable has its type, a queue keeps its limit and the agent its  *)
(* number of rounds.                                                       *)
TypeOK ==
    /\ inbound \in Seq(InTexts) /\ Len(inbound) <= QueueLen
    /\ outbound \in Seq(OutTexts) /\ Len(outbound) <= QueueLen
    /\ posted \in 0..MaxUpdates /\ confirmed \in 0..posted
    /\ batch \in Seq(Updates) /\ offset \in 0..(posted + 1)
    /\ tg_msg \in InTexts \cup {NoMsg}
    /\ agent_pc \in {"idle", "dead", "round", "push_status", "ask", "push_answer", "cleanup"}
    /\ agent_msg \in InTexts \cup {NoMsg} /\ (agent_pc \in {"idle", "dead"} <=> agent_msg = NoMsg)
    /\ agent_out \in OutTexts \cup {NoMsg}
    /\ iteration \in 0..MaxIter
    /\ disp_msg \in OutTexts \cup {NoMsg}
    /\ disp_chunk \in 1..MaxChunks /\ disp_plain \in BOOLEAN
    /\ heap \subseteq InTexts \cup OutTexts /\ leaked \subseteq heap
    /\ taken \subseteq Updates /\ newest \in Nat /\ in_order \in BOOLEAN

Held(m)   == IF m = NoMsg THEN {} ELSE {m}
Queued(q) == {q[i] : i \in 1..Len(q)}
Owned == UNION {Held(tg_msg), Queued(inbound), Held(agent_msg),
                Held(agent_out), Queued(outbound), Held(disp_msg)}

(* Every live text is one that some task or queue will still free, except  *)
(* those whose push failed; and no text in use has been freed.             *)
OnlyFailedPushesLeak == heap = Owned \cup leaked /\ Owned \cap leaked = {}

(* Between two resets the user sees working notices and chunks in the      *)
(* order they were made, each at most once, and the answer to a message    *)
(* after all that belongs to earlier messages, although pieces may be      *)
(* missing and a chunk may be sent a second time.                          *)
PiecesInOrder == in_order

(* What a poll confirms, and Telegram therefore forgets, was looked at,    *)
(* before or after the last restart.                                       *)
ConfirmedWereTaken == (1..confirmed) \subseteq taken

(* The users' texts that the poller, its queue and the agent have.         *)
TextsIn == Held(tg_msg) \cup Queued(inbound) \cup Held(agent_msg)

(* The agent and the poller hold no update for ever: it is answered, lost  *)
(* to a full queue or to a restart, also when poller, agent and dispatcher *)
(* each hold a message and both queues are full, and even when the         *)
(* dispatcher hangs; unless the agent is gone or hangs in a call.          *)
EveryUpdateLeaves ==
    \/ \A u \in Updates : []<>(InText(u) \notin TextsIn)
    \/ <>[](agent_pc = "ask") \/ <>[](agent_pc = "dead")
=============================================================================

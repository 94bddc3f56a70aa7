----------------------------- MODULE AtomServer -----------------------------
(***************************************************************************)
(* The path of one chat message through the AtomClaw firmware: the single  *)
(* HTTP server task (discord/discord_server.c), the message bus, the agent *)
(* task and the outbound dispatcher (atom_main.c).  Three tasks, two       *)
(* bounded queues, and heap text handed from one to the next.              *)
(*                                                                         *)
(* A request r stands for one webhook post: its reply token and its text.  *)
(* A heap block <<k, r>> is a strdup made for it: "in" is the user's text, *)
(* "final" the agent's final_text, "out" the content of the reply.  A name *)
(* r may be posted again once nothing of its last post is left, so the     *)
(* system has no last state.  What the agent does to find its answer is    *)
(* modelled in AtomTurn; here it is one step that finds one or does not.   *)
(***************************************************************************)
EXTENDS MessageBus, FiniteSets

CONSTANTS Requests,    \* webhook posts
          DiscordPosts, LinePosts,  \* those each platform may send
          LongTokens,  \* those whose token does not fit meta[128]
          CutToken,    \* what strncpy leaves of such a token
          NoMsg        \* a task holds no message

ASSUME RequestAssumption ==
    /\ DiscordPosts \cup LinePosts \cup LongTokens \subseteq Requests
    /\ CutToken \notin Requests

VARIABLES httpd_pc, httpd_msg,                    \* the HTTP server task
          agent_pc, agent_msg, final_text, agent_out,  \* atom_agent_task
          disp_msg,                               \* outbound_dispatch_task
          heap,                                   \* live text blocks
          replied,                                \* posts whose HTTP response is out
          outcome                                 \* how each post ended

httpdVars == <<httpd_pc, httpd_msg>>
agentVars == <<agent_pc, agent_msg, final_text, agent_out>>
vars == <<busVars, httpdVars, agentVars, disp_msg, heap, replied, outcome>>

Blocks == {"in", "final", "out"} \X Requests

(* mimi_msg_t, carrying the user's text in and the answer out. *)
MessageWith(kind) == [chan    : {"discord", "line"},
                      meta    : Requests \cup {CutToken},
                      content : {kind} \X Requests]
InMsg  == MessageWith("in")
OutMsg == MessageWith("out")

ASSUME NoMsgAssumption == NoMsg \notin InMsg \cup OutMsg

Outcomes == {"none", "pending", "lost", "failed", "answered", "misdirected"}

About(m) == m.content[2]   \* the post whose text, or whose answer, m carries

(* A task that does not get its buffers deletes itself. *)
AgentStarts == agent_pc \in {"idle", "dead"}

Init == /\ BusInit
        /\ httpd_pc = "idle" /\ httpd_msg = NoMsg
        /\ AgentStarts /\ agent_msg = NoMsg
        /\ final_text = {} /\ agent_out = NoMsg
        /\ disp_msg = NoMsg
        /\ heap = {} /\ replied = {}
        /\ outcome = [r \in Requests |-> "none"]

Settle(r, how) == outcome' = [outcome EXCEPT ![r] = how]

(* Nothing of an earlier post under this name is left. *)
Fresh(r) == outcome[r] # "pending" /\ \A k \in {"in", "final", "out"} : <<k, r>> \notin heap

----------------------------------------------------------------------------
(* The HTTP server task: one handler runs at a time. *)

(* strncpy of the token into meta, and strdup of the text. *)
Incoming(r, chan) == [chan    |-> chan,
                      meta    |-> IF r \in LongTokens THEN CutToken ELSE r,
                      content |-> <<"in", r>>]

(* The handler's strdup; when it returns NULL nothing is pushed. *)
TakeIn(r, chan, pcOnFailure) ==
    \/ /\ heap' = heap \cup {<<"in", r>>}
       /\ httpd_msg' = Incoming(r, chan)
       /\ httpd_pc' = "push"
       /\ Settle(r, "pending")
    \/ /\ httpd_pc' = pcOnFailure
       /\ httpd_msg' = IF pcOnFailure = "idle" THEN NoMsg ELSE Incoming(r, chan)
       /\ Settle(r, "lost")
       /\ UNCHANGED heap

(* Fault: the deferred response is left for later. *)
PostDiscordUnanswered(r) ==
    /\ r \in DiscordPosts
    /\ httpd_pc = "idle" /\ Fresh(r)
    /\ replied' = replied \ {r}
    /\ TakeIn(r, "discord", "idle")
    /\ UNCHANGED <<busVars, agentVars, disp_msg>>

(* A command or component interaction: {"type":5} goes out before the push. *)
PostDiscord(r) ==
    /\ r \in DiscordPosts
    /\ httpd_pc = "idle" /\ Fresh(r)
    /\ replied' = replied \cup {r}
    /\ TakeIn(r, "discord", "idle")
    /\ UNCHANGED <<busVars, agentVars, disp_msg>>

(* A LINE text event: {"ok":true} goes out after the push. *)
PostLine(r) ==
    /\ r \in LinePosts
    /\ httpd_pc = "idle" /\ Fresh(r)
    /\ replied' = replied \ {r}
    /\ TakeIn(r, "line", "reply")
    /\ UNCHANGED <<busVars, agentVars, disp_msg>>

(* A ping, a bad body, an unsupported type, no token, no text event. *)
PostOther(r) ==
    /\ httpd_pc = "idle" /\ Fresh(r)
    /\ replied' = replied \cup {r}
    /\ Settle(r, "none")
    /\ UNCHANGED <<busVars, httpdVars, agentVars, disp_msg, heap>>

(* LINE still has its response to send when the push is over. *)
LeavePush == IF httpd_msg.chan = "line"
             THEN httpd_pc' = "reply" /\ UNCHANGED httpd_msg
             ELSE httpd_pc' = "idle" /\ httpd_msg' = NoMsg

HttpdPush ==
    /\ httpd_pc = "push"
    /\ PushInbound(httpd_msg)
    /\ LeavePush
    /\ UNCHANGED <<outbound, agentVars, disp_msg, heap, replied, outcome>>

(* Fault: the text of a message that was not queued is not freed. *)
HttpdPushFailsLeaking ==
    /\ httpd_pc = "push"
    /\ PushInboundFails
    /\ LeavePush
    /\ Settle(About(httpd_msg), "lost")
    /\ UNCHANGED <<outbound, agentVars, disp_msg, heap, replied>>

(* Fault: the handler returns without its response when the queue is full. *)
HttpdPushFailsSilently ==
    /\ httpd_pc = "push"
    /\ PushInboundFails
    /\ httpd_pc' = "idle" /\ httpd_msg' = NoMsg
    /\ heap' = heap \ {httpd_msg.content}
    /\ Settle(About(httpd_msg), "lost")
    /\ UNCHANGED <<outbound, agentVars, disp_msg, replied>>

HttpdPushFails ==
    /\ httpd_pc = "push"
    /\ PushInboundFails
    /\ LeavePush
    /\ heap' = heap \ {httpd_msg.content}
    /\ Settle(About(httpd_msg), "lost")
    /\ UNCHANGED <<outbound, agentVars, disp_msg, replied>>

HttpdReply ==
    /\ httpd_pc = "reply"
    /\ replied' = replied \cup {About(httpd_msg)}
    /\ httpd_pc' = "idle" /\ httpd_msg' = NoMsg
    /\ UNCHANGED <<busVars, agentVars, disp_msg, heap, outcome>>

----------------------------------------------------------------------------
(* The agent task: one message at a time, from pop to free. *)

AgentPop ==
    /\ agent_pc = "idle"
    /\ PopInbound
    /\ agent_msg' = Head(inbound)
    /\ agent_pc' = "think"
    /\ UNCHANGED <<outbound, httpdVars, final_text, agent_out, disp_msg, heap, replied, outcome>>

(* Steps 1 to 6 of the loop: final_text is a heap copy of the model's      *)
(* answer, or NULL when the calls fail, end without text or run out.       *)
AgentThink ==
    /\ agent_pc = "think"
    /\ \/ final_text' = {<<"final", About(agent_msg)>>}
       \/ final_text' = {}
    /\ heap' = heap \cup final_text'
    /\ agent_pc' = "respond"
    /\ UNCHANGED <<busVars, httpdVars, agent_msg, agent_out, disp_msg, replied, outcome>>

(* Fault: the token is read from a place the HTTP handler also writes.     *)
ReplySharingToken(m) ==
    [chan    |-> m.chan,
     meta    |-> IF httpd_msg = NoMsg THEN m.meta ELSE httpd_msg.meta,
     content |-> <<"out", About(m)>>]

(* What the turn does after the push: in cloud mode, which is Discord's,   *)
(* the model may be due to write a summary.                                *)
AfterPush == agent_pc' \in IF agent_msg.chan = "discord" THEN {"summarise", "cleanup"}
                                                        ELSE {"cleanup"}

(* The outbound struct: channel and token of the message, a copy of the    *)
(* answer (or of the apology that stands in for it).                       *)
Reply(m) == [chan |-> m.chan, meta |-> m.meta, content |-> <<"out", About(m)>>]

AgentRespond ==
    /\ agent_pc = "respond"
    /\ \/ /\ agent_out' = Reply(agent_msg)
          /\ heap' = heap \cup {agent_out'.content}
          /\ agent_pc' = "push"
          /\ UNCHANGED outcome
       \/ /\ AfterPush                 \* strdup returned NULL
          /\ Settle(About(agent_msg), "lost")
          /\ UNCHANGED <<agent_out, heap>>
    /\ UNCHANGED <<busVars, httpdVars, agent_msg, final_text, disp_msg, replied>>

AgentPush ==
    /\ agent_pc = "push"
    /\ PushOutbound(agent_out)
    /\ agent_out' = NoMsg
    /\ AfterPush
    /\ UNCHANGED <<inbound, httpdVars, agent_msg, final_text, disp_msg, heap, replied, outcome>>

AgentPushFails ==
    /\ agent_pc = "push"
    /\ PushOutboundFails
    /\ heap' = heap \ {agent_out.content}
    /\ agent_out' = NoMsg
    /\ AfterPush
    /\ Settle(About(agent_msg), "lost")
    /\ UNCHANGED <<inbound, httpdVars, agent_msg, final_text, disp_msg, replied>>

(* The second call of the model in a turn. *)
AgentSummarise ==
    /\ agent_pc = "summarise"
    /\ agent_pc' = "cleanup"
    /\ UNCHANGED <<busVars, httpdVars, agent_msg, final_text, agent_out, disp_msg, heap,
                   replied, outcome>>

(* Fault: the texts of a turn are not freed. *)
AgentCleanupLeaking ==
    /\ agent_pc = "cleanup" /\ UNCHANGED heap
    /\ agent_pc' = "idle" /\ agent_msg' = NoMsg /\ final_text' = {}
    /\ UNCHANGED <<busVars, httpdVars, agent_out, disp_msg, replied, outcome>>

AgentCleanup ==
    /\ agent_pc = "cleanup"
    /\ heap' = heap \ ({agent_msg.content} \cup final_text)
    /\ agent_pc' = "idle" /\ agent_msg' = NoMsg /\ final_text' = {}
    /\ UNCHANGED <<busVars, httpdVars, agent_out, disp_msg, replied, outcome>>

----------------------------------------------------------------------------
(* The dispatcher: a follow-up for every message, then free. *)

DispatchPop ==
    /\ disp_msg = NoMsg
    /\ PopOutbound
    /\ disp_msg' = Head(outbound)
    /\ UNCHANGED <<inbound, httpdVars, agentVars, heap, replied, outcome>>

(* The platform took the text as the answer to the post the token names;   *)
(* a cut token names none.                                                 *)
FollowUpLands(m) ==
    /\ m.meta \in Requests
    /\ Settle(m.meta, IF m.meta = About(m) THEN "answered" ELSE "misdirected")

(* No access token, no memory, no connection, a timeout, a status not 2xx. *)
FollowUpFails(m) == Settle(About(m), "failed")

(* Fault: a follow-up that fails is tried again, for ever. *)
DispatchRetrying ==
    /\ disp_msg # NoMsg
    /\ \/ FollowUpLands(disp_msg) /\ disp_msg' = NoMsg /\ heap' = heap \ {disp_msg.content}
       \/ UNCHANGED <<disp_msg, heap, outcome>>
    /\ UNCHANGED <<busVars, httpdVars, agentVars, replied>>

Dispatch ==
    /\ disp_msg # NoMsg
    /\ FollowUpLands(disp_msg) \/ FollowUpFails(disp_msg)
    /\ disp_msg' = NoMsg
    /\ heap' = heap \ {disp_msg.content}
    /\ UNCHANGED <<busVars, httpdVars, agentVars, replied>>

----------------------------------------------------------------------------
Post == \E r \in Requests : PostDiscord(r) \/ PostLine(r) \/ PostOther(r)

Httpd      == HttpdPush \/ HttpdPushFails \/ HttpdReply
ModelCalls == AgentThink \/ AgentSummarise
AgentRest  == \/ AgentPop \/ AgentRespond \/ AgentPush \/ AgentPushFails \/ AgentCleanup
Agent      == ModelCalls \/ AgentRest
Dispatcher == DispatchPop \/ Dispatch

Next == Post \/ Httpd \/ Agent \/ Dispatcher

Spec == Init /\ [][Next]_vars

(* FreeRTOS runs every ready task, and the agent has a core to itself.  A  *)
(* push gives up after a second, and the platforms and the cloud are       *)
(* called with a time limit; the model and the tools are not: through a    *)
(* proxy, a request that the other end does not take is written for ever   *)
(* (proxy_conn_write).  Nobody has to post.                                *)
FairSpec == Spec /\ WF_vars(Httpd) /\ WF_vars(AgentRest) /\ WF_vars(Dispatcher)

----------------------------------------------------------------------------
(* Properties *)

(* Every variable has its type, a queue never holds more than its length,  *)
(* and a task's program counter says which of its locals are set.          *)
TypeOK ==
    /\ inbound \in Seq(InMsg) /\ Len(inbound) <= QueueLen
    /\ outbound \in Seq(OutMsg) /\ Len(outbound) <= QueueLen
    /\ httpd_pc \in {"idle", "push", "reply"}
    /\ agent_pc \in {"idle", "dead", "think", "respond", "push", "summarise", "cleanup"}
    /\ httpd_msg \in InMsg \cup {NoMsg} /\ (httpd_pc = "idle") = (httpd_msg = NoMsg)
    /\ agent_msg \in InMsg \cup {NoMsg} /\ (agent_pc \in {"idle", "dead"}) = (agent_msg = NoMsg)
    /\ agent_out \in OutMsg \cup {NoMsg} /\ (agent_pc = "push") = (agent_out # NoMsg)
    /\ disp_msg \in OutMsg \cup {NoMsg}
    /\ final_text \in SUBSET ({"final"} \X Requests)
    /\ heap \in SUBSET Blocks
    /\ replied \in SUBSET Requests
    /\ outcome \in [Requests -> Outcomes]

(* Who must free what: the blocks each task and each queue is to free.     *)
Content(m)  == IF m = NoMsg THEN {} ELSE {m.content}
Contents(q) == {q[i].content : i \in 1..Len(q)}

HttpdOwns == IF httpd_pc = "push" THEN Content(httpd_msg) ELSE {}
AgentOwns == Content(agent_msg) \cup final_text

(* No text is leaked and none is used or freed after its free: the live    *)
(* blocks are exactly those some task or queue is still to free.           *)
NoLeakNoDangling ==
    heap = UNION {HttpdOwns, Contents(inbound), AgentOwns, Content(agent_out),
                  Contents(outbound), Content(disp_msg)}

NoneTwice(q) == \A i, j \in 1..Len(q) : q[i].content = q[j].content => i = j

(* No text has two owners, so none is freed twice: a push that succeeds    *)
(* hands the text over and a push that fails leaves it with the caller.    *)
SingleOwner ==
    /\ NoneTwice(inbound) /\ NoneTwice(outbound)
    /\ HttpdOwns \cap (Contents(inbound) \cup AgentOwns) = {}
    /\ Contents(inbound) \cap AgentOwns = {}
    /\ Content(agent_out) \cap (Contents(outbound) \cup Content(disp_msg)) = {}
    /\ Contents(outbound) \cap Content(disp_msg) = {}

Ownership == NoLeakNoDangling /\ SingleOwner

(* Message text never takes more than this many heap blocks, however many  *)
(* posts arrive: two queues and what three tasks hold at once.             *)
HeapBound == Cardinality(heap) <= 2 * QueueLen + 5

(* The answer to one post never reaches another post's token, although the *)
(* handler is already filling in the next post while the agent answers.    *)
NoMisdirected == \A r \in Requests : outcome[r] # "misdirected"

DeferredStep ==
    \A r \in Requests :
        (outcome'[r] = "answered" /\ outcome[r] # "answered" /\ disp_msg.chan = "discord")
            => r \in replied

(* A Discord follow-up edits the deferred response, so it may only land    *)
(* when that response is already out.                                      *)
DeferredFirst == [][DeferredStep]_vars

(* The agent is gone, or hangs in one call for ever. *)
AgentStuck == \E pc \in {"dead", "think", "summarise"} : <>[](agent_pc = pc)

(* Every post that was taken in is settled, that is answered, failed or    *)
(* dropped, also when HTTP task, agent and dispatcher each hold a message  *)
(* and both queues are full, unless the agent is stuck.                    *)
EveryPostSettles == AgentStuck \/ \A r \in Requests : []<>(outcome[r] # "pending")

(* No post waits for ever for its HTTP response, also while both queues    *)
(* are full, and even when the agent never comes back: again and again     *)
(* every post whose handler has started has had its response.              *)
EveryPostReplied == []<>(\A r \in Requests : outcome[r] = "none" \/ r \in replied)

(* The posts in the pipeline, oldest first: the abstract waiting line. *)
AsLine(m) == IF m = NoMsg THEN <<>> ELSE <<About(m)>>
Line(q)   == [i \in 1..Len(q) |-> About(q[i])]

Waiting == AsLine(disp_msg) \o Line(outbound)
           \o (IF agent_pc \in {"think", "respond", "push"} THEN AsLine(agent_msg) ELSE <<>>)
           \o Line(inbound)
           \o (IF httpd_pc = "push" THEN AsLine(httpd_msg) ELSE <<>>)

Service == INSTANCE ReplyService WITH waiting <- Waiting

(* The firmware answers posts in the order it took them in, each at most   *)
(* once: it implements ReplyService.                                       *)
RefinesReplyService == Service!Spec
=============================================================================

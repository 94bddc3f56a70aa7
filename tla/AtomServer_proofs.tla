------------------------- MODULE AtomServer_proofs -------------------------
(***************************************************************************)
(* Proofs about AtomServer, for every queue length and every set of posts. *)
(***************************************************************************)
EXTENDS AtomServer, SequenceTheorems, FiniteSetTheorems, TLAPS

----------------------------------------------------------------------------
(* What a push and a pop do to the blocks a queue owns. *)

LEMMA PushedContents ==
  ASSUME NEW S, NEW q \in Seq(S), NEW m \in S
  PROVE  /\ Append(q, m) \in Seq(S)
         /\ Len(Append(q, m)) = Len(q) + 1
         /\ Contents(Append(q, m)) = Contents(q) \cup {m.content}
         /\ NoneTwice(q) /\ m.content \notin Contents(q) => NoneTwice(Append(q, m))
  <1> DEFINE p == Append(q, m)
  <1>1. /\ p \in Seq(S) /\ Len(p) = Len(q) + 1 /\ Len(q) \in Nat
        /\ \A i \in 1..Len(q) : p[i] = q[i]
        /\ p[Len(q) + 1] = m
    BY AppendProperties, LenProperties
  <1>2. Contents(p) = Contents(q) \cup {m.content}
    <2> HIDE DEF p
    <2>1. 1..Len(p) = 1..Len(q) \cup {Len(q) + 1}
      BY <1>1
    <2> QED BY <1>1, <2>1 DEF Contents
  <1>3. NoneTwice(q) /\ m.content \notin Contents(q) => NoneTwice(p)
    <2> HIDE DEF p
    <2> QED BY <1>1 DEF NoneTwice, Contents
  <1> QED BY <1>1, <1>2, <1>3

LEMMA PoppedContents ==
  ASSUME NEW S, NEW q \in Seq(S), q # <<>>
  PROVE  /\ Head(q) \in S
         /\ Tail(q) \in Seq(S)
         /\ Len(Tail(q)) = Len(q) - 1
         /\ Contents(q) = Contents(Tail(q)) \cup {Head(q).content}
         /\ NoneTwice(q) => /\ NoneTwice(Tail(q))
                            /\ Head(q).content \notin Contents(Tail(q))
  <1> DEFINE t == Tail(q)
  <1>1. /\ Head(q) = q[1] /\ Head(q) \in S /\ t \in Seq(S) /\ Len(t) = Len(q) - 1
        /\ \A i \in 1..Len(t) : t[i] = q[i + 1]
        /\ Len(q) \in Nat \ {0}
    BY HeadTailProperties, EmptySeq
  <1> HIDE DEF t
  <1>2. Contents(q) = Contents(t) \cup {Head(q).content}
    <2>1. \A i \in 1..Len(q) : i = 1 \/ (i - 1 \in 1..Len(t) /\ q[i] = t[i - 1])
      BY <1>1
    <2>2. \A i \in 1..Len(t) : i + 1 \in 1..Len(q) /\ t[i] = q[i + 1]
      BY <1>1
    <2>3. 1 \in 1..Len(q)
      BY <1>1
    <2> QED BY <1>1, <2>1, <2>2, <2>3 DEF Contents
  <1>3. NoneTwice(q) => NoneTwice(t) /\ Head(q).content \notin Contents(t)
    BY <1>1 DEF NoneTwice, Contents
  <1> QED BY <1>1, <1>2, <1>3 DEF t

----------------------------------------------------------------------------
(* Type correctness. *)

LEMMA NoMsgIsNoMessage == NoMsg \notin InMsg /\ NoMsg \notin OutMsg
  BY NoMsgAssumption

LEMMA IncomingType ==
  ASSUME NEW r \in Requests, NEW chan \in {"discord", "line"}
  PROVE  Incoming(r, chan) \in InMsg /\ Incoming(r, chan).content = <<"in", r>>
  BY DEF Incoming, InMsg, MessageWith

LEMMA ReplyType ==
  ASSUME NEW m \in InMsg
  PROVE  Reply(m) \in OutMsg /\ Reply(m).content = <<"out", About(m)>> /\ About(m) \in Requests
  BY DEF Reply, About, InMsg, OutMsg, MessageWith

LEMMA SettleType ==
  ASSUME NEW r \in Requests, NEW how \in Outcomes,
         outcome \in [Requests -> Outcomes], Settle(r, how)
  PROVE  outcome' \in [Requests -> Outcomes]
  BY DEF Settle

(* Every variable keeps its type, whatever the queue length and the posts. *)
LEMMA InitType == Init => TypeOK
  <1> SUFFICES ASSUME Init PROVE TypeOK
    OBVIOUS
  <1>1. <<>> \in Seq(InMsg) /\ <<>> \in Seq(OutMsg) /\ Len(<<>>) = 0
    BY EmptySeq
  <1> QED
    BY <1>1, NoMsgIsNoMessage, QueueLenAssumption DEF Init, AgentStarts, BusInit, TypeOK, Outcomes

LEMMA NextType ==
  ASSUME TypeOK, [Next]_vars
  PROVE  TypeOK'
  <1> USE DEF TypeOK, vars, busVars, httpdVars, agentVars
  <1>1. CASE UNCHANGED vars
    BY <1>1
  <1>2. ASSUME NEW r \in Requests, PostDiscord(r) \/ PostLine(r)
        PROVE  TypeOK'
    <2>1. PICK chan \in {"discord", "line"}, pc \in {"idle", "reply"} :
             TakeIn(r, chan, pc) /\ httpd_pc = "idle"
                /\ UNCHANGED <<busVars, agentVars, disp_msg>>
                /\ replied' \in SUBSET Requests
      BY <1>2 DEF PostDiscord, PostLine
    <2>2. outcome' \in [Requests -> Outcomes]
      BY <2>1, SettleType DEF TakeIn, Outcomes
    <2>3. heap' \in SUBSET Blocks
      BY <2>1 DEF TakeIn, Blocks
    <2> QED
      BY <2>1, <2>2, <2>3, IncomingType, NoMsgIsNoMessage DEF TakeIn
  <1>3. ASSUME NEW r \in Requests, PostOther(r) PROVE TypeOK'
    BY <1>3, SettleType DEF PostOther, Outcomes
  <1>4. CASE HttpdPush
    <2>1. httpd_msg \in InMsg
      BY <1>4 DEF HttpdPush
    <2> QED
      BY <1>4, <2>1, PushedContents, QueueLenAssumption, LenProperties
      DEF HttpdPush, PushInbound, LeavePush
  <1>5. CASE HttpdPushFails
    <2>1. httpd_msg \in InMsg /\ About(httpd_msg) \in Requests
      BY <1>5 DEF HttpdPushFails, InMsg, MessageWith, About
    <2>2. outcome' \in [Requests -> Outcomes]
      BY <1>5, <2>1, SettleType DEF HttpdPushFails, Outcomes
    <2> QED
      BY <1>5, <2>1, <2>2 DEF HttpdPushFails, PushInboundFails, LeavePush
  <1>6. CASE HttpdReply
    <2>1. httpd_msg \in InMsg /\ About(httpd_msg) \in Requests
      BY <1>6 DEF HttpdReply, InMsg, MessageWith, About
    <2> QED BY <1>6, <2>1 DEF HttpdReply
  <1>7. CASE AgentPop
    BY <1>7, PoppedContents, QueueLenAssumption, LenProperties, NoMsgIsNoMessage
    DEF AgentPop, PopInbound
  <1>8. CASE AgentThink
    <2>1. agent_msg \in InMsg /\ About(agent_msg) \in Requests
      BY <1>8 DEF AgentThink, InMsg, MessageWith, About
    <2> QED BY <1>8, <2>1 DEF AgentThink, Blocks
  <1>9. CASE AgentRespond
    <2>1. agent_msg \in InMsg /\ agent_out = NoMsg
      BY <1>9 DEF AgentRespond
    <2>2. outcome' \in [Requests -> Outcomes]
      BY <1>9, <2>1, SettleType, ReplyType DEF AgentRespond, Outcomes
    <2>3. heap' \in SUBSET Blocks
      <3>1. Reply(agent_msg).content \in Blocks
        <4>1. About(agent_msg) \in Requests /\ Reply(agent_msg).content = <<"out", About(agent_msg)>>
          BY <2>1, ReplyType
        <4>2. <<"out", About(agent_msg)>> \in Blocks
          BY <4>1 DEF Blocks
        <4> QED BY <4>1, <4>2
      <3> QED BY <1>9, <3>1 DEF AgentRespond
    <2> QED
      BY <1>9, <2>1, <2>2, <2>3, ReplyType, NoMsgIsNoMessage DEF AgentRespond, AfterPush
  <1>10. CASE AgentPush
    <2>1. agent_out \in OutMsg /\ agent_msg \in InMsg
      BY <1>10 DEF AgentPush
    <2> QED
      BY <1>10, <2>1, PushedContents, QueueLenAssumption, LenProperties
      DEF AgentPush, AfterPush, PushOutbound
  <1>11. CASE AgentPushFails
    <2>1. agent_msg \in InMsg /\ About(agent_msg) \in Requests
      BY <1>11 DEF AgentPushFails, InMsg, MessageWith, About
    <2>2. outcome' \in [Requests -> Outcomes]
      BY <1>11, <2>1, SettleType DEF AgentPushFails, Outcomes
    <2> QED BY <1>11, <2>1, <2>2 DEF AgentPushFails, AfterPush, PushOutboundFails
  <1>12. CASE AgentSummarise \/ AgentCleanup
    BY <1>12 DEF AgentSummarise, AgentCleanup
  <1>13. CASE DispatchPop
    BY <1>13, PoppedContents, QueueLenAssumption, LenProperties DEF DispatchPop, PopOutbound
  <1>14. CASE Dispatch
    <2>1. disp_msg \in OutMsg /\ About(disp_msg) \in Requests
      BY <1>14 DEF Dispatch, OutMsg, MessageWith, About
    <2>2. outcome' \in [Requests -> Outcomes]
      BY <1>14, <2>1, SettleType DEF Dispatch, FollowUpLands, FollowUpFails, Outcomes
    <2> QED BY <1>14, <2>1, <2>2 DEF Dispatch
  <1> QED
    BY <1>1, <1>2, <1>3, <1>4, <1>5, <1>6, <1>7, <1>8, <1>9, <1>10, <1>11, <1>12, <1>13, <1>14
    DEF Next, Post, Httpd, Agent, ModelCalls, AgentRest, Dispatcher

(* Every variable of the firmware model keeps its type, no queue grows     *)
(* beyond its length and every task's locals agree with its position, for  *)
(* every queue length and every set of posts.                              *)
THEOREM TypeCorrect == Spec => []TypeOK
  <1>1. TypeOK /\ [Next]_vars => TypeOK'
    BY NextType
  <1> QED BY InitType, <1>1, PTL DEF Spec

----------------------------------------------------------------------------
(* Ownership of the heap text.                                             *)
(*                                                                         *)
(* Ownership alone is not inductive.  AgentRespond makes the block         *)
(* <<"out", r>>, and nothing in Ownership says that the block is not       *)
(* already in the outbound queue.  What rules that out is that a text      *)
(* still on its way to an answer has none yet.  AgentThink drops what      *)
(* final_text held, so it must hold nothing; it never holds more than one. *)

Unanswered == UNION {HttpdOwns, Contents(inbound),
                     IF agent_pc \in {"think", "respond"} THEN Content(agent_msg) ELSE {}}

NoAnswerYet == \A r \in Requests : <<"in", r>> \in Unanswered => <<"out", r>> \notin heap

FinalText ==
    /\ agent_pc \in {"idle", "think"} => final_text = {}
    /\ final_text \subseteq {<<"final", About(agent_msg)>>}

IInv == TypeOK /\ Ownership /\ NoAnswerYet /\ FinalText

LEMMA InitOwnership == Init => IInv
  <1> SUFFICES ASSUME Init PROVE IInv
    OBVIOUS
  <1>1. Contents(<<>>) = {} /\ NoneTwice(<<>>)
    BY DEF Contents, NoneTwice
  <1>2. Ownership /\ NoAnswerYet /\ FinalText
    BY <1>1 DEF Init, BusInit, Ownership, NoLeakNoDangling, SingleOwner, HttpdOwns,
                AgentOwns, Content, NoAnswerYet, Unanswered, FinalText
  <1> QED BY <1>2, InitType DEF IInv

(* The three kinds of block never meet. *)
Ins  == {"in"} \X Requests
Outs == {"out"} \X Requests
Finals == {"final"} \X Requests

LEMMA Kinds ==
  ASSUME TypeOK
  PROVE  /\ Contents(inbound) \subseteq Ins /\ HttpdOwns \subseteq Ins
         /\ Content(agent_msg) \subseteq Ins /\ final_text \subseteq Finals
         /\ Contents(outbound) \subseteq Outs
         /\ Content(agent_out) \subseteq Outs /\ Content(disp_msg) \subseteq Outs
         /\ Ins \cap Outs = {} /\ Ins \cap Finals = {} /\ Outs \cap Finals = {}
  <1>1. \A m \in InMsg : m.content \in Ins
    BY DEF InMsg, MessageWith, Ins
  <1>2. \A m \in OutMsg : m.content \in Outs
    BY DEF OutMsg, MessageWith, Outs
  <1>3. \A q \in Seq(InMsg) : Contents(q) \subseteq Ins
    BY <1>1, ElementOfSeq DEF Contents
  <1>4. \A q \in Seq(OutMsg) : Contents(q) \subseteq Outs
    BY <1>2, ElementOfSeq DEF Contents
  <1>5. Ins \cap Outs = {} /\ Ins \cap Finals = {} /\ Outs \cap Finals = {}
    BY DEF Ins, Outs, Finals
  <1> QED BY <1>1, <1>2, <1>3, <1>4, <1>5 DEF TypeOK, HttpdOwns, Content, Finals

LEMMA AboutContent ==
  /\ \A m \in InMsg  : m.content = <<"in", About(m)>> /\ About(m) \in Requests
  /\ \A m \in OutMsg : m.content = <<"out", About(m)>> /\ About(m) \in Requests
  BY DEF InMsg, OutMsg, MessageWith, About

LEMMA PostOwnership ==
  ASSUME IInv, NEW r \in Requests, PostDiscord(r) \/ PostLine(r)
  PROVE  Ownership' /\ NoAnswerYet' /\ FinalText'
  <1> USE DEF busVars, httpdVars, agentVars
  <1>1. PICK chan \in {"discord", "line"}, pc \in {"idle", "reply"} :
           /\ TakeIn(r, chan, pc) /\ httpd_pc = "idle" /\ Fresh(r)
           /\ UNCHANGED <<busVars, agentVars, disp_msg>>
    BY DEF PostDiscord, PostLine
  <1>2. /\ TypeOK /\ NoLeakNoDangling /\ SingleOwner /\ NoAnswerYet /\ FinalText
        /\ HttpdOwns = {}
    BY <1>1 DEF IInv, Ownership, HttpdOwns
  <1>3. FinalText' /\ UNCHANGED <<Contents(inbound), AgentOwns, Content(agent_out),
                                  Contents(outbound), Content(disp_msg)>>
    BY <1>1, <1>2 DEF FinalText, Contents, AgentOwns, Content
  <1>4. CASE httpd_pc' # "push"
    <2>1. HttpdOwns' = {} /\ UNCHANGED heap
      BY <1>1, <1>4 DEF TakeIn, HttpdOwns
    <2> QED
      BY <1>1, <1>2, <1>3, <2>1
      DEF Ownership, NoLeakNoDangling, SingleOwner, NoneTwice, NoAnswerYet, Unanswered
  <1>5. CASE httpd_pc' = "push"
    <2>1. HttpdOwns' = {<<"in", r>>} /\ heap' = heap \cup {<<"in", r>>}
      BY <1>1, <1>5, IncomingType, NoMsgIsNoMessage DEF TakeIn, HttpdOwns, Content
    <2>2. <<"in", r>> \notin heap /\ <<"out", r>> \notin heap
      BY <1>1 DEF Fresh
    <2>3. NoLeakNoDangling'
      BY <1>2, <1>3, <2>1 DEF NoLeakNoDangling
    <2>4. SingleOwner'
      BY <1>1, <1>2, <1>3, <2>1, <2>2 DEF NoLeakNoDangling, SingleOwner, NoneTwice
    <2>5. NoAnswerYet'
      <3>1. Unanswered' = Unanswered \cup {<<"in", r>>}
        BY <1>1, <1>2, <1>3, <2>1 DEF Unanswered
      <3> QED BY <1>2, <2>1, <2>2, <3>1 DEF NoAnswerYet
    <2> QED BY <1>3, <2>3, <2>4, <2>5 DEF Ownership
  <1> QED BY <1>4, <1>5

LEMMA HttpdOwnership ==
  ASSUME IInv, HttpdPush \/ HttpdPushFails \/ HttpdReply
  PROVE  Ownership' /\ NoAnswerYet' /\ FinalText'
  <1> USE DEF busVars, httpdVars, agentVars
  <1>1. TypeOK /\ NoLeakNoDangling /\ SingleOwner /\ NoAnswerYet /\ FinalText
    BY DEF IInv, Ownership
  <1>2. CASE HttpdReply
    <2>1. UNCHANGED <<HttpdOwns, Contents(inbound), AgentOwns, Content(agent_out),
                      Contents(outbound), Content(disp_msg), Unanswered, heap>>
      BY <1>2 DEF HttpdReply, HttpdOwns, Contents, AgentOwns, Content, Unanswered
    <2> QED
      BY <1>1, <1>2, <2>1 DEF HttpdReply, Ownership, NoLeakNoDangling, SingleOwner,
                              NoneTwice, NoAnswerYet, FinalText
  <1>3. CASE HttpdPush
    <2>1. /\ httpd_msg \in InMsg /\ HttpdOwns = {httpd_msg.content} /\ HttpdOwns' = {}
      BY <1>1, <1>3, NoMsgIsNoMessage DEF HttpdPush, TypeOK, HttpdOwns, Content, LeavePush
    <2>2. /\ Contents(inbound)' = Contents(inbound) \cup {httpd_msg.content}
          /\ NoneTwice(inbound)'
      BY <1>1, <1>3, <2>1, PushedContents
      DEF HttpdPush, PushInbound, TypeOK, SingleOwner
    <2>3. UNCHANGED <<AgentOwns, Content(agent_out), Contents(outbound),
                      Content(disp_msg), heap, Unanswered>> /\ FinalText'
      BY <1>1, <1>3, <2>1, <2>2 DEF HttpdPush, Contents, AgentOwns, Content, Unanswered, FinalText
    <2>4. NoLeakNoDangling'
      BY <1>1, <2>1, <2>2, <2>3 DEF NoLeakNoDangling
    <2>5. SingleOwner'
      BY <1>1, <1>3, <2>1, <2>2, <2>3 DEF HttpdPush, SingleOwner, NoneTwice
    <2> QED
      BY <1>1, <2>3, <2>4, <2>5 DEF Ownership, NoAnswerYet
  <1>4. CASE HttpdPushFails
    <2>1. /\ httpd_msg \in InMsg /\ HttpdOwns = {httpd_msg.content} /\ HttpdOwns' = {}
          /\ heap' = heap \ HttpdOwns
      BY <1>1, <1>4, NoMsgIsNoMessage DEF HttpdPushFails, TypeOK, HttpdOwns, Content, LeavePush
    <2>2. UNCHANGED <<Contents(inbound), AgentOwns, Content(agent_out), Contents(outbound),
                      Content(disp_msg)>> /\ FinalText'
      BY <1>1, <1>4 DEF HttpdPushFails, PushInboundFails, Contents, AgentOwns, Content, FinalText
    <2>3. NoLeakNoDangling'
      BY <1>1, <2>1, <2>2, Kinds DEF NoLeakNoDangling, SingleOwner
    <2>4. SingleOwner'
      BY <1>1, <1>4, <2>1, <2>2 DEF HttpdPushFails, PushInboundFails, SingleOwner, NoneTwice
    <2>5. NoAnswerYet'
      BY <1>1, <1>4, <2>1, <2>2 DEF HttpdPushFails, NoAnswerYet, Unanswered, Content
    <2> QED BY <2>2, <2>3, <2>4, <2>5 DEF Ownership
  <1> QED BY <1>2, <1>3, <1>4

LEMMA AgentOwnership ==
  ASSUME IInv, Agent
  PROVE  Ownership' /\ NoAnswerYet' /\ FinalText'
  <1> USE DEF busVars, httpdVars, agentVars
  <1>1. TypeOK /\ NoLeakNoDangling /\ SingleOwner /\ NoAnswerYet /\ FinalText
    BY DEF IInv, Ownership
  <1>2. CASE AgentPop
    <2>1. /\ inbound \in Seq(InMsg) /\ inbound # <<>> /\ agent_msg = NoMsg /\ final_text = {}
          /\ agent_msg' = Head(inbound) /\ inbound' = Tail(inbound)
      BY <1>1, <1>2 DEF AgentPop, PopInbound, TypeOK, FinalText
    <2>2. /\ Contents(inbound) = Contents(inbound)' \cup {agent_msg'.content}
          /\ agent_msg'.content \notin Contents(inbound)' /\ NoneTwice(inbound)'
          /\ agent_msg' \in InMsg
      BY <1>1, <2>1, PoppedContents DEF SingleOwner
    <2>3. AgentOwns = {} /\ AgentOwns' = {agent_msg'.content}
      BY <1>2, <2>1, <2>2, NoMsgIsNoMessage DEF AgentPop, AgentOwns, Content
    <2>4. UNCHANGED <<HttpdOwns, Content(agent_out), Contents(outbound),
                      Content(disp_msg), heap>> /\ FinalText'
      BY <1>2, <2>1 DEF AgentPop, HttpdOwns, Contents, Content, FinalText
    <2>5. Unanswered' = Unanswered
      BY <1>2, <2>1, <2>2, <2>3, <2>4 DEF AgentPop, Unanswered, Content, AgentOwns
    <2>6. NoLeakNoDangling' /\ NoAnswerYet'
      BY <1>1, <2>2, <2>3, <2>4, <2>5 DEF NoLeakNoDangling, NoAnswerYet
    <2>7. SingleOwner'
      BY <1>1, <1>2, <2>2, <2>3, <2>4 DEF AgentPop, SingleOwner, NoneTwice
    <2> QED BY <2>4, <2>6, <2>7 DEF Ownership
  <1>3. CASE AgentThink
    <2>1. agent_msg \in InMsg /\ final_text = {} /\ final_text' \subseteq Finals
          /\ heap' = heap \cup final_text'
      BY <1>1, <1>3, AboutContent DEF AgentThink, TypeOK, FinalText, Finals
    <2>2. /\ AgentOwns' = AgentOwns \cup final_text'
          /\ UNCHANGED <<HttpdOwns, Contents(inbound), Content(agent_out), Contents(outbound),
                         Content(disp_msg), Unanswered>> /\ FinalText'
      BY <1>3, <2>1 DEF AgentThink, HttpdOwns, Contents, Content, AgentOwns, FinalText, Unanswered
    <2>3. NoLeakNoDangling'
      BY <1>1, <2>1, <2>2 DEF NoLeakNoDangling
    <2>4. SingleOwner'
      BY <1>1, <1>3, <2>1, <2>2, Kinds DEF AgentThink, SingleOwner, NoneTwice
    <2>5. NoAnswerYet'
      BY <1>1, <2>1, <2>2, Kinds DEF NoAnswerYet, Finals
    <2> QED BY <2>2, <2>3, <2>4, <2>5 DEF Ownership
  <1>4. CASE AgentRespond
    <2>1. agent_msg \in InMsg /\ agent_out = NoMsg /\ agent_msg # NoMsg
      BY <1>1, <1>4 DEF AgentRespond, TypeOK
    <2>2. /\ UNCHANGED <<HttpdOwns, Contents(inbound), AgentOwns, Contents(outbound),
                         Content(disp_msg)>> /\ FinalText'
          /\ Unanswered' = HttpdOwns \cup Contents(inbound)
      BY <1>1, <1>4 DEF AgentRespond, AfterPush, HttpdOwns, Contents, Content, AgentOwns, FinalText,
                        Unanswered
    <2>3. CASE UNCHANGED <<agent_out, heap>>
      <3>1. NoLeakNoDangling' /\ SingleOwner'
        BY <1>1, <1>4, <2>2, <2>3
        DEF AgentRespond, NoLeakNoDangling, SingleOwner, NoneTwice, Content
      <3>2. NoAnswerYet'
        BY <1>1, <2>2, <2>3 DEF NoAnswerYet, Unanswered
      <3> QED BY <2>2, <3>1, <3>2 DEF Ownership
    <2>4. ASSUME agent_out' = Reply(agent_msg), heap' = heap \cup {agent_out'.content}
          PROVE  Ownership' /\ NoAnswerYet'
      <3> DEFINE r == About(agent_msg)
      <3>1. /\ r \in Requests /\ agent_msg.content = <<"in", r>>
            /\ agent_out'.content = <<"out", r>>
        BY <2>1, <2>4, ReplyType, AboutContent
      <3>2. Content(agent_out) = {} /\ Content(agent_out)' = {<<"out", r>>}
        BY <2>1, <2>4, <3>1, ReplyType, NoMsgIsNoMessage DEF Content
      <3>3. <<"in", r>> \in Unanswered /\ <<"in", r>> \in AgentOwns
        BY <1>4, <2>1, <3>1 DEF AgentRespond, Unanswered, Content, AgentOwns
      <3> HIDE DEF r
      <3>4. <<"out", r>> \notin heap
        BY <1>1, <3>1, <3>3 DEF NoAnswerYet
      <3>5. NoLeakNoDangling'
        BY <1>1, <2>2, <2>4, <3>1, <3>2 DEF NoLeakNoDangling
      <3>6. SingleOwner'
        BY <1>1, <1>4, <2>2, <3>2, <3>4 DEF AgentRespond, SingleOwner, NoneTwice, NoLeakNoDangling
      <3>7. <<"in", r>> \notin Unanswered'
        BY <1>1, <2>2, <3>3 DEF SingleOwner
      <3>8. Unanswered' \subseteq Unanswered
        BY <2>2 DEF Unanswered
      <3>9. NoAnswerYet'
        BY <1>1, <2>4, <3>1, <3>7, <3>8 DEF NoAnswerYet
      <3> QED BY <3>5, <3>6, <3>9 DEF Ownership
    <2> QED BY <1>4, <2>2, <2>3, <2>4 DEF AgentRespond
  <1>5. CASE AgentPush
    <2>1. /\ agent_out \in OutMsg /\ agent_out # NoMsg /\ outbound \in Seq(OutMsg)
          /\ outbound' = Append(outbound, agent_out) /\ agent_out' = NoMsg
      BY <1>1, <1>5 DEF AgentPush, PushOutbound, TypeOK
    <2>2. Content(agent_out) = {agent_out.content} /\ Content(agent_out)' = {}
      BY <2>1 DEF Content
    <2>3. Contents(outbound)' = Contents(outbound) \cup {agent_out.content} /\ NoneTwice(outbound)'
      BY <1>1, <2>1, <2>2, PushedContents DEF SingleOwner
    <2>4. UNCHANGED <<HttpdOwns, Contents(inbound), AgentOwns, Content(disp_msg), heap>>
          /\ FinalText' /\ Unanswered' \subseteq Unanswered
      BY <1>1, <1>5
      DEF AgentPush, AfterPush, HttpdOwns, Contents, AgentOwns, Content, FinalText, Unanswered
    <2>5. NoLeakNoDangling' /\ NoAnswerYet'
      BY <1>1, <2>2, <2>3, <2>4 DEF NoLeakNoDangling, NoAnswerYet
    <2>6. SingleOwner'
      BY <1>1, <1>5, <2>2, <2>3, <2>4 DEF AgentPush, SingleOwner, NoneTwice
    <2> QED BY <2>4, <2>5, <2>6 DEF Ownership
  <1>6. CASE AgentPushFails
    <2>1. /\ agent_out # NoMsg /\ heap' = heap \ Content(agent_out) /\ Content(agent_out)' = {}
      BY <1>1, <1>6 DEF AgentPushFails, TypeOK, Content
    <2>2. UNCHANGED <<HttpdOwns, Contents(inbound), AgentOwns, Contents(outbound),
                      Content(disp_msg)>> /\ FinalText' /\ Unanswered' \subseteq Unanswered
      BY <1>1, <1>6
      DEF AgentPushFails, AfterPush, PushOutboundFails, HttpdOwns, Contents, AgentOwns, Content,
                  FinalText, Unanswered
    <2>3. NoLeakNoDangling' /\ NoAnswerYet'
      BY <1>1, <2>1, <2>2, Kinds DEF NoLeakNoDangling, NoAnswerYet, AgentOwns, SingleOwner
    <2>4. SingleOwner'
      BY <1>1, <1>6, <2>1, <2>2 DEF AgentPushFails, PushOutboundFails, SingleOwner, NoneTwice
    <2> QED BY <2>2, <2>3, <2>4 DEF Ownership
  <1>7. CASE AgentCleanup
    <2>1. heap' = heap \ AgentOwns /\ AgentOwns' = {} /\ agent_out = NoMsg
      BY <1>1, <1>7 DEF AgentCleanup, TypeOK, AgentOwns, Content
    <2>2. UNCHANGED <<HttpdOwns, Contents(inbound), Content(agent_out), Contents(outbound),
                      Content(disp_msg)>> /\ FinalText' /\ Unanswered' \subseteq Unanswered
      BY <1>7 DEF AgentCleanup, HttpdOwns, Contents, AgentOwns, Content, FinalText, Unanswered
    <2>3. NoLeakNoDangling' /\ NoAnswerYet'
      BY <1>1, <2>1, <2>2, Kinds DEF NoLeakNoDangling, NoAnswerYet, AgentOwns, SingleOwner
    <2>4. SingleOwner'
      BY <1>1, <1>7, <2>1, <2>2 DEF AgentCleanup, SingleOwner, NoneTwice
    <2> QED BY <2>2, <2>3, <2>4 DEF Ownership
  <1>8. CASE AgentSummarise
    <2>1. UNCHANGED <<HttpdOwns, Contents(inbound), AgentOwns, Content(agent_out),
                      Contents(outbound), Content(disp_msg), heap, inbound, outbound>>
          /\ FinalText' /\ Unanswered' = Unanswered
      BY <1>1, <1>8 DEF AgentSummarise, HttpdOwns, Contents, AgentOwns, Content, FinalText,
                        Unanswered
    <2> QED BY <1>1, <2>1 DEF Ownership, NoLeakNoDangling, SingleOwner, NoneTwice, NoAnswerYet
  <1> QED BY <1>2, <1>3, <1>4, <1>5, <1>6, <1>7, <1>8 DEF Agent, ModelCalls, AgentRest

LEMMA DispatcherOwnership ==
  ASSUME IInv, Dispatcher
  PROVE  Ownership' /\ NoAnswerYet' /\ FinalText'
  <1> USE DEF busVars, httpdVars, agentVars
  <1>1. TypeOK /\ NoLeakNoDangling /\ SingleOwner /\ NoAnswerYet /\ FinalText
    BY DEF IInv, Ownership
  <1>2. UNCHANGED <<HttpdOwns, Contents(inbound), AgentOwns, Content(agent_out), Unanswered>>
        /\ FinalText' /\ UNCHANGED inbound
    BY <1>1 DEF Dispatcher, DispatchPop, Dispatch, HttpdOwns, Contents, AgentOwns, Content,
                FinalText, Unanswered
  <1>3. CASE DispatchPop
    <2>1. /\ outbound \in Seq(OutMsg) /\ outbound # <<>> /\ disp_msg = NoMsg
          /\ disp_msg' = Head(outbound) /\ outbound' = Tail(outbound) /\ UNCHANGED heap
      BY <1>1, <1>3 DEF DispatchPop, PopOutbound, TypeOK
    <2>2. /\ Contents(outbound) = Contents(outbound)' \cup {disp_msg'.content}
          /\ disp_msg'.content \notin Contents(outbound)' /\ NoneTwice(outbound)'
          /\ disp_msg' \in OutMsg
      BY <1>1, <2>1, PoppedContents DEF SingleOwner
    <2>3. Content(disp_msg) = {} /\ Content(disp_msg)' = {disp_msg'.content}
      BY <2>1, <2>2, NoMsgIsNoMessage DEF Content
    <2> QED
      BY <1>1, <1>2, <2>1, <2>2, <2>3
      DEF Ownership, NoLeakNoDangling, SingleOwner, NoneTwice, NoAnswerYet
  <1>4. CASE Dispatch
    <2>1. heap' = heap \ Content(disp_msg) /\ Content(disp_msg)' = {} /\ UNCHANGED outbound
      BY <1>4 DEF Dispatch, Content
    <2>2. Contents(outbound)' = Contents(outbound)
      BY <2>1 DEF Contents
    <2> QED
      BY <1>1, <1>2, <2>1, <2>2, Kinds
      DEF Ownership, NoLeakNoDangling, SingleOwner, NoneTwice, NoAnswerYet, AgentOwns
  <1> QED BY <1>3, <1>4 DEF Dispatcher

LEMMA NextOwnership ==
  ASSUME IInv, [Next]_vars
  PROVE  IInv'
  <1>1. TypeOK /\ TypeOK'
    BY NextType DEF IInv
  <1> SUFFICES Ownership' /\ NoAnswerYet' /\ FinalText'
    BY <1>1 DEF IInv
  <1>2. ASSUME UNCHANGED <<busVars, agentVars, httpdVars, disp_msg, heap>>
        PROVE  Ownership' /\ NoAnswerYet' /\ FinalText'
    <2> USE DEF busVars, agentVars, httpdVars
    <2>1. UNCHANGED <<HttpdOwns, Contents(inbound), AgentOwns, Content(agent_out),
                      Contents(outbound), Content(disp_msg), Unanswered, heap>>
      BY <1>2 DEF HttpdOwns, Contents, AgentOwns, Content, Unanswered
    <2>2. UNCHANGED <<inbound, outbound>> /\ FinalText'
      BY <1>2 DEF IInv, FinalText
    <2> QED
      BY <2>1, <2>2 DEF IInv, Ownership, NoLeakNoDangling, SingleOwner, NoneTwice, NoAnswerYet
  <1>3. ASSUME NEW r \in Requests, PostOther(r)
        PROVE  Ownership' /\ NoAnswerYet' /\ FinalText'
    <2>1. UNCHANGED <<busVars, agentVars, httpdVars, disp_msg, heap>>
      BY <1>3 DEF PostOther
    <2> QED BY <1>2, <2>1
  <1>4. CASE UNCHANGED vars
    <2>1. UNCHANGED <<busVars, agentVars, httpdVars, disp_msg, heap>>
      BY <1>4 DEF vars
    <2> QED BY <1>2, <2>1
  <1>5. CASE Post
    BY <1>3, <1>5, PostOwnership DEF Post
  <1>6. CASE Httpd
    BY <1>6, HttpdOwnership DEF Httpd
  <1> QED
    BY <1>4, <1>5, <1>6, AgentOwnership, DispatcherOwnership DEF Next

(* No message text is ever leaked, freed twice or used after its free, for *)
(* every queue length and every set of posts: the live blocks are exactly  *)
(* those that one task or one queue entry is still to free.                *)
THEOREM TextIsOwned == Spec => []Ownership
  <1>1. IInv /\ [Next]_vars => IInv'
    BY NextOwnership
  <1>2. IInv => Ownership
    BY DEF IInv
  <1> QED BY InitOwnership, <1>1, <1>2, PTL DEF Spec

----------------------------------------------------------------------------
(* Answers and tokens.  Every message on its way carries the token of its  *)
(* own post (or a cut one, which names no post), and a Discord message is  *)
(* on its way only when the deferred response is out.                      *)

Held(m) == IF m = NoMsg THEN {} ELSE {m}
Queued(q) == {q[i] : i \in 1..Len(q)}

Carried == UNION {IF httpd_pc = "push" THEN Held(httpd_msg) ELSE {}, Queued(inbound),
                  Held(agent_msg), Held(agent_out), Queued(outbound), Held(disp_msg)}

OwnToken    == \A m \in Carried : m.meta \in {About(m), CutToken}
DeferredOut == \A m \in Carried : m.chan = "discord" => About(m) \in replied

TokenInv == IInv /\ OwnToken /\ DeferredOut /\ NoMisdirected

LEMMA PushedQueue ==
  ASSUME NEW S, NEW q \in Seq(S), NEW m \in S
  PROVE  Queued(Append(q, m)) = Queued(q) \cup {m}
  <1> DEFINE p == Append(q, m)
  <1>1. /\ Len(p) = Len(q) + 1 /\ Len(q) \in Nat /\ p[Len(q) + 1] = m
        /\ \A i \in 1..Len(q) : p[i] = q[i]
    BY AppendProperties, LenProperties
  <1> HIDE DEF p
  <1>2. 1..Len(p) = 1..Len(q) \cup {Len(q) + 1}
    BY <1>1
  <1>3. Queued(p) = Queued(q) \cup {m}
    BY <1>1, <1>2 DEF Queued
  <1> QED BY <1>3 DEF p

LEMMA PoppedQueue ==
  ASSUME NEW S, NEW q \in Seq(S), q # <<>>
  PROVE  Queued(Tail(q)) \subseteq Queued(q) /\ Head(q) \in Queued(q)
  <1> DEFINE t == Tail(q)
  <1>1. /\ Head(q) = q[1] /\ Len(t) = Len(q) - 1 /\ Len(q) \in Nat \ {0}
        /\ \A i \in 1..Len(t) : t[i] = q[i + 1]
    BY HeadTailProperties, EmptySeq
  <1> HIDE DEF t
  <1>2. Queued(t) \subseteq Queued(q) /\ Head(q) \in Queued(q)
    BY <1>1 DEF Queued
  <1> QED BY <1>2 DEF t

(* A carried message is a message, and its text is live. *)
LEMMA CarriedIsLive ==
  ASSUME IInv
  PROVE  \A m \in Carried : /\ About(m) \in Requests
                            /\ \E k \in {"in", "out"} : <<k, About(m)>> \in heap
  <1> SUFFICES ASSUME NEW m \in Carried
               PROVE  /\ About(m) \in Requests
                      /\ \E k \in {"in", "out"} : <<k, About(m)>> \in heap
    OBVIOUS
  <1>1. TypeOK /\ NoLeakNoDangling
    BY DEF IInv, Ownership
  <1>2. m \in InMsg \cup OutMsg
    BY <1>1, ElementOfSeq DEF TypeOK, Carried, Held, Queued
  <1>3. m.content \in heap
    BY <1>1 DEF NoLeakNoDangling, Carried, Held, Queued, HttpdOwns, AgentOwns, Content, Contents
  <1> QED BY <1>2, <1>3, AboutContent

(* Who is carried after a step. *)
LEMMA NextCarried ==
  ASSUME TypeOK, Httpd \/ Agent \/ Dispatcher
  PROVE  Carried' \subseteq Carried \cup (IF AgentRespond THEN {Reply(agent_msg)} ELSE {})
  <1> USE DEF TypeOK, busVars, httpdVars, agentVars, Carried, Held
  <1>1. CASE HttpdPush
    BY <1>1, PushedQueue DEF HttpdPush, PushInbound, LeavePush
  <1>2. CASE HttpdPushFails \/ HttpdReply
    BY <1>2 DEF HttpdPushFails, PushInboundFails, LeavePush, HttpdReply
  <1>3. CASE AgentPop
    BY <1>3, PoppedQueue DEF AgentPop, PopInbound
  <1>4. CASE AgentThink \/ AgentPushFails \/ AgentSummarise \/ AgentCleanup
    BY <1>4 DEF AgentThink, AgentSummarise, AgentPushFails, PushOutboundFails, AgentCleanup
  <1>5. CASE AgentRespond
    BY <1>5 DEF AgentRespond
  <1>6. CASE AgentPush
    BY <1>6, PushedQueue DEF AgentPush, PushOutbound
  <1>7. CASE DispatchPop
    BY <1>7, PoppedQueue DEF DispatchPop, PopOutbound
  <1>8. CASE Dispatch
    BY <1>8 DEF Dispatch
  <1> QED BY <1>1, <1>2, <1>3, <1>4, <1>5, <1>6, <1>7, <1>8 DEF Httpd, Agent, ModelCalls, AgentRest, Dispatcher

(* What each step does to outcome: only a follow-up that lands answers.    *)
LEMMA InitToken == Init => TokenInv
  <1> SUFFICES ASSUME Init PROVE TokenInv
    OBVIOUS
  <1>1. Carried = {}
    BY DEF Init, BusInit, Carried, Held, Queued
  <1> QED BY <1>1, InitOwnership DEF TokenInv, OwnToken, DeferredOut, NoMisdirected, Init

LEMMA PostToken ==
  ASSUME TokenInv, NEW r \in Requests, PostDiscord(r) \/ PostLine(r)
  PROVE  OwnToken' /\ DeferredOut' /\ NoMisdirected'
  <1> USE DEF busVars, httpdVars, agentVars
  <1>1. PICK chan \in {"discord", "line"}, pc \in {"idle", "reply"} :
           /\ TakeIn(r, chan, pc) /\ httpd_pc = "idle" /\ Fresh(r)
           /\ UNCHANGED <<busVars, agentVars, disp_msg>>
           /\ chan = "discord" => r \in replied'
           /\ replied' \in {replied \cup {r}, replied \ {r}}
    BY DEF PostDiscord, PostLine
  <1>2. Carried' \subseteq Carried \cup {Incoming(r, chan)}
    BY <1>1 DEF Carried, Held, TakeIn
  <1>3. \A m \in Carried : About(m) # r
    BY <1>1, CarriedIsLive DEF TokenInv, Fresh
  <1>4. LET m == Incoming(r, chan)
        IN  About(m) = r /\ m.meta \in {r, CutToken} /\ m.chan = chan
    BY DEF Incoming, About
  <1>5. OwnToken' /\ DeferredOut'
    BY <1>1, <1>2, <1>3, <1>4 DEF TokenInv, OwnToken, DeferredOut
  <1>6. NoMisdirected'
    BY <1>1 DEF TokenInv, IInv, TypeOK, TakeIn, Settle, NoMisdirected
  <1> QED BY <1>5, <1>6

LEMMA TaskToken ==
  ASSUME TokenInv, Httpd \/ Agent \/ Dispatcher
  PROVE  /\ OwnToken' /\ DeferredOut' /\ NoMisdirected'
         /\ \A r \in Requests : outcome'[r] = "answered" /\ outcome[r] # "answered"
              => disp_msg # NoMsg /\ About(disp_msg) = r
  <1> USE DEF busVars, httpdVars, agentVars
  <1>1. TypeOK /\ OwnToken /\ DeferredOut /\ NoMisdirected
    BY DEF TokenInv, IInv
  <1>2. replied \subseteq replied'
    BY DEF Httpd, HttpdPush, HttpdPushFails, HttpdReply, Dispatcher, DispatchPop, Dispatch,
           Agent, ModelCalls, AgentRest, AgentPop, AgentThink, AgentRespond, AgentPush,
           AgentPushFails, AfterPush, AgentSummarise, AgentCleanup
  <1>3. OwnToken' /\ DeferredOut'
    <2>1. CASE AgentRespond
      <3>1. agent_msg \in Carried
        BY <1>1, <2>1 DEF AgentRespond, AfterPush, TypeOK, Carried, Held
      <3>2. LET m == Reply(agent_msg)
            IN  About(m) = About(agent_msg) /\ m.meta = agent_msg.meta /\ m.chan = agent_msg.chan
        BY DEF Reply, About
      <3> QED BY <1>1, <1>2, <2>1, <3>1, <3>2, NextCarried DEF OwnToken, DeferredOut
    <2>2. CASE ~AgentRespond
      BY <1>1, <1>2, <2>2, NextCarried DEF OwnToken, DeferredOut
    <2> QED BY <2>1, <2>2
  <1>4. ASSUME NEW r \in Requests
        PROVE  /\ outcome'[r] # "misdirected"
               /\ outcome'[r] = "answered" /\ outcome[r] # "answered"
                    => disp_msg # NoMsg /\ About(disp_msg) = r
    <2>1. CASE Dispatch
      <3>1. disp_msg # NoMsg /\ disp_msg.meta \in {About(disp_msg), CutToken}
        BY <1>1, <2>1 DEF Dispatch, OwnToken, Carried, Held
      <3>2. CASE FollowUpLands(disp_msg)
        BY <1>1, <3>1, <3>2, RequestAssumption
        DEF FollowUpLands, Settle, TypeOK, NoMisdirected
      <3>3. CASE FollowUpFails(disp_msg)
        BY <1>1, <3>3 DEF FollowUpFails, Settle, TypeOK, NoMisdirected
      <3> QED BY <2>1, <3>2, <3>3 DEF Dispatch
    <2>2. CASE UNCHANGED outcome \/ \E x \in Requests : Settle(x, "lost")
      BY <1>1, <2>2 DEF Settle, TypeOK, NoMisdirected
    <2>3. Dispatch \/ UNCHANGED outcome \/ Settle(About(httpd_msg), "lost")
                   \/ Settle(About(agent_msg), "lost")
      BY DEF Httpd, HttpdPush, HttpdPushFails, HttpdReply, Dispatcher, DispatchPop,
             Agent, ModelCalls, AgentRest, AgentPop, AgentThink, AgentRespond, AgentPush,
           AgentPushFails, AfterPush, AgentSummarise, AgentCleanup
    <2>4. ASSUME NEW x, Settle(x, "lost") PROVE outcome'[r] \in {outcome[r], "lost"}
      BY <1>1, <2>4 DEF Settle, TypeOK
    <2> QED BY <1>1, <2>1, <2>2, <2>3, <2>4 DEF NoMisdirected
  <1> QED BY <1>3, <1>4 DEF NoMisdirected

LEMMA NextToken ==
  ASSUME TokenInv, [Next]_vars
  PROVE  TokenInv'
  <1>1. IInv /\ IInv'
    BY NextOwnership DEF TokenInv
  <1> SUFFICES OwnToken' /\ DeferredOut' /\ NoMisdirected'
    BY <1>1 DEF TokenInv
  <1>2. CASE UNCHANGED vars
    BY <1>2 DEF vars, busVars, httpdVars, agentVars, TokenInv, OwnToken, DeferredOut,
                NoMisdirected, Carried, Held, Queued, About
  <1>3. ASSUME NEW r \in Requests, PostOther(r)
        PROVE  OwnToken' /\ DeferredOut' /\ NoMisdirected'
    <2>1. Carried' = Carried /\ replied \subseteq replied'
      BY <1>3 DEF PostOther, busVars, httpdVars, agentVars, Carried, Held, Queued
    <2>2. NoMisdirected'
      BY <1>1, <1>3 DEF PostOther, Settle, TokenInv, IInv, TypeOK, NoMisdirected
    <2> QED BY <2>1, <2>2 DEF TokenInv, OwnToken, DeferredOut
  <1>4. CASE Post
    BY <1>3, <1>4, PostToken DEF Post
  <1>5. CASE Httpd \/ Agent \/ Dispatcher
    BY <1>5, TaskToken
  <1> QED BY <1>2, <1>4, <1>5 DEF Next

(* No answer reaches the token of another post, however the HTTP server,   *)
(* the agent and the dispatcher interleave.                                *)
THEOREM AnswersStayWithTheirPost == Spec => []NoMisdirected
  <1>1. TokenInv /\ [Next]_vars => TokenInv'
    BY NextToken
  <1>2. TokenInv => NoMisdirected
    BY DEF TokenInv
  <1> QED BY InitToken, <1>1, <1>2, PTL DEF Spec

(* A follow-up lands on a Discord post only after the deferred response to *)
(* that post has gone out.                                                 *)
THEOREM DeferredResponseFirst == Spec => DeferredFirst
  <1>1. TokenInv /\ [Next]_vars => TokenInv'
    BY NextToken
  <1>2. ASSUME TokenInv, Next PROVE DeferredStep
    <2>1. TypeOK
      BY <1>2 DEF TokenInv, IInv
    <2>2. CASE Post
      BY <1>2, <2>1, <2>2 DEF Post, PostDiscord, PostLine, PostOther, TakeIn, Settle, TypeOK,
                              DeferredStep
    <2>3. CASE Httpd \/ Agent \/ Dispatcher
      <3>1. disp_msg # NoMsg => disp_msg \in Carried
        BY DEF Carried, Held
      <3> QED BY <1>2, <2>3, <3>1, TaskToken DEF TokenInv, DeferredOut, DeferredStep
    <2> QED BY <1>2, <2>2, <2>3 DEF Next
  <1>3. TokenInv /\ [Next]_vars => [DeferredStep]_vars
    BY <1>2
  <1> QED BY InitToken, <1>1, <1>3, PTL DEF Spec, DeferredFirst

----------------------------------------------------------------------------
(* The heap never holds more text than queues and tasks can own. *)

LEMMA QueueOwnsFew ==
  ASSUME NEW S, NEW q \in Seq(S)
  PROVE  IsFiniteSet(Contents(q)) /\ Cardinality(Contents(q)) <= Len(q)
  <1> DEFINE f == [i \in 1..Len(q) |-> q[i].content]
  <1>1. Len(q) \in Nat
    BY LenProperties
  <1>2. f \in Surjection(1..Len(q), Contents(q))
    BY DEF Surjection, Contents
  <1>3. IsFiniteSet(1..Len(q)) /\ Cardinality(1..Len(q)) = Len(q)
    BY <1>1, FS_Interval
  <1> QED BY <1>2, <1>3, FS_Surjection

LEMMA AtMostOne ==
  ASSUME NEW S, NEW x, S \subseteq {x}
  PROVE  IsFiniteSet(S) /\ Cardinality(S) <= 1
  <1>1. IsFiniteSet({}) /\ Cardinality({}) = 0
    BY FS_EmptySet
  <1>2. IsFiniteSet({x}) /\ Cardinality({x}) = 1
    BY FS_Singleton
  <1>3. CASE S = {}
    BY <1>1, <1>3
  <1>4. CASE S = {x}
    BY <1>2, <1>4
  <1> QED BY <1>3, <1>4

LEMMA TwoSets ==
  ASSUME NEW S, NEW T, IsFiniteSet(S), IsFiniteSet(T)
  PROVE  /\ IsFiniteSet(S \cup T)
         /\ Cardinality(S \cup T) <= Cardinality(S) + Cardinality(T)
         /\ Cardinality(S) \in Nat /\ Cardinality(T) \in Nat /\ Cardinality(S \cup T) \in Nat
  <1>1. /\ IsFiniteSet(S \cup T)
        /\ Cardinality(S \cup T) = Cardinality(S) + Cardinality(T) - Cardinality(S \cap T)
    BY FS_Union
  <1>2. IsFiniteSet(S \cap T)
    BY FS_Subset
  <1>3. Cardinality(S) \in Nat /\ Cardinality(T) \in Nat /\ Cardinality(S \cap T) \in Nat
    BY <1>2, FS_CardinalityType
  <1> QED BY <1>1, <1>3, FS_CardinalityType

(* Message text takes at most 2 * QueueLen + 5 blocks of heap at a time:   *)
(* one per place in the two queues, three for the agent (the text it       *)
(* answers, final_text and the copy it sends) and one for each other task. *)
THEOREM HeapIsBounded == Spec => []HeapBound
  <1>1. IInv /\ [Next]_vars => IInv'
    BY NextOwnership
  <1>2. ASSUME IInv PROVE HeapBound
    <2> DEFINE a == HttpdOwns \cup Contents(inbound)
               b == Content(agent_msg) \cup final_text
               c == Content(agent_out) \cup Contents(outbound)
               d == Content(disp_msg)
    <2>1. heap = (a \cup b) \cup (c \cup d)
      BY <1>2 DEF IInv, Ownership, NoLeakNoDangling, AgentOwns
    <2>2. /\ inbound \in Seq(InMsg) /\ outbound \in Seq(OutMsg)
          /\ Len(inbound) <= QueueLen /\ Len(outbound) <= QueueLen
          /\ QueueLen \in Nat /\ Len(inbound) \in Nat /\ Len(outbound) \in Nat
      BY <1>2, QueueLenAssumption, LenProperties DEF IInv, TypeOK
    <2>3. \A m : IsFiniteSet(Content(m)) /\ Cardinality(Content(m)) <= 1
      <3> SUFFICES ASSUME NEW m
                   PROVE  IsFiniteSet(Content(m)) /\ Cardinality(Content(m)) <= 1
        OBVIOUS
      <3>1. Content(m) \subseteq {m.content}
        BY DEF Content
      <3> QED BY <3>1, AtMostOne
    <2>4. IsFiniteSet(HttpdOwns) /\ Cardinality(HttpdOwns) <= 1
      <3>1. HttpdOwns \subseteq {httpd_msg.content}
        BY DEF HttpdOwns, Content
      <3> QED BY <3>1, AtMostOne
    <2>5. IsFiniteSet(final_text) /\ Cardinality(final_text) <= 1
      <3>1. final_text \subseteq {<<"final", About(agent_msg)>>}
        BY <1>2 DEF IInv, FinalText
      <3> QED BY <3>1, AtMostOne
    <2>6. /\ IsFiniteSet(Contents(inbound)) /\ Cardinality(Contents(inbound)) <= QueueLen
          /\ IsFiniteSet(Contents(outbound)) /\ Cardinality(Contents(outbound)) <= QueueLen
      <3>1. /\ IsFiniteSet(Contents(inbound)) /\ IsFiniteSet(Contents(outbound))
            /\ Cardinality(Contents(inbound)) <= Len(inbound)
            /\ Cardinality(Contents(outbound)) <= Len(outbound)
        BY <2>2, QueueOwnsFew
      <3>2. Cardinality(Contents(inbound)) \in Nat /\ Cardinality(Contents(outbound)) \in Nat
        BY <3>1, FS_CardinalityType
      <3> QED BY <2>2, <3>1, <3>2
    <2>7. IsFiniteSet(a) /\ Cardinality(a) \in Nat /\ Cardinality(a) <= 1 + QueueLen
      BY <2>2, <2>4, <2>6, TwoSets
    <2>8. IsFiniteSet(b) /\ Cardinality(b) \in Nat /\ Cardinality(b) <= 2
      BY <2>3, <2>5, TwoSets
    <2>9. IsFiniteSet(c) /\ Cardinality(c) \in Nat /\ Cardinality(c) <= 1 + QueueLen
      BY <2>2, <2>3, <2>6, TwoSets
    <2>10. IsFiniteSet(d) /\ Cardinality(d) \in Nat /\ Cardinality(d) <= 1
      BY <2>3, FS_CardinalityType
    <2> HIDE DEF a, b, c, d
    <2>11. /\ IsFiniteSet(a \cup b) /\ Cardinality(a \cup b) \in Nat
           /\ Cardinality(a \cup b) <= 3 + QueueLen
      BY <2>2, <2>7, <2>8, TwoSets
    <2>12. /\ IsFiniteSet(c \cup d) /\ Cardinality(c \cup d) \in Nat
           /\ Cardinality(c \cup d) <= 2 + QueueLen
      BY <2>2, <2>9, <2>10, TwoSets
    <2> QED BY <2>1, <2>2, <2>11, <2>12, TwoSets DEF HeapBound
  <1> QED BY InitOwnership, <1>1, <1>2, PTL DEF Spec

----------------------------------------------------------------------------
(* The waiting line of posts, and how the abstract service sees each step. *)
(*                                                                         *)
(* The line runs through five places, from the dispatcher back to the HTTP *)
(* handler.  A hand-over moves a post from the front of one place to the   *)
(* end of the next and leaves the line as it is; what TokenInv does not    *)
(* say, and the agent's push needs, is that the answer it queues is about  *)
(* the message it holds.                                                   *)

AgentLine == IF agent_pc \in {"think", "respond", "push"} THEN AsLine(agent_msg) ELSE <<>>
HttpdLine == IF httpd_pc = "push" THEN AsLine(httpd_msg) ELSE <<>>

AnswersItsMessage == agent_pc = "push" => About(agent_out) = About(agent_msg)

LineInv == TokenInv /\ AnswersItsMessage

LEMMA InitLine == Init => LineInv
  BY InitToken DEF LineInv, AnswersItsMessage, Init

LEMMA NextLine ==
  ASSUME LineInv, [Next]_vars
  PROVE  LineInv'
  <1> USE DEF busVars, httpdVars, agentVars
  <1>1. TokenInv'
    BY NextToken DEF LineInv
  <1>2. CASE AgentRespond
    <2>1. About(Reply(agent_msg)) = About(agent_msg)
      BY DEF Reply, About
    <2>2. agent_msg' = agent_msg /\ (agent_pc' = "push" => agent_out' = Reply(agent_msg))
      BY <1>2 DEF AgentRespond, AfterPush
    <2>3. agent_pc' = "push" => About(agent_out') = About(agent_msg')
      BY <2>1, <2>2
    <2> QED BY <1>1, <2>3 DEF LineInv, AnswersItsMessage
  <1>3. CASE ~AgentRespond
    <2>1. agent_pc' # "push" \/ UNCHANGED <<agent_pc, agent_msg, agent_out>>
      BY <1>3 DEF Next, Post, PostDiscord, PostLine, PostOther, Httpd, HttpdPush, HttpdPushFails,
                  HttpdReply, Agent, ModelCalls, AgentRest, AgentPop, AgentThink, AgentPush,
                  AgentPushFails, AfterPush, AgentSummarise, AgentCleanup,
                  Dispatcher, DispatchPop, Dispatch, vars
    <2>2. AnswersItsMessage
      BY DEF LineInv
    <2>3. agent_pc' = "push" => About(agent_out') = About(agent_msg')
      BY <2>1, <2>2 DEF AnswersItsMessage
    <2> QED BY <1>1, <2>3 DEF LineInv, AnswersItsMessage
  <1> QED BY <1>1, <1>2, <1>3 DEF LineInv

(* Sequences with a post in the middle, at the front or at the end. *)
LEMMA OneElement ==
  ASSUME NEW S, NEW x \in S
  PROVE  <<x>> \in Seq(S) /\ Len(<<x>>) = 1 /\ <<x>>[1] = x
  OBVIOUS

LEMMA TakeOutOfTheMiddle ==
  ASSUME NEW p \in Seq(Requests), NEW t \in Seq(Requests), NEW x \in Requests
  PROVE  /\ Len(p) + 1 \in DOMAIN ((p \o <<x>>) \o t)
         /\ ((p \o <<x>>) \o t)[Len(p) + 1] = x
         /\ Service!RemoveAt((p \o <<x>>) \o t, Len(p) + 1) = p \o t
  <1> SUFFICES ASSUME NEW w, w = (p \o <<x>>) \o t, NEW i, i = Len(p) + 1
               PROVE  i \in DOMAIN w /\ w[i] = x /\ Service!RemoveAt(w, i) = p \o t
    OBVIOUS
  <1> DEFINE px == p \o <<x>>
  <1>0. w = px \o t /\ i = Len(p) + 1
    OBVIOUS
  <1>1. /\ <<x>> \in Seq(Requests) /\ Len(<<x>>) = 1 /\ <<x>>[1] = x
        /\ Len(p) \in Nat /\ Len(t) \in Nat
    BY OneElement, LenProperties
  <1>2. /\ px \in Seq(Requests) /\ Len(px) = i
        /\ \A j \in 1..i : px[j] = IF j <= Len(p) THEN p[j] ELSE <<x>>[j - Len(p)]
    <2>1. /\ px \in Seq(Requests) /\ Len(px) = Len(p) + Len(<<x>>)
          /\ \A j \in 1..(Len(p) + Len(<<x>>)) :
               px[j] = IF j <= Len(p) THEN p[j] ELSE <<x>>[j - Len(p)]
      BY <1>1, ConcatProperties
    <2> HIDE DEF px
    <2> QED BY <1>1, <2>1
  <1>3. px[i] = x /\ \A j \in 1..Len(p) : px[j] = p[j]
    BY <1>1, <1>2
  <1> HIDE DEF px
  <1>4. /\ w \in Seq(Requests) /\ Len(w) = i + Len(t)
        /\ \A j \in 1..(i + Len(t)) : w[j] = IF j <= i THEN px[j] ELSE t[j - i]
    <2>1. /\ w \in Seq(Requests) /\ Len(w) = Len(px) + Len(t)
          /\ \A j \in 1..(Len(px) + Len(t)) : w[j] = IF j <= Len(px) THEN px[j] ELSE t[j - Len(px)]
      BY <1>0, <1>2, ConcatProperties
    <2> QED BY <1>2, <2>1
  <1>5. w[i] = x /\ (\A j \in 1..Len(p) : w[j] = p[j]) /\ \A j \in 1..Len(t) : w[i + j] = t[j]
    BY <1>1, <1>3, <1>4
  <1>6. i \in DOMAIN w
    BY <1>1, <1>4, LenProperties
  <1>7. SubSeq(w, 1, i - 1) = p
    <2> DEFINE u == SubSeq(w, 1, i - 1)
    <2>1. \A j \in 1..(i - 1) : w[j] \in Requests
      BY <1>1, <1>4, ElementOfSeq
    <2>2. /\ u \in Seq(Requests) /\ Len(u) = Len(p)
          /\ \A j \in 1..Len(p) : u[j] = p[j]
      <3>1. /\ u \in Seq(Requests)
            /\ Len(u) = IF 1 <= i - 1 THEN (i - 1) - 1 + 1 ELSE 0
            /\ \A j \in 1..((i - 1) - 1 + 1) : u[j] = w[1 + j - 1]
        BY <1>1, <2>1, SubSeqProperties
      <3> HIDE DEF u
      <3> QED BY <1>1, <1>5, <3>1
    <2> HIDE DEF u
    <2>3. u = p
      BY <2>2, SeqEqual
    <2> QED BY <2>3 DEF u
  <1>8. SubSeq(w, i + 1, Len(w)) = t
    <2> DEFINE u == SubSeq(w, i + 1, Len(w))
    <2>1. \A j \in (i + 1)..Len(w) : w[j] \in Requests
      BY <1>1, <1>4, ElementOfSeq
    <2>2. /\ u \in Seq(Requests) /\ Len(u) = Len(t)
          /\ \A j \in 1..Len(t) : u[j] = t[j]
      <3>1. /\ u \in Seq(Requests)
            /\ Len(u) = IF i + 1 <= Len(w) THEN Len(w) - (i + 1) + 1 ELSE 0
            /\ \A j \in 1..(Len(w) - (i + 1) + 1) : u[j] = w[i + 1 + j - 1]
        BY <1>1, <1>4, <2>1, SubSeqProperties
      <3> HIDE DEF u
      <3>2. Len(w) - (i + 1) + 1 = Len(t) /\ Len(u) = Len(t)
        BY <1>1, <1>4, <3>1
      <3>3. \A j \in 1..Len(t) : i + 1 + j - 1 = i + j
        BY <1>1
      <3> QED BY <1>5, <3>1, <3>2, <3>3
    <2> HIDE DEF u
    <2>3. u = t
      BY <2>2, SeqEqual
    <2> QED BY <2>3 DEF u
  <1>9. Service!RemoveAt(w, i) = p \o t
    BY <1>7, <1>8 DEF Service!RemoveAt
  <1> QED BY <1>5, <1>6, <1>9

LEMMA FrontAndRest ==
  ASSUME NEW S, NEW t \in Seq(S), NEW x \in S
  PROVE  <<x>> \o t # <<>> /\ Head(<<x>> \o t) = x /\ Tail(<<x>> \o t) = t
  <1> DEFINE w == <<x>> \o t
             r == Tail(w)
  <1>1. <<x>> \in Seq(S) /\ Len(<<x>>) = 1 /\ <<x>>[1] = x /\ Len(t) \in Nat
    BY OneElement, LenProperties
  <1>2. /\ w \in Seq(S) /\ Len(w) = 1 + Len(t)
        /\ \A j \in 1..(1 + Len(t)) : w[j] = IF j <= 1 THEN <<x>>[j] ELSE t[j - 1]
    BY <1>1, ConcatProperties
  <1> HIDE DEF w
  <1>3. w # <<>> /\ Head(w) = x
    BY <1>1, <1>2, EmptySeq
  <1>4. /\ r \in Seq(S) /\ Len(r) = Len(t) /\ \A j \in 1..Len(r) : r[j] = w[j + 1]
    BY <1>1, <1>2, <1>3, HeadTailProperties
  <1> HIDE DEF r
  <1>5. \A j \in 1..Len(r) : r[j] = t[j]
    <2>1. ASSUME NEW j \in 1..Len(r) PROVE r[j] = t[j]
      <3>1. j + 1 \in 1..(1 + Len(t)) /\ ~(j + 1 <= 1) /\ (j + 1) - 1 = j
        BY <1>1, <1>2, <1>4
      <3>2. w[j + 1] = t[(j + 1) - 1]
        BY <1>2, <3>1
      <3> QED BY <1>4, <3>1, <3>2
    <2> QED BY <2>1
  <1>6. r = t
    BY <1>4, <1>5, SeqEqual
  <1> QED BY <1>3, <1>6 DEF w, r

(* What a push and a pop do to the posts a queue holds. *)
LEMMA LineOfQueue ==
  ASSUME NEW S \in {InMsg, OutMsg}, NEW q \in Seq(S)
  PROVE  /\ Line(q) \in Seq(Requests)
         /\ \A m \in S : Line(Append(q, m)) = Line(q) \o <<About(m)>>
         /\ q # <<>> => Line(q) = <<About(Head(q))>> \o Line(Tail(q))
  <1>0. \A m \in S : About(m) \in Requests
    BY AboutContent
  <1>1. \A z \in Seq(S) : /\ Line(z) \in Seq(Requests) /\ Len(Line(z)) = Len(z)
                          /\ \A i \in 1..Len(z) : Line(z)[i] = About(z[i])
    <2> SUFFICES ASSUME NEW z \in Seq(S)
                 PROVE  /\ Line(z) \in Seq(Requests) /\ Len(Line(z)) = Len(z)
                        /\ \A i \in 1..Len(z) : Line(z)[i] = About(z[i])
      OBVIOUS
    <2>1. Len(z) \in Nat /\ \A i \in 1..Len(z) : About(z[i]) \in Requests
      BY <1>0, LenProperties, ElementOfSeq
    <2>2. Line(z) \in [1..Len(z) -> Requests] /\ \A i \in 1..Len(z) : Line(z)[i] = About(z[i])
      BY <2>1 DEF Line
    <2>3. Line(z) \in Seq(Requests)
      BY <2>1, <2>2, SeqDef
    <2> QED BY <2>1, <2>2, <2>3, LenProperties
  <1>2. ASSUME NEW m \in S
        PROVE  Line(Append(q, m)) = Line(q) \o <<About(m)>>
    <2> DEFINE p == Append(q, m)
               w == Line(q) \o <<About(m)>>
    <2>1. /\ p \in Seq(S) /\ Len(p) = Len(q) + 1 /\ p[Len(q) + 1] = m /\ Len(q) \in Nat
          /\ \A i \in 1..Len(q) : p[i] = q[i]
      BY AppendProperties, LenProperties
    <2> HIDE DEF p
    <2>2. /\ <<About(m)>> \in Seq(Requests) /\ Len(<<About(m)>>) = 1 /\ <<About(m)>>[1] = About(m)
      BY <1>0, OneElement
    <2>3. /\ w \in Seq(Requests) /\ Len(w) = Len(q) + 1
          /\ \A i \in 1..(Len(q) + 1) : w[i] = IF i <= Len(q) THEN Line(q)[i]
                                               ELSE <<About(m)>>[i - Len(q)]
      BY <1>1, <2>2, ConcatProperties
    <2> HIDE DEF w
    <2>4. /\ Line(p) \in Seq(Requests) /\ Len(Line(p)) = Len(p)
          /\ \A i \in 1..Len(p) : Line(p)[i] = About(p[i])
      BY <1>1, <2>1
    <2>5. \A i \in 1..Len(Line(p)) : Line(p)[i] = w[i]
      BY <1>1, <2>1, <2>2, <2>3, <2>4
    <2>6. Line(p) = w
      BY <2>1, <2>3, <2>4, <2>5, SeqEqual
    <2> QED BY <2>6 DEF p, w
  <1>3. ASSUME q # <<>>
        PROVE  Line(q) = <<About(Head(q))>> \o Line(Tail(q))
    <2> DEFINE t == Tail(q)
               h == About(Head(q))
               w == <<h>> \o Line(t)
    <2>1. /\ Head(q) = q[1] /\ Head(q) \in S /\ t \in Seq(S) /\ Len(t) = Len(q) - 1
          /\ \A i \in 1..Len(t) : t[i] = q[i + 1]
          /\ Len(q) \in Nat \ {0}
      BY <1>3, HeadTailProperties, EmptySeq
    <2>2. h = About(q[1]) /\ h \in Requests
      BY <1>0, <2>1
    <2> HIDE DEF t, h
    <2>3. <<h>> \in Seq(Requests) /\ Len(<<h>>) = 1 /\ <<h>>[1] = h
      BY <2>2, OneElement
    <2>4. /\ w \in Seq(Requests) /\ Len(w) = 1 + Len(t)
          /\ \A i \in 1..(1 + Len(t)) : w[i] = IF i <= 1 THEN <<h>>[i] ELSE Line(t)[i - 1]
      BY <1>1, <2>1, <2>3, ConcatProperties
    <2> HIDE DEF w
    <2>5. Line(q) \in Seq(Requests) /\ Len(Line(q)) = Len(w) /\ Len(w) = Len(q)
      BY <1>1, <2>1, <2>4
    <2>6. \A i \in 1..Len(Line(q)) : Line(q)[i] = w[i]
      <3> SUFFICES ASSUME NEW i \in 1..Len(q) PROVE Line(q)[i] = w[i]
        BY <2>5
      <3>1. CASE i = 1
        BY <1>1, <2>1, <2>2, <2>3, <2>4, <3>1
      <3>2. CASE i # 1
        <4>1. i - 1 \in 1..Len(t)
          BY <2>1, <3>2
        <4>2. w[i] = Line(t)[i - 1] /\ Line(t)[i - 1] = About(t[i - 1]) /\ t[i - 1] = q[i]
          BY <1>1, <2>1, <2>4, <3>2, <4>1
        <4> QED BY <1>1, <4>2
      <3> QED BY <3>1, <3>2
    <2>7. Line(q) = w
      BY <2>4, <2>5, <2>6, SeqEqual
    <2> QED BY <2>7 DEF w, h, t
  <1> QED BY <1>1, <1>2, <1>3

(* The five places hold posts, and the line is their concatenation. *)
LEMMA LineOfFive ==
  ASSUME TypeOK
  PROVE  /\ AsLine(disp_msg) \in Seq(Requests) /\ Line(outbound) \in Seq(Requests)
         /\ AgentLine \in Seq(Requests) /\ Line(inbound) \in Seq(Requests)
         /\ HttpdLine \in Seq(Requests) /\ Waiting \in Seq(Requests)
         /\ Waiting = (((AsLine(disp_msg) \o Line(outbound)) \o AgentLine) \o Line(inbound))
                        \o HttpdLine
  <1>1. \A m \in InMsg \cup OutMsg \cup {NoMsg} : AsLine(m) \in Seq(Requests)
    <2> SUFFICES ASSUME NEW m \in InMsg \cup OutMsg \cup {NoMsg}
                 PROVE  AsLine(m) \in Seq(Requests)
      OBVIOUS
    <2>1. CASE m = NoMsg
      BY <2>1, EmptySeq DEF AsLine
    <2>2. CASE m # NoMsg
      BY <2>2, AboutContent, OneElement DEF AsLine
    <2> QED BY <2>1, <2>2
  <1>2. <<>> \in Seq(Requests)
    BY EmptySeq
  <1>3. Line(outbound) \in Seq(Requests) /\ Line(inbound) \in Seq(Requests)
    BY LineOfQueue DEF TypeOK
  <1>4. AsLine(disp_msg) \in Seq(Requests) /\ AgentLine \in Seq(Requests)
        /\ HttpdLine \in Seq(Requests)
    BY <1>1, <1>2 DEF TypeOK, AgentLine, HttpdLine
  <1>5. Waiting = (((AsLine(disp_msg) \o Line(outbound)) \o AgentLine) \o Line(inbound))
                    \o HttpdLine
    BY DEF Waiting, AgentLine, HttpdLine
  <1> QED BY <1>3, <1>4, <1>5, ConcatProperties

(* Nothing of a post that may be taken in again is in the line. *)
LEMMA LineIsLive ==
  ASSUME IInv, NEW r \in Requests, Fresh(r)
  PROVE  Service!Idle(r)
  <1> DEFINE Live == {x \in Requests : \E k \in {"in", "final", "out"} : <<k, x>> \in heap}
  <1>1. TypeOK /\ NoLeakNoDangling
    BY DEF IInv, Ownership
  <1>2. \A m \in InMsg \cup OutMsg : m.content \in heap => About(m) \in Live
    BY AboutContent
  <1> HIDE DEF Live
  <1>3. ASSUME NEW m \in InMsg \cup OutMsg \cup {NoMsg}, Content(m) \subseteq heap
        PROVE  AsLine(m) \in Seq(Live)
    <2>1. CASE m = NoMsg
      BY <2>1, EmptySeq DEF AsLine
    <2>2. CASE m # NoMsg
      <3>1. About(m) \in Live
        BY <1>2, <1>3, <2>2 DEF Content
      <3> QED BY <2>2, <3>1, OneElement DEF AsLine
    <2> QED BY <2>1, <2>2
  <1>4. ASSUME NEW q, q \in Seq(InMsg) \/ q \in Seq(OutMsg), Contents(q) \subseteq heap
        PROVE  Line(q) \in Seq(Live)
    <2>1. Len(q) \in Nat /\ \A i \in 1..Len(q) : q[i] \in InMsg \cup OutMsg
      BY <1>4, LenProperties, ElementOfSeq
    <2>2. \A i \in 1..Len(q) : About(q[i]) \in Live
      BY <1>2, <1>4, <2>1 DEF Contents
    <2>3. Line(q) \in [1..Len(q) -> Live]
      BY <2>2 DEF Line
    <2> QED BY <2>1, <2>3, SeqDef
  <1>5. AsLine(disp_msg) \in Seq(Live) /\ Line(outbound) \in Seq(Live)
        /\ Line(inbound) \in Seq(Live)
    <2>1. Content(disp_msg) \subseteq heap /\ Contents(outbound) \subseteq heap
          /\ Contents(inbound) \subseteq heap
      BY <1>1 DEF NoLeakNoDangling
    <2> QED BY <1>1, <1>3, <1>4, <2>1 DEF TypeOK
  <1>6. AgentLine \in Seq(Live) /\ HttpdLine \in Seq(Live)
    <2>1. Content(agent_msg) \subseteq heap
      BY <1>1 DEF NoLeakNoDangling, AgentOwns
    <2>2. httpd_pc = "push" => Content(httpd_msg) \subseteq heap
      BY <1>1 DEF NoLeakNoDangling, HttpdOwns
    <2> QED BY <1>1, <1>3, <2>1, <2>2, EmptySeq DEF TypeOK, AgentLine, HttpdLine
  <1>7. Waiting \in Seq(Live)
    <2>1. Waiting = (((AsLine(disp_msg) \o Line(outbound)) \o AgentLine) \o Line(inbound))
                      \o HttpdLine
      BY <1>1, LineOfFive
    <2>2. AsLine(disp_msg) \o Line(outbound) \in Seq(Live)
      BY <1>5, ConcatProperties
    <2>3. (AsLine(disp_msg) \o Line(outbound)) \o AgentLine \in Seq(Live)
      BY <1>6, <2>2, ConcatProperties
    <2>4. ((AsLine(disp_msg) \o Line(outbound)) \o AgentLine) \o Line(inbound) \in Seq(Live)
      BY <1>5, <2>3, ConcatProperties
    <2> QED BY <1>6, <2>1, <2>4, ConcatProperties
  <1>8. \A i \in DOMAIN Waiting : Waiting[i] \in Live
    BY <1>7, LenProperties, ElementOfSeq
  <1>9. r \notin Live
    BY DEF Fresh, Live
  <1> QED BY <1>8, <1>9 DEF Service!Idle, Service!Range

(* A loss anywhere in the line, seen by the abstract service. *)
LEMMA LossIsALoss ==
  ASSUME NEW p \in Seq(Requests), NEW t \in Seq(Requests), NEW x \in Requests,
         Waiting = (p \o <<x>>) \o t, Waiting' = p \o t, Settle(x, "lost")
  PROVE  Service!SNext
  <1> DEFINE i == Len(p) + 1
  <1>1. i \in DOMAIN Waiting /\ Waiting[i] = x /\ Service!RemoveAt(Waiting, i) = p \o t
    <2> DEFINE w == (p \o <<x>>) \o t
    <2>1. i \in DOMAIN w /\ w[i] = x /\ Service!RemoveAt(w, i) = p \o t
      BY TakeOutOfTheMiddle, Zenon
    <2> HIDE DEF w, i
    <2>2. Waiting = w
      BY DEF w
    <2> QED BY <2>1, <2>2
  <1> HIDE DEF i
  <1>2. Service!Lose(i)
    BY <1>1 DEF Service!Lose, Service!Settle, Settle
  <1> QED BY <1>1, <1>2 DEF Service!SNext

(* A new post joins the line at its end, or is turned away. *)
LEMMA PostIsSeen ==
  ASSUME LineInv, NEW r \in Requests, PostDiscord(r) \/ PostLine(r) \/ PostOther(r)
  PROVE  Service!SNext
  <1> USE DEF busVars, httpdVars, agentVars
  <1>1. TypeOK /\ IInv /\ TypeOK'
    BY NextType DEF LineInv, TokenInv, IInv, Next, Post
  <1>2. /\ httpd_pc = "idle" /\ Fresh(r)
        /\ UNCHANGED <<busVars, agentVars, disp_msg>>
    BY DEF PostDiscord, PostLine, PostOther
  <1>3. Service!Idle(r)
    BY <1>1, <1>2, LineIsLive
  <1> DEFINE p == ((AsLine(disp_msg) \o Line(outbound)) \o AgentLine) \o Line(inbound)
  <1>4. /\ p \in Seq(Requests) /\ Waiting = p \o HttpdLine /\ Waiting' = p \o HttpdLine'
        /\ Waiting \in Seq(Requests)
    <2>1. p \in Seq(Requests)
      BY <1>1, LineOfFive, ConcatProperties
    <2>2. UNCHANGED <<AsLine(disp_msg), Line(outbound), AgentLine, Line(inbound)>>
      BY <1>2 DEF AsLine, Line, AgentLine
    <2>3. UNCHANGED p
      BY <2>2
    <2>4. Waiting' = (p \o HttpdLine)'
      BY DEF Waiting, AgentLine, HttpdLine
    <2> QED BY <1>1, <2>1, <2>3, <2>4, LineOfFive
  <1> HIDE DEF p
  <1>5. HttpdLine = <<>> /\ Waiting = p
    BY <1>2, <1>4, ConcatEmptySeq DEF HttpdLine
  <1>6. CASE httpd_pc' = "push"
    <2>1. PICK chan \in {"discord", "line"} : httpd_msg' = Incoming(r, chan) /\ Settle(r, "pending")
      BY <1>2, <1>6 DEF PostDiscord, PostLine, PostOther, TakeIn
    <2>2. HttpdLine' = <<r>>
      BY <1>6, <2>1, IncomingType, NoMsgIsNoMessage DEF HttpdLine, AsLine, About, Incoming
    <2>3. Waiting' = Append(Waiting, r)
      BY <1>4, <1>5, <2>2, AppendIsConcat
    <2>4. Service!Accept(r)
      BY <1>3, <2>1, <2>3 DEF Service!Accept, Service!Settle, Settle
    <2> QED BY <2>4 DEF Service!SNext
  <1>7. CASE httpd_pc' # "push"
    <2>1. \E how \in {"none", "lost"} : Settle(r, how)
      BY <1>2, <1>7 DEF PostDiscord, PostLine, PostOther, TakeIn
    <2>2. HttpdLine' = <<>>
      BY <1>7 DEF HttpdLine
    <2>3. UNCHANGED Waiting
      BY <1>4, <1>5, <2>2, ConcatEmptySeq
    <2>4. Service!TurnAway(r)
      BY <1>3, <2>1, <2>3 DEF Service!TurnAway, Service!Settle, Settle
    <2> QED BY <2>4 DEF Service!SNext
  <1> QED BY <1>6, <1>7

(* The line, seen from its front. *)
LEMMA LineFromTheFront ==
  ASSUME TypeOK
  PROVE  LET rest == AgentLine \o (Line(inbound) \o HttpdLine)
         IN  \A a, b \in Seq(Requests) :
                /\ rest \in Seq(Requests) /\ b \o rest \in Seq(Requests)
                /\ (((a \o b) \o AgentLine) \o Line(inbound)) \o HttpdLine = a \o (b \o rest)
  <1> DEFINE c == AgentLine
             d == Line(inbound)
             e == HttpdLine
  <1>0. c \in Seq(Requests) /\ d \in Seq(Requests) /\ e \in Seq(Requests)
    BY LineOfFive
  <1> HIDE DEF c, d, e
  <1> SUFFICES ASSUME NEW a \in Seq(Requests), NEW b \in Seq(Requests)
               PROVE  /\ c \o (d \o e) \in Seq(Requests)
                      /\ b \o (c \o (d \o e)) \in Seq(Requests)
                      /\ (((a \o b) \o c) \o d) \o e = a \o (b \o (c \o (d \o e)))
    BY DEF c, d, e
  <1> DEFINE ab == a \o b
             de == d \o e
             abc == ab \o c
             cde == c \o de
  <1>1. ab \in Seq(Requests) /\ de \in Seq(Requests)
    BY <1>0, ConcatProperties
  <1>2. abc \in Seq(Requests) /\ cde \in Seq(Requests) /\ abc \o de = ab \o cde
    <2> HIDE DEF ab, de
    <2> QED BY <1>0, <1>1, ConcatProperties, ConcatAssociative
  <1>3. (abc \o d) \o e = abc \o (d \o e)
    <2>1. abc \in Seq(Requests)
      BY <1>2
    <2> HIDE DEF abc
    <2> QED BY <1>0, <2>1, ConcatAssociative
  <1>4. (a \o b) \o cde = a \o (b \o cde) /\ b \o cde \in Seq(Requests)
    <2>1. cde \in Seq(Requests)
      BY <1>2
    <2> HIDE DEF cde
    <2> QED BY <1>0, <2>1, ConcatAssociative, ConcatProperties
  <1> QED BY <1>2, <1>3, <1>4

(* The HTTP handler's push moves a post within the line, or loses it. *)
LEMMA HttpdIsSeen ==
  ASSUME LineInv, Httpd
  PROVE  Service!SNext \/ UNCHANGED <<Waiting, outcome>>
  <1> USE DEF busVars, httpdVars, agentVars
  <1> DEFINE p == (AsLine(disp_msg) \o Line(outbound)) \o AgentLine
             d == Line(inbound)
             x == About(httpd_msg)
  <1>1. TypeOK /\ TypeOK'
    BY NextType DEF LineInv, TokenInv, IInv, Next
  <1>2. p' = p
    <2>1. UNCHANGED <<AsLine(disp_msg), Line(outbound), AgentLine>>
      BY DEF Httpd, HttpdPush, HttpdPushFails, HttpdReply, AsLine, Line, AgentLine
    <2> QED BY <2>1
  <1>3. /\ p \in Seq(Requests) /\ d \in Seq(Requests) /\ HttpdLine \in Seq(Requests)
        /\ Waiting = (p \o d) \o HttpdLine
    <2>1. p \in Seq(Requests)
      BY <1>1, LineOfFive, ConcatProperties
    <2> QED BY <1>1, <2>1, LineOfFive
  <1>4. Waiting' = (p' \o d') \o HttpdLine'
    BY DEF Waiting, AgentLine, HttpdLine
  <1>5. httpd_pc = "push" => x \in Requests /\ HttpdLine = <<x>>
    BY <1>1, AboutContent, NoMsgIsNoMessage DEF TypeOK, HttpdLine, AsLine
  <1>6. CASE HttpdReply
    BY <1>6 DEF HttpdReply, Waiting, Line, AsLine, About
  <1>7. CASE HttpdPush
    <2>1. HttpdLine' = <<>>
      BY <1>7 DEF HttpdPush, LeavePush, HttpdLine
    <2>2. d' = d \o <<x>>
      BY <1>1, <1>7, LineOfQueue, AboutContent, NoMsgIsNoMessage DEF HttpdPush, PushInbound, TypeOK
    <2> HIDE DEF p, d, x
    <2>3. x \in Requests /\ HttpdLine = <<x>> /\ UNCHANGED outcome
      BY <1>5, <1>7 DEF HttpdPush
    <2>4. (p \o d) \o <<x>> = p \o (d \o <<x>>) /\ p \o (d \o <<x>>) \in Seq(Requests)
      BY <1>3, <2>3, OneElement, ConcatAssociative, ConcatProperties
    <2>5. (p \o (d \o <<x>>)) \o <<>> = p \o (d \o <<x>>)
      BY <2>4, ConcatEmptySeq
    <2> QED BY <1>2, <1>3, <1>4, <2>1, <2>2, <2>3, <2>4, <2>5
  <1>8. CASE HttpdPushFails
    <2>1. HttpdLine' = <<>> /\ Settle(x, "lost") /\ httpd_pc = "push"
      BY <1>8 DEF HttpdPushFails, LeavePush, HttpdLine
    <2>2. d' = d
      BY <1>8 DEF HttpdPushFails, PushInboundFails, Line
    <2> DEFINE pd == p \o d
    <2>3. pd \in Seq(Requests) /\ <<>> \in Seq(Requests) /\ x \in Requests
      BY <1>3, <1>5, <2>1, ConcatProperties, EmptySeq
    <2> HIDE DEF p, d, x
    <2>4. Waiting = (pd \o <<x>>) \o <<>> /\ Waiting' = pd \o <<>>
      <3>1. pd \o <<x>> \in Seq(Requests)
        BY <2>3, OneElement, ConcatProperties
      <3>2. (pd \o <<x>>) \o <<>> = pd \o <<x>>
        BY <3>1, ConcatEmptySeq
      <3> QED BY <1>2, <1>3, <1>4, <1>5, <2>1, <2>2, <3>2
    <2> HIDE DEF pd
    <2> QED BY <2>1, <2>3, <2>4, LossIsALoss
  <1> QED BY <1>6, <1>7, <1>8 DEF Httpd

(* The agent takes a post from one queue to the other, or loses it. *)
LEMMA AgentIsSeen ==
  ASSUME LineInv, Agent
  PROVE  Service!SNext \/ UNCHANGED <<Waiting, outcome>>
  <1> USE DEF busVars, httpdVars, agentVars
  <1> DEFINE a == AsLine(disp_msg)
             b == Line(outbound)
             d == Line(inbound)
             x == About(agent_msg)
  <1>1. TypeOK /\ TypeOK'
    BY NextType DEF LineInv, TokenInv, IInv, Next
  <1>2. UNCHANGED <<a, HttpdLine>>
    BY DEF Agent, ModelCalls, AgentRest, AgentPop, AgentThink, AgentRespond, AgentPush,
           AgentPushFails, AfterPush, AgentSummarise, AgentCleanup,
           AsLine, HttpdLine
  <1>3. /\ a \in Seq(Requests) /\ b \in Seq(Requests) /\ AgentLine \in Seq(Requests)
        /\ d \in Seq(Requests) /\ HttpdLine \in Seq(Requests)
        /\ Waiting = (((a \o b) \o AgentLine) \o d) \o HttpdLine
    BY <1>1, LineOfFive
  <1>4. Waiting' = (((a' \o b') \o AgentLine') \o d') \o HttpdLine'
    BY DEF Waiting, AgentLine, HttpdLine
  <1>5. agent_pc \in {"think", "respond", "push"} => x \in Requests /\ AgentLine = <<x>>
    BY <1>1, AboutContent, NoMsgIsNoMessage DEF TypeOK, AgentLine, AsLine
  <1>6. a \o b \in Seq(Requests) /\ d \o HttpdLine \in Seq(Requests)
    BY <1>3, ConcatProperties
  <1>7. ASSUME AgentLine = <<x>>, AgentLine' = <<>>, b' = b, d' = d, x \in Requests,
               Settle(x, "lost")
        PROVE  Service!SNext
    <2> HIDE DEF a, b, d, x
    <2> DEFINE ab == a \o b
               dh == d \o HttpdLine
    <2>1. ab \in Seq(Requests) /\ dh \in Seq(Requests) /\ ab \o <<>> = ab
      BY <1>6, ConcatEmptySeq
    <2>2. Waiting = ((ab \o <<x>>) \o d) \o HttpdLine /\ Waiting' = (ab \o d) \o HttpdLine
      BY <1>2, <1>3, <1>4, <1>7, <2>1
    <2> HIDE DEF ab
    <2>3. ab \o <<x>> \in Seq(Requests)
      BY <1>7, <2>1, OneElement, ConcatProperties
    <2> DEFINE abx == ab \o <<x>>
    <2>4. (abx \o d) \o HttpdLine = abx \o (d \o HttpdLine)
      <3>1. abx \in Seq(Requests)
        BY <2>3
      <3> HIDE DEF abx
      <3> QED BY <1>3, <3>1, ConcatAssociative
    <2>5. (ab \o d) \o HttpdLine = ab \o (d \o HttpdLine)
      BY <1>3, <2>1, ConcatAssociative
    <2>6. Waiting = (ab \o <<x>>) \o dh /\ Waiting' = ab \o dh
      BY <2>2, <2>4, <2>5
    <2> HIDE DEF dh
    <2> QED BY <1>7, <2>1, <2>6, LossIsALoss
  <1>8. CASE AgentPop
    <2>1. /\ AgentLine = <<>> /\ b' = b /\ UNCHANGED outcome
          /\ inbound # <<>> /\ inbound' = Tail(inbound) /\ agent_msg' = Head(inbound)
          /\ agent_pc' = "think"
      BY <1>8 DEF AgentPop, PopInbound, AgentLine, Line
    <2> DEFINE y == About(Head(inbound))
    <2>2. /\ Head(inbound) \in InMsg /\ y \in Requests /\ d = <<y>> \o d' /\ d' \in Seq(Requests)
      BY <1>1, <2>1, LineOfQueue, AboutContent, PoppedQueue, PoppedContents DEF TypeOK
    <2>3. AgentLine' = <<y>>
      BY <2>1, <2>2, NoMsgIsNoMessage DEF AgentLine, AsLine
    <2> HIDE DEF a, b, d, x, y
    <2> DEFINE ab == a \o b
    <2>4. <<y>> \in Seq(Requests) /\ ab \in Seq(Requests)
      BY <1>6, <2>2, OneElement
    <2>5. ab \o <<>> = ab
      BY <2>4, ConcatEmptySeq
    <2>6. (ab \o <<y>>) \o d' = ab \o (<<y>> \o d')
      BY <2>2, <2>4, ConcatAssociative
    <2> QED BY <1>2, <1>3, <1>4, <2>1, <2>2, <2>3, <2>5, <2>6
  <1>9. CASE AgentThink \/ AgentSummarise \/ AgentCleanup
    <2>1. UNCHANGED <<b, d, AgentLine, outcome>>
      BY <1>9 DEF AgentThink, AgentSummarise, AgentCleanup, AgentLine, AsLine, Line, About
    <2> QED BY <1>2, <1>3, <1>4, <2>1
  <1>10. CASE AgentRespond
    <2>1. b' = b /\ d' = d
      BY <1>10 DEF AgentRespond, AfterPush, Line
    <2>2. CASE agent_pc' = "push"
      <3>1. UNCHANGED <<AgentLine, outcome>>
        BY <1>10, <2>2 DEF AgentRespond, AfterPush, AgentLine, AsLine, About
      <3> QED BY <1>2, <1>3, <1>4, <2>1, <3>1
    <2>3. CASE agent_pc' \in {"summarise", "cleanup"}
      <3>1. AgentLine' = <<>> /\ Settle(x, "lost") /\ agent_pc = "respond"
        BY <1>10, <2>3 DEF AgentRespond, AfterPush, AgentLine
      <3> QED BY <1>5, <1>7, <2>1, <3>1
    <2> QED BY <1>10, <2>2, <2>3 DEF AgentRespond, AfterPush
  <1>11. CASE AgentPush
    <2>1. /\ AgentLine' = <<>> /\ agent_pc = "push" /\ UNCHANGED outcome
          /\ d' = d /\ outbound' = Append(outbound, agent_out)
      BY <1>11 DEF AgentPush, AfterPush, PushOutbound, AgentLine, Line
    <2>2. agent_out \in OutMsg /\ About(agent_out) = x
      BY <1>1, <2>1 DEF TypeOK, LineInv, AnswersItsMessage
    <2>3. b' = b \o <<x>> /\ x \in Requests /\ AgentLine = <<x>>
      <3>1. x \in Requests /\ AgentLine = <<x>>
        BY <1>5, <2>1
      <3>2. b' = b \o <<About(agent_out)>>
        BY <1>1, <2>1, <2>2, LineOfQueue DEF TypeOK
      <3> QED BY <2>2, <3>1, <3>2
    <2> HIDE DEF a, b, d, x
    <2>4. <<x>> \in Seq(Requests)
      BY <2>3, OneElement
    <2> DEFINE abx == (a \o b) \o <<x>>
    <2>5. abx = a \o (b \o <<x>>) /\ abx \in Seq(Requests)
      BY <1>3, <1>6, <2>4, ConcatAssociative, ConcatProperties
    <2>6. abx \o <<>> = abx
      BY <2>5, ConcatEmptySeq
    <2> QED BY <1>2, <1>3, <1>4, <2>1, <2>3, <2>5, <2>6
  <1>12. CASE AgentPushFails
    <2>1. AgentLine' = <<>> /\ Settle(x, "lost") /\ agent_pc = "push" /\ b' = b /\ d' = d
      BY <1>12 DEF AgentPushFails, AfterPush, PushOutboundFails, AgentLine, Line
    <2> QED BY <1>5, <1>7, <2>1
  <1> QED BY <1>8, <1>9, <1>10, <1>11, <1>12 DEF Agent, ModelCalls, AgentRest

(* The dispatcher answers the oldest post of the line. *)
LEMMA DispatcherIsSeen ==
  ASSUME LineInv, Dispatcher
  PROVE  Service!SNext \/ UNCHANGED <<Waiting, outcome>>
  <1> USE DEF busVars, httpdVars, agentVars
  <1> DEFINE a == AsLine(disp_msg)
             b == Line(outbound)
             rest == AgentLine \o (Line(inbound) \o HttpdLine)
  <1>1. TypeOK /\ TypeOK'
    BY NextType DEF LineInv, TokenInv, IInv, Next
  <1>2. /\ a \in Seq(Requests) /\ b \in Seq(Requests) /\ rest \in Seq(Requests)
        /\ b \o rest \in Seq(Requests)
        /\ Waiting = a \o (b \o rest)
    <2>1. a \in Seq(Requests) /\ b \in Seq(Requests)
      BY <1>1, LineOfFive
    <2>2. Waiting = (((a \o b) \o AgentLine) \o Line(inbound)) \o HttpdLine
      BY <1>1, LineOfFive
    <2> HIDE DEF a, b
    <2> QED BY <1>1, <2>1, <2>2, LineFromTheFront
  <1>3. ASSUME a' \in Seq(Requests), b' \in Seq(Requests)
        PROVE  Waiting' = a' \o (b' \o rest)
    <2>1. Waiting' = (((a' \o b') \o AgentLine') \o Line(inbound)') \o HttpdLine'
      BY DEF Waiting, AgentLine, HttpdLine
    <2>2. UNCHANGED <<AgentLine, Line(inbound), HttpdLine>>
      BY DEF Dispatcher, DispatchPop, Dispatch, AgentLine, Line, HttpdLine, AsLine
    <2> HIDE DEF a, b
    <2>3. (((a' \o b') \o AgentLine) \o Line(inbound)) \o HttpdLine = a' \o (b' \o rest)
      BY <1>1, <1>3, LineFromTheFront
    <2> QED BY <2>1, <2>2, <2>3
  <1>4. CASE DispatchPop
    <2> DEFINE y == About(Head(outbound))
    <2>1. /\ a = <<>> /\ UNCHANGED outcome
          /\ outbound # <<>> /\ outbound' = Tail(outbound) /\ disp_msg' = Head(outbound)
      BY <1>4 DEF DispatchPop, PopOutbound, AsLine
    <2>2. /\ Head(outbound) \in OutMsg /\ y \in Requests
          /\ b = <<y>> \o b' /\ b' \in Seq(Requests)
      BY <1>1, <2>1, LineOfQueue, AboutContent, PoppedContents DEF TypeOK
    <2>3. a' = <<y>>
      BY <2>1, <2>2, NoMsgIsNoMessage DEF AsLine
    <2> HIDE DEF a, b, rest, y
    <2>4. <<y>> \in Seq(Requests)
      BY <2>2, OneElement
    <2>5. <<>> \o (b \o rest) = b \o rest
      BY <1>2, ConcatEmptySeq
    <2>6. (<<y>> \o b') \o rest = <<y>> \o (b' \o rest)
      BY <1>2, <2>2, <2>4, ConcatAssociative
    <2> QED BY <1>2, <1>3, <2>1, <2>2, <2>3, <2>5, <2>6
  <1>5. CASE Dispatch
    <2> DEFINE y == About(disp_msg)
    <2>1. disp_msg \in OutMsg /\ y \in Requests /\ a = <<y>> /\ a' = <<>> /\ b' = b
      BY <1>1, <1>5, AboutContent DEF Dispatch, TypeOK, AsLine, Line
    <2>2. \E how \in {"answered", "failed"} : Settle(y, how)
      <3>1. disp_msg.meta \in {y, CutToken}
        BY <1>5 DEF Dispatch, LineInv, TokenInv, OwnToken, Carried, Held
      <3> QED BY <1>5, <3>1, RequestAssumption DEF Dispatch, FollowUpLands, FollowUpFails
    <2> HIDE DEF a, b, rest, y
    <2> DEFINE t == b \o rest
    <2>3. Waiting = <<y>> \o t /\ Waiting' = t
      <3>1. <<>> \o t = t
        BY <1>2, ConcatEmptySeq
      <3> QED BY <1>2, <1>3, <2>1, <3>1
    <2>4. Waiting # <<>> /\ Head(Waiting) = y /\ Tail(Waiting) = t
      <3>1. t \in Seq(Requests)
        BY <1>2
      <3> HIDE DEF t
      <3> QED BY <2>1, <2>3, <3>1, FrontAndRest
    <2>5. Service!AnswerOldest
      BY <2>2, <2>3, <2>4 DEF Service!AnswerOldest, Service!Settle, Settle
    <2> QED BY <2>5 DEF Service!SNext
  <1> QED BY <1>4, <1>5 DEF Dispatcher

(* Posts are answered in the order they were taken in, each at most once,  *)
(* for every queue length and every set of posts, whatever the order in    *)
(* which the three tasks run: the firmware implements ReplyService.        *)
THEOREM RepliesInOrder == Spec => RefinesReplyService
  <1>1. Init => Service!SInit
    <2> SUFFICES ASSUME Init PROVE Service!SInit
      OBVIOUS
    <2>1. Line(<<>>) = <<>>
      BY DEF Line
    <2>2. Waiting = <<>>
      BY <2>1, EmptySeq, ConcatEmptySeq DEF Init, BusInit, Waiting, AsLine
    <2> QED BY <2>2 DEF Service!SInit, Init
  <1>2. LineInv /\ [Next]_vars => [Service!SNext]_(Service!svars)
    <2> SUFFICES ASSUME LineInv, [Next]_vars
                 PROVE  Service!SNext \/ UNCHANGED <<Waiting, outcome>>
      BY DEF Service!svars
    <2>1. CASE UNCHANGED vars
      BY <2>1 DEF vars, busVars, httpdVars, agentVars, Waiting, AsLine, Line, About
    <2>2. CASE Post
      BY <2>2, PostIsSeen DEF Post
    <2> QED BY <2>1, <2>2, HttpdIsSeen, AgentIsSeen, DispatcherIsSeen DEF Next
  <1>3. LineInv /\ [Next]_vars => LineInv'
    BY NextLine
  <1> QED BY InitLine, <1>1, <1>2, <1>3, PTL DEF Spec, RefinesReplyService, Service!Spec
=============================================================================

------------------------- MODULE MimiServer_proofs --------------------------
(***************************************************************************)
(* Proofs about MimiServer, for every queue length and every number of     *)
(* updates, rounds and chunks.                                             *)
(***************************************************************************)
EXTENDS MimiServer, SequenceTheorems, TLAPS

----------------------------------------------------------------------------
(* What a push and a pop do to a queue. *)

LEMMA Pushed ==
  ASSUME NEW S, NEW q \in Seq(S), NEW m \in S
  PROVE  /\ Append(q, m) \in Seq(S)
         /\ Len(q) \in Nat /\ Len(Append(q, m)) = Len(q) + 1
         /\ \A i \in 1..Len(q) : Append(q, m)[i] = q[i] /\ q[i] \in S
         /\ Append(q, m)[Len(q) + 1] = m
         /\ Queued(Append(q, m)) = Queued(q) \cup {m}
  <1> DEFINE p == Append(q, m)
  <1>1. /\ p \in Seq(S) /\ Len(p) = Len(q) + 1 /\ Len(q) \in Nat
        /\ \A i \in 1..Len(q) : p[i] = q[i] /\ q[i] \in S
        /\ p[Len(q) + 1] = m
    BY AppendProperties, LenProperties, ElementOfSeq
  <1> HIDE DEF p
  <1>2. 1..Len(p) = 1..Len(q) \cup {Len(q) + 1}
    BY <1>1
  <1>3. Queued(p) = Queued(q) \cup {m}
    BY <1>1, <1>2 DEF Queued
  <1> QED BY <1>1, <1>3 DEF p

LEMMA Popped ==
  ASSUME NEW S, NEW q \in Seq(S), q # <<>>
  PROVE  /\ Head(q) = q[1] /\ Head(q) \in S
         /\ Tail(q) \in Seq(S)
         /\ Len(q) \in Nat \ {0} /\ Len(Tail(q)) = Len(q) - 1
         /\ \A i \in 1..Len(Tail(q)) : Tail(q)[i] = q[i + 1] /\ i + 1 \in 1..Len(q)
         /\ \A i \in 1..Len(q) : q[i] \in S
         /\ Queued(q) = Queued(Tail(q)) \cup {Head(q)}
  <1> DEFINE t == Tail(q)
  <1>1. /\ Head(q) = q[1] /\ Head(q) \in S /\ t \in Seq(S) /\ Len(t) = Len(q) - 1
        /\ \A i \in 1..Len(t) : t[i] = q[i + 1]
        /\ Len(q) \in Nat \ {0}
        /\ \A i \in 1..Len(q) : q[i] \in S
    BY HeadTailProperties, EmptySeq, ElementOfSeq
  <1> HIDE DEF t
  <1>2. \A i \in 1..Len(q) : i = 1 \/ (i - 1 \in 1..Len(t) /\ q[i] = t[i - 1])
    BY <1>1
  <1>3. \A i \in 1..Len(t) : i + 1 \in 1..Len(q) /\ t[i] = q[i + 1]
    BY <1>1
  <1>4. 1 \in 1..Len(q)
    BY <1>1
  <1>5. Queued(q) = Queued(t) \cup {Head(q)}
    BY <1>1, <1>2, <1>3, <1>4 DEF Queued
  <1> QED BY <1>1, <1>3, <1>5 DEF t

LEMMA QueuedInSet ==
  ASSUME NEW S, NEW q \in Seq(S)
  PROVE  /\ Len(q) \in Nat /\ \A i \in 1..Len(q) : q[i] \in S
         /\ Queued(q) \subseteq S
         /\ Queued(<<>>) = {}
  BY LenProperties, ElementOfSeq DEF Queued

----------------------------------------------------------------------------
(* Texts, and where their pieces belong in the order the user should see.  *)

First(m) == Place(m, 1)
Last(m)  == Place(m, Chunks(m))

LEMMA Texts ==
  /\ \A u \in Updates : InText(u) \in InTexts /\ About(InText(u)) = u
  /\ \A m \in InTexts : About(m) \in Updates /\ m = InText(About(m))
  /\ \A u \in Updates, n \in 0..(MaxIter - 1) :
       /\ <<"status", u, n>> \in OutTexts /\ About(<<"status", u, n>>) = u
       /\ <<"status", u, n>>[1] = "status" /\ <<"status", u, n>>[3] = n
  /\ \A u \in Updates, n \in 1..MaxChunks :
       /\ <<"answer", u, n>> \in OutTexts /\ About(<<"answer", u, n>>) = u
       /\ <<"answer", u, n>>[1] = "answer"
  /\ \A m \in OutTexts :
       /\ About(m) \in Updates /\ m[1] \in {"status", "answer"}
       /\ m[1] = "status" => m[3] \in 0..(MaxIter - 1)
       /\ m[1] = "answer" => m[3] \in 1..MaxChunks
  /\ InTexts \cap OutTexts = {} /\ NoMsg \notin InTexts /\ NoMsg \notin OutTexts
  /\ Updates \subseteq Nat \ {0}
  BY MimiAssumption, NoMsgAssumption DEF InTexts, OutTexts, InText, About, Updates

LEMMA Multiples ==
  ASSUME NEW a \in Nat, NEW b \in Nat, NEW k \in Nat, a < b
  PROVE  a * k \in Nat /\ b * k \in Nat /\ a * k + k <= b * k
  <1>1. PICK d \in Nat : b = a + 1 + d
    <2>1. b - a - 1 \in Nat /\ b = a + 1 + (b - a - 1)
      OBVIOUS
    <2> QED BY <2>1
  <1>2. (a + 1 + d) * k = a * k + k + d * k /\ d * k \in Nat /\ a * k \in Nat
    BY Z3
  <1> QED BY <1>1, <1>2

LEMMA Places ==
  ASSUME NEW m \in OutTexts
  PROVE  /\ First(m) \in Nat /\ Last(m) \in Nat /\ 0 < First(m) /\ First(m) <= Last(m)
         /\ Chunks(m) \in 1..MaxChunks
         /\ \A c \in 1..Chunks(m) :
              /\ Place(m, c) \in Nat /\ First(m) <= Place(m, c) /\ Place(m, c) <= Last(m)
              /\ c < Chunks(m) => Place(m, c) < Place(m, c + 1)
         /\ \A n \in OutTexts :
              \/ About(m) < About(n)
              \/ About(m) = About(n) /\ m[1] = "status" /\ (n[1] = "status" => m[3] < n[3])
              => Last(m) < First(n)
  <1> DEFINE K == MaxIter + MaxChunks + 1
             Base(n) == About(n) * K
             Rest(n, c) == IF n[1] = "status" THEN n[3] + 1 ELSE MaxIter + c
  <1>1. K \in Nat /\ MaxIter \in Nat \ {0} /\ MaxChunks \in Nat \ {0} /\ K = MaxIter + MaxChunks + 1
    BY MimiAssumption
  <1>2. \A n \in OutTexts : \A c \in 1..MaxChunks : Rest(n, c) \in 1..(K - 1)
    BY <1>1, Texts
  <1>3. \A n \in OutTexts : Base(n) \in Nat /\ (About(m) < About(n) => Base(m) + K <= Base(n))
    <2> TAKE n \in OutTexts
    <2>1. About(n) \in Updates /\ About(m) \in Updates
      BY Texts
    <2>2. About(n) \in Nat /\ About(m) \in Nat
      BY <2>1, MimiAssumption DEF Updates
    <2>3. Base(n) \in Nat
      BY <1>1, <2>2
    <2>4. About(m) < About(n) => Base(m) + K <= Base(n)
      BY <1>1, <2>2, Multiples
    <2> QED BY <2>3, <2>4
  <1>4. \A n \in OutTexts : \A c : Place(n, c) = Base(n) + Rest(n, c)
    BY DEF Place
  <1>5. \A n \in OutTexts : Chunks(n) \in 1..MaxChunks /\ (n[1] = "status" => Chunks(n) = 1)
    BY <1>1, Texts DEF Chunks
  <1>6. \A c \in 1..Chunks(m) : c < Chunks(m) => m[1] # "status" /\ c \in Nat
    BY <1>5
  <1>7. \A n \in OutTexts : About(m) = About(n) => Base(m) = Base(n)
    OBVIOUS
  <1> HIDE DEF K, Base
  <1> QED BY <1>1, <1>2, <1>3, <1>4, <1>5, <1>6, <1>7, Texts DEF First, Last

----------------------------------------------------------------------------
(* Types, with what the program counter says of the agent's locals, and    *)
(* where the updates are that the poller is at.                            *)

AgentInv ==
    /\ agent_pc \in {"push_status", "push_answer"} <=> agent_out # NoMsg
    /\ agent_pc \in {"push_status", "ask"} => iteration < MaxIter
    /\ disp_msg # NoMsg => disp_chunk <= Chunks(disp_msg)

(* The updates of a batch follow each other and are not below the offset;  *)
(* those before it, below the offset or confirmed were looked at.          *)
BatchInv ==
    /\ \A i \in 1..Len(batch) : batch[i] = batch[1] + i - 1 /\ batch[i] \in offset..posted
    /\ \A u \in 1..posted :
         u <= confirmed \/ u < offset \/ (batch # <<>> /\ u < batch[1]) => u \in taken

LEMMA Fetching ==
  ASSUME NEW from \in Nat, NEW to \in Nat, from <= to + 1
  PROVE  /\ Fetched(from, to) \in Seq(from..to)
         /\ Len(Fetched(from, to)) = to - from + 1
         /\ \A i \in 1..Len(Fetched(from, to)) : Fetched(from, to)[i] = from + i - 1
  <1> DEFINE n == to - from + 1
             q == [i \in 1..n |-> from + i - 1]
  <1>1. n \in Nat /\ n = to - from + 1
    OBVIOUS
  <1>2. Fetched(from, to) = q
    BY DEF Fetched
  <1>3. \A i \in 1..n : from + i - 1 \in from..to
    BY <1>1
  <1> HIDE DEF n
  <1>4. q \in [1..n -> from..to] /\ DOMAIN q = 1..n
    BY <1>3
  <1>5. q \in Seq(from..to)
    BY <1>1, <1>4, SeqDef
  <1>6. Len(q) = n
    BY <1>1, <1>4, <1>5, LenProperties
  <1> QED BY <1>1, <1>2, <1>5, <1>6

LEMMA InitTyped == Init => TypeOK /\ AgentInv /\ BatchInv
  <1> SUFFICES ASSUME Init PROVE TypeOK /\ AgentInv /\ BatchInv
    OBVIOUS
  <1>1. <<>> \in Seq(InTexts) /\ <<>> \in Seq(OutTexts) /\ <<>> \in Seq(Updates) /\ Len(<<>>) = 0
    BY EmptySeq
  <1>2. /\ 0 \in 0..MaxUpdates /\ 0 \in 0..0 /\ 0 \in 0..(0 + 1) /\ 0 \in 0..MaxIter
        /\ 1 \in 1..MaxChunks /\ 0 <= QueueLen
    BY MimiAssumption, QueueLenAssumption
  <1>4. TypeOK
    BY <1>1, <1>2 DEF Init, AgentStarts, BusInit, TypeOK
  <1>3. BatchInv
    BY <1>1 DEF Init, BatchInv
  <1> QED BY <1>3, <1>4 DEF Init, AgentStarts, AgentInv

LEMMA PollTyped ==
  ASSUME TypeOK, AgentInv, BatchInv, Poll
  PROVE  TypeOK' /\ AgentInv' /\ BatchInv'
  <1> USE DEF busVars, agentVars, dispVars, heapVars
  <1>1. /\ posted' = posted /\ posted \in 0..MaxUpdates /\ MaxUpdates \in Nat
        /\ offset' = offset /\ taken' = taken /\ offset \in 0..(posted + 1)
        /\ confirmed \in Nat /\ confirmed' \in confirmed..posted
        /\ confirmed' = confirmed \/ confirmed' < offset
        /\ batch = <<>>
    BY MimiAssumption DEF Poll, TypeOK, Larger
  <1>2. /\ TypeOK' <=> batch' \in Seq(Updates)
        /\ AgentInv'
    BY <1>1 DEF Poll, TypeOK, AgentInv
  <1>3. \A u \in 1..posted : u <= confirmed' \/ u < offset => u \in taken
    BY <1>1 DEF BatchInv
  <1>4. CASE batch' = batch
    <2>1. batch' = <<>> /\ Len(<<>>) = 0 /\ <<>> \in Seq(Updates)
      BY <1>1, <1>4, EmptySeq
    <2>2. BatchInv'
      BY <1>1, <1>3, <2>1 DEF BatchInv
    <2> QED BY <1>2, <2>1, <2>2
  <1>5. ASSUME NEW last \in confirmed'..posted, batch' = Fetched(confirmed' + 1, last),
               confirmed' = Larger(confirmed, offset - 1)
        PROVE  TypeOK' /\ AgentInv' /\ BatchInv'
    <2> DEFINE from == confirmed' + 1
    <2>1. from \in Nat \ {0} /\ last \in Nat /\ from <= last + 1 /\ offset <= from
      BY <1>1, <1>5 DEF Larger
    <2>2. /\ batch' \in Seq(from..last)
          /\ \A i \in 1..Len(batch') : batch'[i] = from + i - 1 /\ batch'[i] \in from..last
          /\ Len(batch') \in Nat
      BY <1>5, <2>1, Fetching, ElementOfSeq, LenProperties
    <2>3. from..last \subseteq Updates /\ from..last \subseteq offset..posted
      <3>1. last <= posted /\ posted <= MaxUpdates
        BY <1>1, <1>5
      <3> HIDE DEF from
      <3> QED BY <1>1, <2>1, <3>1 DEF Updates
    <2>4. batch' \in Seq(Updates)
      BY <2>2, <2>3, SeqMonotonic
    <2>5. /\ batch' # <<>> => 1 \in 1..Len(batch')
          /\ \A i \in 1..Len(batch') : batch' # <<>>
      BY <2>2, EmptySeq
    <2> HIDE DEF from
    <2>6. batch' # <<>> => batch'[1] = from
      <3>1. batch' # <<>> => batch'[1] = from + 1 - 1
        BY <2>2, <2>5
      <3> QED BY <2>1, <3>1
    <2>7. \A i \in 1..Len(batch') : batch'[i] = batch'[1] + i - 1 /\ batch'[i] \in offset..posted
      <3> SUFFICES ASSUME NEW i \in 1..Len(batch')
                   PROVE  batch'[i] = batch'[1] + i - 1 /\ batch'[i] \in offset..posted
        OBVIOUS
      <3> QED BY <2>1, <2>2, <2>3, <2>5, <2>6
    <2>8. \A u \in 1..posted :
            u <= confirmed' \/ u < offset \/ (batch' # <<>> /\ u < batch'[1]) => u \in taken
      BY <1>1, <1>3, <2>6 DEF from
    <2>9. BatchInv'
      BY <1>1, <2>7, <2>8 DEF BatchInv
    <2> QED BY <1>2, <2>4, <2>9
  <1> QED BY <1>4, <1>5 DEF Poll

LEMMA TakeUpdateTyped ==
  ASSUME TypeOK, AgentInv, BatchInv, TakeUpdate
  PROVE  /\ TypeOK' /\ AgentInv' /\ BatchInv'
         /\ batch # <<>> /\ Head(batch) \in Updates /\ Head(batch) >= offset
         /\ offset' = Head(batch) + 1
  <1> DEFINE b == Head(batch)
  <1>1. /\ batch # <<>> /\ batch \in Seq(Updates) /\ batch' = Tail(batch)
        /\ posted' = posted /\ confirmed' = confirmed /\ taken' = taken \cup {b}
        /\ posted \in 0..MaxUpdates /\ MaxUpdates \in Nat /\ confirmed \in 0..posted
        /\ offset \in 0..(posted + 1)
    BY MimiAssumption DEF TypeOK, TakeUpdate, telegramVars
  <1>2. /\ b = batch[1] /\ b \in Updates /\ batch' \in Seq(Updates)
        /\ \A i \in 1..Len(batch') : batch'[i] = batch[i + 1] /\ i + 1 \in 1..Len(batch)
        /\ Len(batch) \in Nat \ {0} /\ Len(batch') = Len(batch) - 1
    BY <1>1, Popped
  <1>3. b \in offset..posted /\ b \in Nat \ {0} /\ offset' = b + 1
    <2>1. 1 \in 1..Len(batch)
      BY <1>2
    <2>2. b \in offset..posted /\ b \in Nat \ {0}
      BY <1>2, <2>1, MimiAssumption DEF BatchInv, Updates
    <2> QED BY <1>1, <2>2 DEF TakeUpdate, Larger
  <1>4. \A i \in 1..Len(batch') : batch'[i] = b + i /\ batch'[i] \in offset'..posted
    <2> SUFFICES ASSUME NEW i \in 1..Len(batch') PROVE batch'[i] = b + i /\ batch'[i] \in offset'..posted
      OBVIOUS
    <2>1. batch[i + 1] = b + (i + 1) - 1 /\ batch[i + 1] \in offset..posted
      BY <1>2 DEF BatchInv
    <2> QED BY <1>1, <1>2, <1>3, <2>1
  <1>5. /\ batch' # <<>> => 1 \in 1..Len(batch')
        /\ \A i \in 1..Len(batch') : batch' # <<>>
    BY <1>2, EmptySeq
  <1>6. batch' # <<>> => batch'[1] = b + 1
    BY <1>4, <1>5
  <1> HIDE DEF b
  <1>7. BatchInv'
    <2>1. \A i \in 1..Len(batch') : batch'[i] = batch'[1] + i - 1
      <3> SUFFICES ASSUME NEW i \in 1..Len(batch') PROVE batch'[i] = batch'[1] + i - 1
        OBVIOUS
      <3> QED BY <1>3, <1>4, <1>5, <1>6
    <2>2. \A u \in 1..posted : u <= confirmed \/ u < b => u \in taken
      BY <1>1, <1>2 DEF BatchInv
    <2>3. \A u \in 1..posted :
            u <= confirmed \/ u < offset' \/ (batch' # <<>> /\ u < batch'[1]) => u \in taken'
      <3> SUFFICES ASSUME NEW u \in 1..posted, u <= confirmed \/ u < b + 1 PROVE u \in taken'
        BY <1>3, <1>6
      <3>1. u <= confirmed \/ u < b \/ u = b
        BY <1>3
      <3> QED BY <1>1, <2>2, <3>1
    <2> QED BY <1>1, <1>4, <2>1, <2>3 DEF BatchInv
  <1>8. offset' \in 0..(posted' + 1)
    BY <1>1, <1>3
  <1>9. tg_msg' \in InTexts \cup {NoMsg} /\ heap' \subseteq InTexts \cup OutTexts /\ leaked \subseteq heap'
    <2>1. TakeText(b) /\ tg_msg = NoMsg
      BY DEF TakeUpdate, b
    <2> QED BY <1>2, <2>1, Texts DEF TakeText, TypeOK
  <1>10. TypeOK' /\ AgentInv'
    BY <1>1, <1>2, <1>8, <1>9 DEF TakeUpdate, TypeOK, AgentInv, busVars, telegramVars, agentVars, dispVars
  <1> QED BY <1>1, <1>2, <1>3, <1>7, <1>10 DEF b

LEMMA Numbers ==
  ASSUME TypeOK
  PROVE  offset \in Nat /\ posted \in Nat /\ confirmed \in Nat /\ iteration \in Nat /\ newest \in Nat
  BY MimiAssumption DEF TypeOK

LEMMA BatchKept ==
  ASSUME BatchInv, UNCHANGED <<posted, confirmed, batch, offset, taken>>
  PROVE  BatchInv'
  BY DEF BatchInv

LEMMA UnionOfSix ==
  ASSUME NEW a, NEW b, NEW c, NEW d, NEW e, NEW f
  PROVE  UNION {a, b, c, d, e, f} = a \cup b \cup c \cup d \cup e \cup f
  OBVIOUS

(* A task's text is owned, and so is a queued one. *)
LEMMA Owners ==
  /\ \A m \in {tg_msg, agent_msg, agent_out, disp_msg} : m # NoMsg => m \in Owned
  /\ Queued(inbound) \subseteq Owned /\ Queued(outbound) \subseteq Owned
  BY UnionOfSix DEF Owned, Held

LEMMA NextTyped ==
  ASSUME TypeOK, AgentInv, BatchInv, OnlyFailedPushesLeak, [Next]_vars
  PROVE  TypeOK' /\ AgentInv' /\ BatchInv'
  <1> USE DEF vars, busVars, telegramVars, pollVars, agentVars, dispVars, heapVars
  <1>1. CASE UNCHANGED vars
    BY <1>1, BatchKept DEF TypeOK, AgentInv
  <1>2. CASE NewUpdate
    <2>1. BatchInv'
      <3>1. /\ posted \in Nat /\ posted' = posted + 1 /\ offset \in 0..(posted + 1) /\ confirmed \in 0..posted
            /\ UNCHANGED <<confirmed, batch, offset, taken>>
        BY <1>2, MimiAssumption DEF NewUpdate, TypeOK
      <3>2. \A i \in 1..Len(batch) : batch[i] = batch[1] + i - 1 /\ batch[i] \in offset..posted'
        BY <3>1 DEF BatchInv
      <3>3. batch # <<>> => batch[1] \in offset..posted
        <4>1. batch # <<>> => 1 \in 1..Len(batch)
          BY Popped DEF TypeOK
        <4> QED BY <4>1 DEF BatchInv
      <3>4. \A u \in 1..posted' :
              u <= confirmed \/ u < offset \/ (batch # <<>> /\ u < batch[1]) => u \in 1..posted
        BY <3>1, <3>3
      <3> QED BY <3>1, <3>2, <3>4 DEF BatchInv
    <2>2. TypeOK' /\ AgentInv'
      BY <1>2, MimiAssumption DEF NewUpdate, TypeOK, AgentInv
    <2> QED BY <2>1, <2>2
  <1>3. CASE Poll
    BY <1>3, PollTyped
  <1>4. CASE TakeUpdate
    BY <1>4, TakeUpdateTyped
  <1>5. CASE TgPush
    <2>1. /\ tg_msg \in InTexts /\ tg_msg \in heap
          /\ heap' = heap /\ leaked' \subseteq leaked \cup {tg_msg}
      BY <1>5, Owners DEF TgPush, TypeOK, OnlyFailedPushesLeak
    <2>2. inbound' \in Seq(InTexts) /\ Len(inbound') <= QueueLen
      <3>1. inbound \in Seq(InTexts) /\ Len(inbound) \in Nat /\ Len(inbound) <= QueueLen
        BY LenProperties DEF TypeOK
      <3>2. CASE PushInbound(tg_msg)
        <4>1. inbound' = Append(inbound, tg_msg) /\ Len(inbound) < QueueLen
          BY <3>2 DEF PushInbound
        <4>2. Append(inbound, tg_msg) \in Seq(InTexts) /\ Len(Append(inbound, tg_msg)) = Len(inbound) + 1
          BY <2>1, <3>1, Pushed
        <4> QED BY <3>1, <4>1, <4>2, QueueLenAssumption
      <3> QED BY <1>5, <3>1, <3>2 DEF TgPush, PushInboundFails
    <2> QED BY <1>5, <2>1, <2>2, BatchKept DEF TgPush, TypeOK, AgentInv
  <1>6. CASE AgentPop
    <2>1. inbound # <<>> /\ inbound' = Tail(inbound) /\ inbound \in Seq(InTexts) /\ Len(inbound) <= QueueLen
      BY <1>6 DEF AgentPop, PopInbound, TypeOK
    <2>2. Head(inbound) \in InTexts /\ inbound' \in Seq(InTexts) /\ Len(inbound') <= QueueLen
      BY <2>1, Popped, QueueLenAssumption
    <2> QED BY <1>6, <2>2, Texts, MimiAssumption, BatchKept DEF AgentPop, TypeOK, AgentInv
  <1>7. CASE StartRound
    <2>1. agent_pc = "round" /\ agent_out = NoMsg /\ agent_msg \in InTexts /\ iteration \in 0..(MaxIter - 1)
      BY <1>7, MimiAssumption DEF StartRound, TypeOK, AgentInv
    <2>2. <<"status", About(agent_msg), iteration>> \in OutTexts
      BY <2>1, Texts
    <2> QED BY <1>7, <2>1, <2>2, Texts, BatchKept DEF StartRound, Prepare, TypeOK, AgentInv
  <1>8. CASE AskForTools
    <2>1. iteration' \in 0..MaxIter
      BY <1>8, MimiAssumption DEF AskForTools, TypeOK, AgentInv
    <2> QED BY <1>8, <2>1, BatchKept DEF AskForTools, TypeOK, AgentInv
  <1>9. CASE EndLoop
    <2>1. agent_pc \in {"round", "ask"} /\ agent_out = NoMsg /\ agent_msg \in InTexts
      BY <1>9 DEF EndLoop, TypeOK, AgentInv
    <2>2. PICK n \in 1..MaxChunks : Prepare(<<"answer", About(agent_msg), n>>, "push_answer", "cleanup")
      BY <1>9, MimiAssumption DEF EndLoop
    <2>3. <<"answer", About(agent_msg), n>> \in OutTexts
      BY <2>1, Texts
    <2>4. 0 \in 0..MaxIter
      BY MimiAssumption
    <2> QED BY <1>9, <2>1, <2>2, <2>3, <2>4, Texts, BatchKept DEF EndLoop, Prepare, TypeOK, AgentInv
  <1>10. CASE AgentPush
    <2>1. /\ agent_out \in OutTexts /\ agent_out \in heap
          /\ heap' = heap /\ leaked' \subseteq leaked \cup {agent_out}
      BY <1>10, Owners DEF AgentPush, TypeOK, AgentInv, OnlyFailedPushesLeak
    <2>2. outbound' \in Seq(OutTexts) /\ Len(outbound') <= QueueLen
      <3>1. outbound \in Seq(OutTexts) /\ Len(outbound) \in Nat /\ Len(outbound) <= QueueLen
        BY LenProperties DEF TypeOK
      <3>2. CASE PushOutbound(agent_out)
        <4>1. outbound' = Append(outbound, agent_out) /\ Len(outbound) < QueueLen
          BY <3>2 DEF PushOutbound
        <4>2. /\ Append(outbound, agent_out) \in Seq(OutTexts)
              /\ Len(Append(outbound, agent_out)) = Len(outbound) + 1
          BY <2>1, <3>1, Pushed
        <4> QED BY <3>1, <4>1, <4>2, QueueLenAssumption
      <3> QED BY <1>10, <3>1, <3>2 DEF AgentPush, PushOutboundFails
    <2> QED BY <1>10, <2>1, <2>2, BatchKept DEF AgentPush, TypeOK, AgentInv
  <1>11. CASE AgentCleanup
    <2>1. agent_msg \notin leaked
      BY <1>11, Owners DEF AgentCleanup, TypeOK, OnlyFailedPushesLeak
    <2>2. agent_out = NoMsg
      BY <1>11 DEF AgentCleanup, AgentInv
    <2> QED BY <1>11, <2>1, <2>2, MimiAssumption, BatchKept DEF AgentCleanup, TypeOK, AgentInv
  <1>12. CASE DispatchPop
    <2>1. outbound # <<>> /\ outbound' = Tail(outbound) /\ outbound \in Seq(OutTexts) /\ Len(outbound) <= QueueLen
      BY <1>12 DEF DispatchPop, PopOutbound, TypeOK
    <2>2. Head(outbound) \in OutTexts /\ outbound' \in Seq(OutTexts) /\ Len(outbound') <= QueueLen
      BY <2>1, Popped, QueueLenAssumption
    <2>3. Chunks(Head(outbound)) \in 1..MaxChunks /\ 1 \in 1..MaxChunks
      BY <2>2, Places, MimiAssumption
    <2> QED BY <1>12, <2>2, <2>3, Texts, BatchKept DEF DispatchPop, TypeOK, AgentInv
  <1>13. ASSUME disp_msg # NoMsg, DoneSending \/ NextChunk \/ UNCHANGED <<disp_msg, disp_chunk, heap>>
         PROVE  /\ disp_msg' \in OutTexts \cup {NoMsg} /\ disp_chunk' \in 1..MaxChunks
                /\ disp_msg' # NoMsg => disp_chunk' <= Chunks(disp_msg')
                /\ heap' \subseteq InTexts \cup OutTexts /\ leaked \subseteq heap'
                /\ Place(disp_msg, disp_chunk) \in Nat
    <2>1. /\ disp_msg \in OutTexts /\ disp_msg \notin leaked /\ leaked \subseteq heap
          /\ heap \subseteq InTexts \cup OutTexts
      BY <1>13, Owners DEF TypeOK, OnlyFailedPushesLeak
    <2>2. Chunks(disp_msg) \in 1..MaxChunks /\ disp_chunk \in 1..Chunks(disp_msg) /\ MaxChunks \in Nat \ {0}
      BY <1>13, <2>1, Places, MimiAssumption DEF TypeOK, AgentInv
    <2>3. Place(disp_msg, disp_chunk) \in Nat
      BY <2>1, <2>2, Places
    <2> QED BY <1>13, <2>1, <2>2, <2>3 DEF DoneSending, NextChunk
  <1>14. CASE SendChunk
    <2>1. disp_msg # NoMsg /\ (DoneSending \/ NextChunk \/ UNCHANGED <<disp_msg, disp_chunk, heap>>)
      BY <1>14 DEF SendChunk
    <2>2. newest' \in Nat /\ in_order' \in BOOLEAN /\ disp_plain' \in BOOLEAN
      BY <1>13, <1>14, <2>1 DEF SendChunk, Arrives, TypeOK, NextChunk
    <2> QED BY <1>13, <1>14, <2>1, <2>2, BatchKept DEF SendChunk, TypeOK, AgentInv
  <1>15. CASE SendPlain
    <2>1. disp_msg # NoMsg /\ NextChunk
      BY <1>15 DEF SendPlain
    <2>2. newest' \in Nat /\ in_order' \in BOOLEAN /\ disp_plain' \in BOOLEAN
      BY <1>13, <1>15, <2>1 DEF SendPlain, Arrives, TypeOK, NextChunk
    <2> QED BY <1>13, <1>15, <2>1, <2>2, BatchKept DEF SendPlain, TypeOK, AgentInv
  <1>16. CASE GiveUpSending
    <2>1. disp_msg # NoMsg /\ DoneSending
      BY <1>16 DEF GiveUpSending
    <2> QED BY <1>13, <1>16, <2>1, BatchKept DEF GiveUpSending, TypeOK, AgentInv
  <1>17. CASE Restart
    <2>1. <<>> \in Seq(InTexts) /\ <<>> \in Seq(OutTexts) /\ <<>> \in Seq(Updates) /\ Len(<<>>) = 0
      BY EmptySeq
    <2>2. posted \in 0..MaxUpdates /\ confirmed \in 0..posted /\ MaxUpdates \in Nat /\ 0 \in 0..(posted + 1)
          /\ 0 \in 0..MaxIter /\ 1 \in 1..MaxChunks /\ 0 <= QueueLen
      BY MimiAssumption, QueueLenAssumption DEF TypeOK
    <2>3. BatchInv'
      <3>1. \A u \in 1..posted : u <= confirmed \/ u < 0 => u \in taken
        BY <2>2 DEF BatchInv
      <3> QED BY <1>17, <2>1, <3>1 DEF Restart, BatchInv
    <2>4. TypeOK'
      BY <1>17, <2>1, <2>2 DEF Restart, AgentStarts, TypeOK
    <2> QED BY <1>17, <2>3, <2>4 DEF Restart, AgentStarts, AgentInv
  <1> QED
    BY <1>1, <1>2, <1>3, <1>4, <1>5, <1>6, <1>7, <1>8, <1>9, <1>10, <1>11, <1>12, <1>14, <1>15,
       <1>16, <1>17
    DEF Next, Poller, Agent, Dispatcher

----------------------------------------------------------------------------
(* The updates on their way to an answer follow each other: the agent's,   *)
(* those in the inbound queue, the poller's, and all are below the offset. *)

InOrder ==
    /\ agent_msg # NoMsg => About(agent_msg) < offset
    /\ tg_msg # NoMsg => About(tg_msg) < offset
    /\ agent_msg # NoMsg /\ tg_msg # NoMsg => About(agent_msg) < About(tg_msg)
    /\ \A i \in 1..Len(inbound) :
         /\ About(inbound[i]) < offset
         /\ agent_msg # NoMsg => About(agent_msg) < About(inbound[i])
         /\ tg_msg # NoMsg => About(inbound[i]) < About(tg_msg)
    /\ \A i, j \in 1..Len(inbound) : i < j => About(inbound[i]) < About(inbound[j])
    /\ \A m \in leaked \cap InTexts : About(m) < offset

LEMMA NextInOrder ==
  ASSUME TypeOK, AgentInv, BatchInv, InOrder, [Next]_vars
  PROVE  InOrder'
  <1> USE DEF vars, busVars, telegramVars, pollVars, agentVars, dispVars, heapVars
  <1>1. ASSUME UNCHANGED <<inbound, offset, tg_msg, agent_msg>>, leaked' \cap InTexts = leaked \cap InTexts
        PROVE  InOrder'
    BY <1>1 DEF InOrder
  <1>2. CASE UNCHANGED vars \/ NewUpdate \/ Poll
    BY <1>1, <1>2 DEF NewUpdate, Poll
  <1>3. CASE StartRound \/ AskForTools \/ EndLoop
    BY <1>1, <1>3 DEF StartRound, AskForTools, EndLoop
  <1>4. CASE AgentPush
    <2>1. agent_out \in OutTexts
      BY <1>4 DEF AgentPush, AgentInv, TypeOK
    <2> QED BY <1>1, <1>4, <2>1, Texts DEF AgentPush, PushOutbound, PushOutboundFails
  <1>5. CASE DispatchPop \/ SendChunk \/ SendPlain \/ GiveUpSending
    BY <1>1, <1>5 DEF DispatchPop, SendChunk, SendPlain, GiveUpSending
  <1>6. CASE TakeUpdate
    <2> DEFINE b == Head(batch)
    <2>1. /\ b \in Updates /\ b \in Nat /\ offset <= b /\ offset' = b + 1 /\ offset \in Nat
          /\ tg_msg = NoMsg /\ tg_msg' \in {NoMsg, InText(b)}
          /\ About(InText(b)) = b
          /\ UNCHANGED <<inbound, agent_msg, leaked>>
      <3>1. b \in Updates /\ b >= offset /\ offset' = b + 1
        BY <1>6, TakeUpdateTyped
      <3>2. b \in Nat /\ offset \in Nat /\ About(InText(b)) = b
        BY <3>1, Texts, Numbers
      <3>3. TakeText(b) /\ tg_msg = NoMsg /\ UNCHANGED <<inbound, agent_msg, leaked>>
        BY <1>6 DEF TakeUpdate
      <3> QED BY <3>1, <3>2, <3>3 DEF TakeText
    <2>2. /\ agent_msg # NoMsg => About(agent_msg) \in Nat
          /\ \A i \in 1..Len(inbound) : About(inbound[i]) \in Nat
          /\ \A m \in leaked \cap InTexts : About(m) \in Nat
      BY Texts, QueuedInSet DEF TypeOK
    <2> HIDE DEF b
    <2> QED BY <2>1, <2>2 DEF InOrder
  <1>7. CASE TgPush
    <2>1. /\ tg_msg \in InTexts /\ tg_msg' = NoMsg /\ inbound \in Seq(InTexts)
          /\ UNCHANGED <<agent_msg, offset>>
      BY <1>7 DEF TgPush, TypeOK
    <2>2. CASE PushInbound(tg_msg) /\ leaked' = leaked
      <3> DEFINE p == Append(inbound, tg_msg)
      <3>1. /\ inbound' = p /\ Len(p) = Len(inbound) + 1 /\ Len(inbound) \in Nat
            /\ \A i \in 1..Len(inbound) : p[i] = inbound[i]
            /\ p[Len(inbound) + 1] = tg_msg
        BY <2>1, <2>2, Pushed DEF PushInbound
      <3>2. \A i \in 1..Len(p) : i \in 1..Len(inbound) \/ i = Len(inbound) + 1
        BY <3>1
      <3> HIDE DEF p
      <3> QED BY <2>1, <2>2, <3>1, <3>2, Texts DEF InOrder
    <2>3. CASE PushInboundFails /\ leaked' = leaked \cup {tg_msg}
      BY <2>1, <2>3, Texts DEF InOrder, PushInboundFails
    <2> QED BY <1>7, <2>2, <2>3 DEF TgPush
  <1>8. CASE AgentPop
    <2>1. /\ inbound # <<>> /\ inbound \in Seq(InTexts) /\ inbound' = Tail(inbound)
          /\ agent_msg' = Head(inbound) /\ UNCHANGED <<offset, tg_msg, leaked>>
      BY <1>8 DEF AgentPop, PopInbound, TypeOK
    <2>2. /\ agent_msg' = inbound[1]
          /\ Len(inbound) \in Nat \ {0} /\ Len(inbound') = Len(inbound) - 1
          /\ \A i \in 1..Len(inbound') : inbound'[i] = inbound[i + 1] /\ i + 1 \in 1..Len(inbound)
      BY <2>1, Popped
    <2>3. 1 \in 1..Len(inbound) /\ \A i \in 1..Len(inbound') : 1 < i + 1
      BY <2>2
    <2>4. \A i \in 1..Len(inbound') :
            /\ About(inbound'[i]) < offset /\ About(agent_msg') < About(inbound'[i])
            /\ tg_msg # NoMsg => About(inbound'[i]) < About(tg_msg)
      BY <2>2, <2>3 DEF InOrder
    <2>5. \A i, j \in 1..Len(inbound') : i < j => About(inbound'[i]) < About(inbound'[j])
      <3> SUFFICES ASSUME NEW i \in 1..Len(inbound'), NEW j \in 1..Len(inbound'), i < j
                   PROVE  About(inbound'[i]) < About(inbound'[j])
        OBVIOUS
      <3>1. i + 1 < j + 1
        BY <2>2
      <3> QED BY <2>2, <3>1 DEF InOrder
    <2> QED BY <2>1, <2>2, <2>3, <2>4, <2>5 DEF InOrder
  <1>9. CASE AgentCleanup
    BY <1>9 DEF AgentCleanup, InOrder
  <1>10. CASE Restart
    <2>1. inbound' = <<>> /\ Len(<<>>) = 0 /\ agent_msg' = NoMsg /\ tg_msg' = NoMsg /\ leaked' = {}
      BY <1>10 DEF Restart
    <2> QED BY <2>1 DEF InOrder
  <1> QED
    BY <1>2, <1>3, <1>4, <1>5, <1>6, <1>7, <1>8, <1>9, <1>10 DEF Next, Poller, Agent, Dispatcher

----------------------------------------------------------------------------
(* The order of the pieces.  The texts the agent may still make come after *)
(* every text that was made; the one it holds comes after those in the     *)
(* queue, and these after what is being sent and what arrived.             *)

(* The number of the next working notice of the current turn. *)
NextStatus == IF agent_pc \in {"push_status", "ask"} THEN iteration + 1 ELSE iteration

(* The agent may still make the text m: its update waits somewhere before  *)
(* the agent, or the turn has not come to it yet.                          *)
Waits(u) ==
    \/ u >= offset
    \/ tg_msg # NoMsg /\ u = About(tg_msg)
    \/ \E i \in 1..Len(inbound) : u = About(inbound[i])

Later(m) ==
    \/ Waits(About(m))
    \/ /\ agent_msg # NoMsg /\ About(m) = About(agent_msg)
       /\ agent_pc \notin {"push_answer", "cleanup"}
       /\ m[1] = "status" => m[3] >= NextStatus

(* Texts that were made and are still there. *)
Made == Held(disp_msg) \cup Queued(outbound) \cup Held(agent_out) \cup (leaked \cap OutTexts)

LaterComesLast ==
    \A m \in OutTexts : Later(m) =>
        newest < First(m) /\ \A n \in Made : Last(n) < First(m)

PreparedComesNext ==
    agent_out # NoMsg =>
        /\ newest < First(agent_out)
        /\ \A n \in Held(disp_msg) \cup Queued(outbound) : Last(n) < First(agent_out)

QueuedInOrder ==
    \A i \in 1..Len(outbound) :
        /\ newest < First(outbound[i])
        /\ disp_msg # NoMsg => Last(disp_msg) < First(outbound[i])
        /\ \A j \in 1..Len(outbound) : i < j => Last(outbound[i]) < First(outbound[j])

SendingComesFirst == disp_msg # NoMsg => newest < Place(disp_msg, disp_chunk)

OutOrder == LaterComesLast /\ PreparedComesNext /\ QueuedInOrder /\ SendingComesFirst

(* An update that waits comes after the one the agent is at. *)
LEMMA WaitsLater ==
  ASSUME TypeOK, InOrder, agent_msg # NoMsg, NEW u \in Updates, Waits(u)
  PROVE  About(agent_msg) < u
  <1>1. About(agent_msg) \in Nat /\ u \in Nat /\ offset \in Nat
    BY Texts, Numbers DEF TypeOK
  <1> QED BY <1>1 DEF Waits, InOrder

(* Whatever the agent may still make it could make before, a restart apart. *)
LEMMA LaterShrinks ==
  ASSUME TypeOK, AgentInv, BatchInv, [Next]_vars, ~Restart
  PROVE  \A m \in OutTexts : Later(m)' => Later(m)
  <1> USE DEF vars, busVars, telegramVars, pollVars, agentVars, dispVars, heapVars
  <1>1. ASSUME UNCHANGED <<offset, tg_msg, inbound>>
        PROVE  \A u : Waits(u)' <=> Waits(u)
    BY <1>1 DEF Waits
  <1>2. ASSUME UNCHANGED <<agent_msg, agent_pc, iteration>>, \A u \in Updates : Waits(u)' => Waits(u)
        PROVE  \A m \in OutTexts : Later(m)' => Later(m)
    BY <1>2, Texts DEF Later, NextStatus, About
  <1>3. CASE UNCHANGED vars \/ NewUpdate \/ Poll
    BY <1>1, <1>2, <1>3 DEF NewUpdate, Poll
  <1>4. CASE DispatchPop \/ SendChunk \/ SendPlain \/ GiveUpSending
    BY <1>1, <1>2, <1>4 DEF DispatchPop, SendChunk, SendPlain, GiveUpSending
  <1>5. CASE TakeUpdate
    <2> DEFINE b == Head(batch)
    <2>1. b \in Updates /\ b >= offset /\ offset' = b + 1
      BY <1>5, TakeUpdateTyped
    <2>2. b \in Nat /\ offset \in Nat /\ About(InText(b)) = b
      BY <2>1, Texts, Numbers
    <2>3. TakeText(b) /\ tg_msg = NoMsg /\ UNCHANGED <<inbound, agent_msg, agent_pc, iteration>>
      BY <1>5 DEF TakeUpdate
    <2> HIDE DEF b
    <2>4. ASSUME NEW u \in Updates, Waits(u)' PROVE Waits(u)
      <3>1. u \in Nat
        BY Texts
      <3>2. CASE u >= offset'
        BY <2>1, <2>2, <3>1, <3>2 DEF Waits
      <3>3. CASE tg_msg' # NoMsg /\ u = About(tg_msg')
        BY <2>1, <2>2, <2>3, <3>3 DEF Waits, TakeText
      <3> QED BY <2>3, <2>4, <3>2, <3>3 DEF Waits
    <2> QED BY <1>2, <2>3, <2>4
  <1>6. CASE TgPush
    <2>1. /\ tg_msg \in InTexts /\ tg_msg # NoMsg /\ tg_msg' = NoMsg /\ inbound \in Seq(InTexts)
          /\ UNCHANGED <<agent_msg, agent_pc, iteration, offset>>
      BY <1>6 DEF TgPush, TypeOK
    <2>2. CASE PushInbound(tg_msg)
      <3> DEFINE p == Append(inbound, tg_msg)
      <3>1. /\ inbound' = p /\ Len(p) = Len(inbound) + 1 /\ Len(inbound) \in Nat
            /\ \A i \in 1..Len(inbound) : p[i] = inbound[i]
            /\ p[Len(inbound) + 1] = tg_msg
        BY <2>1, <2>2, Pushed DEF PushInbound
      <3>2. \A i \in 1..Len(p) : i \in 1..Len(inbound) \/ i = Len(inbound) + 1
        BY <3>1
      <3> HIDE DEF p
      <3> QED BY <1>2, <2>1, <3>1, <3>2 DEF Waits
    <2>3. CASE PushInboundFails
      BY <1>2, <2>1, <2>3 DEF Waits, PushInboundFails
    <2> QED BY <1>6, <2>2, <2>3 DEF TgPush
  <1>7. CASE AgentPop
    <2>1. /\ inbound # <<>> /\ inbound \in Seq(InTexts) /\ inbound' = Tail(inbound)
          /\ agent_msg' = Head(inbound) /\ UNCHANGED <<offset, tg_msg>>
      BY <1>7 DEF AgentPop, PopInbound, TypeOK
    <2>2. /\ agent_msg' = inbound[1] /\ 1 \in 1..Len(inbound)
          /\ \A i \in 1..Len(inbound') : inbound'[i] = inbound[i + 1] /\ i + 1 \in 1..Len(inbound)
      BY <2>1, Popped
    <2> SUFFICES ASSUME NEW m \in OutTexts, Later(m)' PROVE Waits(About(m))
      BY DEF Later
    <2> QED BY <2>1, <2>2 DEF Later, Waits, About
  <1>8. ASSUME StartRound \/ AskForTools \/ EndLoop \/ AgentPush \/ AgentCleanup
        PROVE  \A m \in OutTexts : Later(m)' => Later(m)
    <2>1. UNCHANGED <<offset, tg_msg, inbound>>
      BY <1>8 DEF StartRound, AskForTools, EndLoop, AgentPush, AgentCleanup, PushOutbound, PushOutboundFails
    <2>2. /\ agent_msg' \in {agent_msg, NoMsg}
          /\ agent_msg' # NoMsg /\ agent_pc' \notin {"push_answer", "cleanup"} =>
               agent_pc \notin {"push_answer", "cleanup"} /\ NextStatus' >= NextStatus
      BY <1>8, MimiAssumption
      DEF StartRound, AskForTools, EndLoop, AgentPush, AgentCleanup, Prepare, NextStatus, TypeOK
    <2>3. NextStatus \in Nat /\ NextStatus' \in Nat
      <3>1. iteration \in Nat /\ iteration' \in Nat
        BY <1>8, MimiAssumption
        DEF StartRound, AskForTools, EndLoop, AgentPush, AgentCleanup, TypeOK
      <3>2. \A k \in Nat : k + 1 \in Nat
        OBVIOUS
      <3>3. NextStatus \in {iteration, iteration + 1} /\ NextStatus' \in {iteration', iteration' + 1}
        BY DEF NextStatus
      <3> QED BY <3>1, <3>2, <3>3
    <2> SUFFICES ASSUME NEW m \in OutTexts, Later(m)', ~Waits(About(m)) PROVE Later(m)
      BY DEF Later
    <2>4. /\ agent_msg' # NoMsg /\ About(m) = About(agent_msg')
          /\ agent_pc' \notin {"push_answer", "cleanup"}
          /\ m[1] = "status" => m[3] >= NextStatus'
      BY <1>1, <2>1 DEF Later, About
    <2>5. m[1] = "status" => m[3] \in Nat
      BY Texts, MimiAssumption
    <2> QED BY <2>2, <2>3, <2>4, <2>5 DEF Later
  <1> QED
    BY <1>3, <1>4, <1>5, <1>6, <1>7, <1>8 DEF Next, Poller, Agent, Dispatcher

(* The notice or answer the agent makes is one it could make, and comes    *)
(* before whatever it may make from then on.                               *)
LEMMA StatusIsNext ==
  ASSUME TypeOK, AgentInv, InOrder, StartRound
  PROVE  LET text == <<"status", About(agent_msg), iteration>> IN
           /\ text \in OutTexts /\ Later(text) /\ agent_out = NoMsg
           /\ \A m \in OutTexts : Later(m)' => Last(text) < First(m)
  <1> DEFINE text == <<"status", About(agent_msg), iteration>>
  <1>1. /\ agent_pc = "round" /\ agent_out = NoMsg /\ agent_msg \in InTexts /\ agent_msg # NoMsg
        /\ iteration \in 0..(MaxIter - 1) /\ About(agent_msg) \in Updates
        /\ UNCHANGED <<offset, tg_msg, inbound, agent_msg, iteration>>
        /\ agent_pc' \in {"push_status", "ask"}
    BY MimiAssumption, Texts
    DEF StartRound, Prepare, TypeOK, AgentInv, busVars, pollVars
  <1>2. /\ text \in OutTexts /\ About(text) = About(agent_msg)
        /\ text[1] = "status" /\ text[3] = iteration
    BY <1>1, Texts
  <1>3. iteration \in Nat /\ NextStatus = iteration /\ NextStatus' = iteration + 1
    BY <1>1, MimiAssumption DEF NextStatus
  <1> HIDE DEF text
  <1>4. Later(text)
    BY <1>1, <1>2, <1>3 DEF Later
  <1>5. ASSUME NEW m \in OutTexts, Later(m)'
        PROVE  Last(text) < First(m)
    <2>1. CASE Waits(About(m))
      <3>1. About(text) < About(m)
        BY <1>1, <1>2, <2>1, WaitsLater, Texts
      <3> QED BY <1>2, <3>1, Places
    <2>2. CASE ~Waits(About(m))
      <3>1. ~(Waits(About(m))')
        BY <1>1, <2>2 DEF Waits, About
      <3>2. About(m) = About(agent_msg) /\ (m[1] = "status" => m[3] >= iteration + 1)
        BY <1>1, <1>3, <1>5, <3>1 DEF Later
      <3>3. m[1] = "status" => m[3] \in Nat
        BY Texts, MimiAssumption
      <3>4. m[1] = "status" => text[3] < m[3]
        BY <1>2, <1>3, <3>2, <3>3
      <3> QED BY <1>2, <3>2, <3>4, Places
    <2> QED BY <2>1, <2>2
  <1> QED BY <1>1, <1>2, <1>4, <1>5 DEF text

LEMMA AnswerIsNext ==
  ASSUME TypeOK, AgentInv, InOrder, EndLoop, NEW n \in 1..MaxChunks
  PROVE  LET text == <<"answer", About(agent_msg), n>> IN
           /\ text \in OutTexts /\ Later(text) /\ agent_out = NoMsg
           /\ \A m \in OutTexts : Later(m)' => Last(text) < First(m)
  <1> DEFINE text == <<"answer", About(agent_msg), n>>
  <1>1. /\ agent_pc \in {"round", "ask"} /\ agent_out = NoMsg
        /\ agent_msg \in InTexts /\ agent_msg # NoMsg /\ About(agent_msg) \in Updates
        /\ UNCHANGED <<offset, tg_msg, inbound, agent_msg>>
        /\ agent_pc' \in {"push_answer", "cleanup"}
    BY Texts DEF EndLoop, Prepare, TypeOK, AgentInv, busVars, pollVars
  <1>2. /\ text \in OutTexts /\ About(text) = About(agent_msg) /\ text[1] = "answer"
    BY <1>1, Texts
  <1> HIDE DEF text
  <1>3. Later(text)
    BY <1>1, <1>2 DEF Later
  <1>4. ASSUME NEW m \in OutTexts, Later(m)'
        PROVE  Last(text) < First(m)
    <2>1. Waits(About(m))'
      BY <1>1, <1>4 DEF Later
    <2>2. Waits(About(m))
      BY <1>1, <2>1 DEF Waits, About
    <2>3. About(text) < About(m)
      BY <1>1, <1>2, <2>2, WaitsLater, Texts
    <2> QED BY <1>2, <2>3, Places
  <1> QED BY <1>1, <1>2, <1>3, <1>4 DEF text

(* Making a text keeps the order. *)
LEMMA PreparedInOrder ==
  ASSUME TypeOK, OutOrder, NEW text \in OutTexts, Later(text), agent_out = NoMsg,
         \A m \in OutTexts : Later(m)' => Last(text) < First(m),
         \A m \in OutTexts : Later(m)' => Later(m),
         agent_out' = text \/ agent_out' = agent_out,
         UNCHANGED <<outbound, disp_msg, disp_chunk, newest, leaked>>
  PROVE  OutOrder'
  <1>1. Made' \subseteq Made \cup {text}
    BY DEF Made, Held, Queued
  <1>2. LaterComesLast'
    BY <1>1 DEF OutOrder, LaterComesLast
  <1>3. PreparedComesNext'
    <2>1. newest < First(text) /\ \A n \in Held(disp_msg) \cup Queued(outbound) : Last(n) < First(text)
      BY DEF OutOrder, LaterComesLast, Made
    <2> QED BY <2>1 DEF PreparedComesNext, Held, Queued
  <1>4. QueuedInOrder' /\ SendingComesFirst'
    BY DEF OutOrder, QueuedInOrder, SendingComesFirst
  <1> QED BY <1>2, <1>3, <1>4 DEF OutOrder

(* So does sending, a piece at a time. *)
LEMMA SentInOrder ==
  ASSUME TypeOK, AgentInv, OutOrder, disp_msg # NoMsg,
         newest' = newest \/ newest' = Place(disp_msg, disp_chunk),
         \/ UNCHANGED <<disp_msg, disp_chunk, newest>>
         \/ disp_msg' = NoMsg
         \/ disp_msg' = disp_msg /\ disp_chunk < Chunks(disp_msg) /\ disp_chunk' = disp_chunk + 1,
         \A m \in OutTexts : Later(m)' => Later(m),
         UNCHANGED <<outbound, agent_out, leaked>>
  PROVE  OutOrder'
  <1>1. disp_msg \in OutTexts /\ disp_chunk \in 1..Chunks(disp_msg) /\ disp_msg \in Made
    <2>1. disp_msg \in OutTexts /\ Chunks(disp_msg) \in 1..MaxChunks
      BY Places DEF TypeOK
    <2> QED BY <2>1, MimiAssumption DEF TypeOK, AgentInv, Made, Held
  <1>2. /\ Last(disp_msg) \in Nat /\ newest \in Nat
        /\ Place(disp_msg, disp_chunk) \in Nat /\ Place(disp_msg, disp_chunk) <= Last(disp_msg)
        /\ disp_chunk < Chunks(disp_msg) => /\ Place(disp_msg, disp_chunk) < Place(disp_msg, disp_chunk + 1)
                                            /\ Place(disp_msg, disp_chunk + 1) \in Nat
    <2>1. disp_chunk < Chunks(disp_msg) => disp_chunk + 1 \in 1..Chunks(disp_msg)
      BY <1>1, Places
    <2> QED BY <1>1, <2>1, Places, Numbers
  <1>3. newest < Place(disp_msg, disp_chunk)
    BY DEF OutOrder, SendingComesFirst
  <1>4. newest' \in Nat /\ newest' <= Last(disp_msg)
    BY <1>2, <1>3
  <1>5. \A m \in OutTexts : Last(disp_msg) < First(m) => newest' < First(m)
    BY <1>2, <1>4, Places
  <1>6. Made' \subseteq Made /\ Held(disp_msg') \subseteq Held(disp_msg)
    BY DEF Made, Held, Queued
  <1>7. LaterComesLast'
    BY <1>1, <1>5, <1>6 DEF OutOrder, LaterComesLast
  <1>8. PreparedComesNext'
    <2>1. agent_out # NoMsg => agent_out \in OutTexts /\ Last(disp_msg) < First(agent_out)
      BY DEF OutOrder, PreparedComesNext, Held, TypeOK
    <2> QED BY <1>5, <1>6, <2>1 DEF OutOrder, PreparedComesNext, Queued
  <1>9. QueuedInOrder'
    <2>1. \A i \in 1..Len(outbound) : outbound[i] \in OutTexts
      BY QueuedInSet DEF TypeOK
    <2> QED BY <1>5, <2>1 DEF OutOrder, QueuedInOrder
  <1>10. SendingComesFirst'
    BY <1>2, <1>3 DEF SendingComesFirst
  <1> QED BY <1>7, <1>8, <1>9, <1>10 DEF OutOrder

LEMMA NextOutOrder ==
  ASSUME TypeOK, AgentInv, BatchInv, InOrder, OutOrder, [Next]_vars
  PROVE  OutOrder'
  <1> USE DEF vars, busVars, telegramVars, pollVars, agentVars, dispVars, heapVars
  <1>1. CASE Restart
    <2>1. /\ Len(outbound') = 0 /\ disp_msg' = NoMsg /\ agent_out' = NoMsg /\ leaked' = {} /\ newest' = 0
      BY <1>1 DEF Restart
    <2>2. Made' = {}
      BY <2>1 DEF Made, Held, Queued
    <2>3. \A m \in OutTexts : 0 < First(m)
      BY Places
    <2> QED
      BY <2>1, <2>2, <2>3
      DEF OutOrder, LaterComesLast, PreparedComesNext, QueuedInOrder, SendingComesFirst
  <1> SUFFICES ASSUME ~Restart PROVE OutOrder'
    BY <1>1
  <1>2. \A m \in OutTexts : Later(m)' => Later(m)
    BY LaterShrinks
  <1>3. ASSUME UNCHANGED <<outbound, disp_msg, disp_chunk, newest, agent_out>>,
               leaked' \cap OutTexts = leaked \cap OutTexts
        PROVE  OutOrder'
    <2>1. Made' = Made
      BY <1>3 DEF Made, Held, Queued
    <2>2. LaterComesLast'
      BY <1>2, <1>3, <2>1 DEF OutOrder, LaterComesLast
    <2>3. PreparedComesNext'
      BY <1>3 DEF OutOrder, PreparedComesNext, Held, Queued
    <2> QED BY <1>3, <2>2, <2>3 DEF OutOrder, QueuedInOrder, SendingComesFirst
  <1>4. CASE UNCHANGED vars \/ NewUpdate \/ Poll \/ TakeUpdate
    BY <1>3, <1>4 DEF NewUpdate, Poll, TakeUpdate
  <1>5. CASE TgPush
    BY <1>3, <1>5, Texts DEF TgPush, TypeOK, PushInbound, PushInboundFails
  <1>6. CASE AgentPop \/ AskForTools \/ AgentCleanup
    BY <1>3, <1>6 DEF AgentPop, AskForTools, AgentCleanup
  <1>7. CASE StartRound
    BY <1>2, <1>7, StatusIsNext, PreparedInOrder DEF StartRound, Prepare
  <1>8. CASE EndLoop
    <2>1. PICK n \in 1..MaxChunks : Prepare(<<"answer", About(agent_msg), n>>, "push_answer", "cleanup")
      BY <1>8, MimiAssumption DEF EndLoop
    <2> QED BY <1>2, <1>8, <2>1, AnswerIsNext, PreparedInOrder DEF EndLoop, Prepare
  <1>9. CASE AgentPush
    <2>1. /\ agent_out \in OutTexts /\ agent_out # NoMsg /\ agent_out' = NoMsg
          /\ UNCHANGED <<disp_msg, disp_chunk, newest>> /\ outbound \in Seq(OutTexts)
          /\ agent_out \in Made
      BY <1>9 DEF AgentPush, AgentInv, TypeOK, Made, Held
    <2>2. PreparedComesNext' /\ SendingComesFirst'
      BY <2>1 DEF OutOrder, PreparedComesNext, SendingComesFirst
    <2>3. CASE PushOutbound(agent_out) /\ leaked' = leaked
      <3> DEFINE p == Append(outbound, agent_out)
      <3>1. /\ outbound' = p /\ Len(p) = Len(outbound) + 1 /\ Len(outbound) \in Nat
            /\ \A i \in 1..Len(outbound) : p[i] = outbound[i]
            /\ p[Len(outbound) + 1] = agent_out
            /\ Queued(p) = Queued(outbound) \cup {agent_out}
        BY <2>1, <2>3, Pushed DEF PushOutbound
      <3>2. \A i \in 1..Len(p) : i \in 1..Len(outbound) \/ i = Len(outbound) + 1
        BY <3>1
      <3> HIDE DEF p
      <3>3. Made' \subseteq Made
        BY <2>1, <2>3, <3>1 DEF Made, Held
      <3>4. /\ newest < First(agent_out)
            /\ disp_msg # NoMsg => Last(disp_msg) < First(agent_out)
            /\ \A i \in 1..Len(outbound) : Last(outbound[i]) < First(agent_out)
        BY <2>1 DEF OutOrder, PreparedComesNext, Held, Queued
      <3>5. QueuedInOrder'
        <4>1. \A i \in 1..Len(p) :
                newest < First(p[i]) /\ (disp_msg # NoMsg => Last(disp_msg) < First(p[i]))
          BY <3>1, <3>2, <3>4 DEF OutOrder, QueuedInOrder
        <4>2. \A i, j \in 1..Len(p) : i < j => Last(p[i]) < First(p[j])
          <5> SUFFICES ASSUME NEW i \in 1..Len(p), NEW j \in 1..Len(p), i < j
                       PROVE  Last(p[i]) < First(p[j])
            OBVIOUS
          <5>1. i \in 1..Len(outbound)
            BY <3>1
          <5> QED BY <3>1, <3>2, <3>4, <5>1 DEF OutOrder, QueuedInOrder
        <4> QED BY <2>1, <3>1, <4>1, <4>2 DEF QueuedInOrder
      <3> QED BY <1>2, <2>1, <2>2, <3>3, <3>5 DEF OutOrder, LaterComesLast
    <2>4. CASE PushOutboundFails /\ leaked' = leaked \cup {agent_out}
      <3>1. Made' \subseteq Made
        BY <2>1, <2>4 DEF Made, Held, Queued, PushOutboundFails
      <3> QED
        BY <1>2, <2>1, <2>2, <2>4, <3>1
        DEF OutOrder, LaterComesLast, QueuedInOrder, PushOutboundFails
    <2> QED BY <1>9, <2>3, <2>4 DEF AgentPush
  <1>10. CASE DispatchPop
    <2>1. /\ outbound # <<>> /\ outbound \in Seq(OutTexts) /\ outbound' = Tail(outbound)
          /\ disp_msg = NoMsg /\ disp_msg' = Head(outbound) /\ disp_chunk' = 1
          /\ UNCHANGED <<agent_out, newest, leaked>>
      BY <1>10 DEF DispatchPop, PopOutbound, TypeOK
    <2>2. /\ disp_msg' = outbound[1]
          /\ Len(outbound) \in Nat \ {0} /\ Len(outbound') = Len(outbound) - 1
          /\ \A i \in 1..Len(outbound') : outbound'[i] = outbound[i + 1] /\ i + 1 \in 1..Len(outbound)
          /\ Queued(outbound) = Queued(outbound') \cup {disp_msg'}
      BY <2>1, Popped
    <2>3. 1 \in 1..Len(outbound) /\ \A i \in 1..Len(outbound') : 1 < i + 1
      BY <2>2
    <2>4. Held(disp_msg') \cup Queued(outbound') \subseteq Queued(outbound) /\ Made' \subseteq Made
      BY <2>1, <2>2 DEF Made, Held
    <2>5. SendingComesFirst'
      BY <2>1, <2>2, <2>3 DEF OutOrder, QueuedInOrder, SendingComesFirst, First
    <2>6. LaterComesLast' /\ PreparedComesNext'
      BY <1>2, <2>1, <2>4 DEF OutOrder, LaterComesLast, PreparedComesNext, Queued
    <2>7. QueuedInOrder'
      <3>1. \A i \in 1..Len(outbound') :
              newest < First(outbound'[i]) /\ Last(disp_msg') < First(outbound'[i])
        BY <2>2, <2>3 DEF OutOrder, QueuedInOrder
      <3>2. \A i, j \in 1..Len(outbound') : i < j => Last(outbound'[i]) < First(outbound'[j])
        <4> SUFFICES ASSUME NEW i \in 1..Len(outbound'), NEW j \in 1..Len(outbound'), i < j
                     PROVE  Last(outbound'[i]) < First(outbound'[j])
          OBVIOUS
        <4>1. i + 1 < j + 1
          BY <2>2
        <4> QED BY <2>2, <4>1 DEF OutOrder, QueuedInOrder
      <3> QED BY <2>1, <3>1, <3>2 DEF QueuedInOrder
    <2> QED BY <2>5, <2>6, <2>7 DEF OutOrder
  <1>11. CASE SendChunk
    BY <1>2, <1>11, SentInOrder DEF SendChunk, Arrives, NextChunk, DoneSending
  <1>12. CASE SendPlain
    BY <1>2, <1>12, SentInOrder DEF SendPlain, Arrives, NextChunk, DoneSending
  <1>13. CASE GiveUpSending
    BY <1>2, <1>13, SentInOrder DEF GiveUpSending, DoneSending
  <1> QED
    BY <1>4, <1>5, <1>6, <1>7, <1>8, <1>9, <1>10, <1>11, <1>12, <1>13
    DEF Next, Poller, Agent, Dispatcher

----------------------------------------------------------------------------
(* Ownership: no text has two owners, because the orders above are strict. *)

InOwned  == Held(tg_msg) \cup Queued(inbound) \cup Held(agent_msg)
OutOwned == Held(agent_out) \cup Queued(outbound) \cup Held(disp_msg)

LEMMA OwnedInTwo ==
  /\ Owned = InOwned \cup OutOwned
  /\ Owned' = InOwned' \cup OutOwned'
  BY UnionOfSix DEF Owned, InOwned, OutOwned

LEMMA OwnedKinds ==
  ASSUME TypeOK
  PROVE  InOwned \subseteq InTexts /\ OutOwned \subseteq OutTexts
  BY QueuedInSet DEF TypeOK, InOwned, OutOwned, Held

LEMMA OneOwner ==
  ASSUME TypeOK, InOrder, OutOrder
  PROVE  /\ tg_msg # NoMsg => tg_msg \notin Queued(inbound) \cup Held(agent_msg)
         /\ agent_msg # NoMsg => agent_msg \notin Held(tg_msg) \cup Queued(inbound)
         /\ agent_out # NoMsg => agent_out \notin Queued(outbound) \cup Held(disp_msg)
         /\ disp_msg # NoMsg => disp_msg \notin Held(agent_out) \cup Queued(outbound)
  <1>1. \A m \in InTexts : About(m) \in Nat
    BY Texts
  <1>2. \A n, m \in OutTexts : Last(n) < First(m) => n # m
    BY Places
  <1>3. /\ \A i \in 1..Len(inbound) : inbound[i] \in InTexts
        /\ \A i \in 1..Len(outbound) : outbound[i] \in OutTexts
    BY QueuedInSet DEF TypeOK
  <1>4. tg_msg # NoMsg => tg_msg \notin Queued(inbound) \cup Held(agent_msg)
    BY <1>1, <1>3 DEF InOrder, Queued, Held, TypeOK
  <1>5. agent_msg # NoMsg => agent_msg \notin Held(tg_msg) \cup Queued(inbound)
    BY <1>1, <1>3 DEF InOrder, Queued, Held, TypeOK
  <1>6. agent_out # NoMsg => agent_out \notin Queued(outbound) \cup Held(disp_msg)
    <2> SUFFICES ASSUME agent_out # NoMsg, NEW n \in Queued(outbound) \cup Held(disp_msg)
                 PROVE  agent_out # n
      OBVIOUS
    <2>1. n \in OutTexts /\ agent_out \in OutTexts
      BY QueuedInSet DEF TypeOK, Held
    <2> QED BY <1>2, <2>1 DEF OutOrder, PreparedComesNext
  <1>7. disp_msg # NoMsg => disp_msg \notin Held(agent_out) \cup Queued(outbound)
    <2> SUFFICES ASSUME disp_msg # NoMsg PROVE disp_msg \notin Held(agent_out) \cup Queued(outbound)
      OBVIOUS
    <2>1. disp_msg \in OutTexts
      BY DEF TypeOK
    <2>2. disp_msg \notin Held(agent_out)
      BY <1>6 DEF Held
    <2>3. disp_msg \notin Queued(outbound)
      BY <1>2, <1>3, <2>1 DEF OutOrder, QueuedInOrder, Queued
    <2> QED BY <2>2, <2>3
  <1> QED BY <1>4, <1>5, <1>6, <1>7

LEMMA NextOwnership ==
  ASSUME TypeOK, AgentInv, BatchInv, InOrder, OutOrder, OnlyFailedPushesLeak, [Next]_vars
  PROVE  OnlyFailedPushesLeak'
  <1> USE DEF vars, busVars, telegramVars, pollVars, agentVars, dispVars, heapVars
  <1>1. heap = InOwned \cup OutOwned \cup leaked /\ (InOwned \cup OutOwned) \cap leaked = {}
    BY OwnedInTwo DEF OnlyFailedPushesLeak
  <1> SUFFICES heap' = InOwned' \cup OutOwned' \cup leaked' /\ (InOwned' \cup OutOwned') \cap leaked' = {}
    BY OwnedInTwo DEF OnlyFailedPushesLeak
  <1>2. InOwned \subseteq InTexts /\ OutOwned \subseteq OutTexts /\ InTexts \cap OutTexts = {}
    BY OwnedKinds, Texts
  <1>3. ASSUME UNCHANGED <<inbound, outbound, tg_msg, agent_msg, agent_out, disp_msg, heap, leaked>>
        PROVE  heap' = InOwned' \cup OutOwned' \cup leaked' /\ (InOwned' \cup OutOwned') \cap leaked' = {}
    BY <1>1, <1>3 DEF InOwned, OutOwned, Held, Queued
  <1>4. CASE UNCHANGED vars \/ NewUpdate \/ Poll \/ AskForTools
    BY <1>3, <1>4 DEF NewUpdate, Poll, AskForTools
  <1>5. CASE TakeUpdate
    <2> DEFINE b == Head(batch)
    <2>1. b \in Updates /\ b >= offset
      BY <1>5, TakeUpdateTyped
    <2>2. b \in Nat /\ offset \in Nat /\ About(InText(b)) = b /\ InText(b) \in InTexts
      BY <2>1, Texts, Numbers
    <2>3. TakeText(b) /\ tg_msg = NoMsg /\ leaked' = leaked
      BY <1>5 DEF TakeUpdate
    <2>4. OutOwned' = OutOwned /\ UNCHANGED <<inbound, agent_msg>>
      BY <1>5 DEF TakeUpdate, OutOwned, Held, Queued
    <2> HIDE DEF b
    <2>5. InText(b) \notin leaked
      BY <2>1, <2>2 DEF InOrder
    <2>6. CASE tg_msg' = InText(b) /\ heap' = heap \cup {InText(b)}
      <3>1. InOwned' = InOwned \cup {InText(b)}
        BY <2>2, <2>3, <2>4, <2>6, Texts DEF InOwned, Held, Queued
      <3> QED BY <1>1, <2>3, <2>4, <2>5, <2>6, <3>1
    <2>7. CASE UNCHANGED <<tg_msg, heap>>
      BY <1>1, <2>3, <2>4, <2>7 DEF InOwned, Held, Queued
    <2> QED BY <2>3, <2>6, <2>7 DEF TakeText
  <1>6. CASE TgPush
    <2>1. /\ tg_msg \in InTexts /\ tg_msg # NoMsg /\ tg_msg' = NoMsg /\ inbound \in Seq(InTexts)
          /\ OutOwned' = OutOwned /\ UNCHANGED <<agent_msg, heap>>
      BY <1>6 DEF TgPush, TypeOK, OutOwned, Held, Queued
    <2>2. CASE PushInbound(tg_msg) /\ leaked' = leaked
      <3>1. Queued(inbound') = Queued(inbound) \cup {tg_msg}
        BY <2>1, <2>2, Pushed DEF PushInbound
      <3>2. InOwned' = InOwned
        BY <2>1, <3>1 DEF InOwned, Held
      <3> QED BY <1>1, <2>1, <2>2, <3>2
    <2>3. CASE PushInboundFails /\ leaked' = leaked \cup {tg_msg}
      <3>1. InOwned = InOwned' \cup {tg_msg} /\ tg_msg \notin InOwned'
        BY <2>1, <2>3, OneOwner DEF InOwned, Held, Queued, PushInboundFails
      <3> QED BY <1>1, <1>2, <2>1, <2>3, <3>1
    <2> QED BY <1>6, <2>2, <2>3 DEF TgPush
  <1>7. CASE AgentPop
    <2>1. /\ inbound # <<>> /\ inbound \in Seq(InTexts) /\ inbound' = Tail(inbound)
          /\ agent_msg = NoMsg /\ agent_msg' = Head(inbound)
          /\ UNCHANGED <<tg_msg, heap, leaked>> /\ OutOwned' = OutOwned
      BY <1>7 DEF AgentPop, PopInbound, TypeOK, OutOwned, Held, Queued
    <2>2. Queued(inbound) = Queued(inbound') \cup {agent_msg'} /\ agent_msg' # NoMsg
      BY <2>1, Popped, Texts
    <2>3. InOwned' = InOwned
      BY <2>1, <2>2 DEF InOwned, Held
    <2> QED BY <1>1, <2>1, <2>3
  <1>8. ASSUME NEW text \in OutTexts, Later(text), agent_out = NoMsg,
               UNCHANGED <<inbound, outbound, tg_msg, agent_msg, disp_msg, leaked>>,
               \/ agent_out' = text /\ heap' = heap \cup {text}
               \/ UNCHANGED <<agent_out, heap>>
        PROVE  heap' = InOwned' \cup OutOwned' \cup leaked' /\ (InOwned' \cup OutOwned') \cap leaked' = {}
    <2>1. \A n \in leaked \cap OutTexts : Last(n) < First(text)
      BY <1>8 DEF OutOrder, LaterComesLast, Made
    <2>2. text \notin leaked
      BY <1>8, <2>1, Places
    <2>3. InOwned' = InOwned /\ leaked' = leaked
      BY <1>8 DEF InOwned, Held, Queued
    <2>4. CASE agent_out' = text /\ heap' = heap \cup {text}
      <3>1. OutOwned' = OutOwned \cup {text}
        BY <1>8, <2>4, Texts DEF OutOwned, Held, Queued
      <3> QED BY <1>1, <2>2, <2>3, <2>4, <3>1
    <2>5. CASE UNCHANGED <<agent_out, heap>>
      <3>1. OutOwned' = OutOwned
        BY <1>8, <2>5 DEF OutOwned, Held, Queued
      <3> QED BY <1>1, <2>3, <2>5, <3>1
    <2> QED BY <1>8, <2>4, <2>5
  <1>9. CASE StartRound
    BY <1>8, <1>9, StatusIsNext DEF StartRound, Prepare
  <1>10. CASE EndLoop
    <2>1. PICK n \in 1..MaxChunks : Prepare(<<"answer", About(agent_msg), n>>, "push_answer", "cleanup")
      BY <1>10, MimiAssumption DEF EndLoop
    <2> QED BY <1>8, <1>10, <2>1, AnswerIsNext DEF EndLoop, Prepare
  <1>11. CASE AgentPush
    <2>1. /\ agent_out \in OutTexts /\ agent_out # NoMsg /\ agent_out' = NoMsg /\ outbound \in Seq(OutTexts)
          /\ InOwned' = InOwned /\ UNCHANGED <<disp_msg, heap>>
      BY <1>11 DEF AgentPush, AgentInv, TypeOK, InOwned, Held, Queued
    <2>2. CASE PushOutbound(agent_out) /\ leaked' = leaked
      <3>1. Queued(outbound') = Queued(outbound) \cup {agent_out}
        BY <2>1, <2>2, Pushed DEF PushOutbound
      <3>2. OutOwned' = OutOwned
        BY <2>1, <3>1 DEF OutOwned, Held
      <3> QED BY <1>1, <2>1, <2>2, <3>2
    <2>3. CASE PushOutboundFails /\ leaked' = leaked \cup {agent_out}
      <3>1. OutOwned = OutOwned' \cup {agent_out} /\ agent_out \notin OutOwned'
        BY <2>1, <2>3, OneOwner DEF OutOwned, Held, Queued, PushOutboundFails
      <3> QED BY <1>1, <1>2, <2>1, <2>3, <3>1
    <2> QED BY <1>11, <2>2, <2>3 DEF AgentPush
  <1>12. CASE AgentCleanup
    <2>1. /\ agent_msg \in InTexts /\ agent_msg # NoMsg /\ agent_msg' = NoMsg /\ heap' = heap \ {agent_msg}
          /\ OutOwned' = OutOwned /\ UNCHANGED <<tg_msg, inbound, leaked>>
      BY <1>12 DEF AgentCleanup, TypeOK, OutOwned, Held, Queued
    <2>2. InOwned = InOwned' \cup {agent_msg} /\ agent_msg \notin InOwned'
      BY <2>1, OneOwner DEF InOwned, Held, Queued
    <2> QED BY <1>1, <1>2, <2>1, <2>2
  <1>13. CASE DispatchPop
    <2>1. /\ outbound # <<>> /\ outbound \in Seq(OutTexts) /\ outbound' = Tail(outbound)
          /\ disp_msg = NoMsg /\ disp_msg' = Head(outbound)
          /\ UNCHANGED <<agent_out, heap, leaked>> /\ InOwned' = InOwned
      BY <1>13 DEF DispatchPop, PopOutbound, TypeOK, InOwned, Held, Queued
    <2>2. Queued(outbound) = Queued(outbound') \cup {disp_msg'} /\ disp_msg' # NoMsg
      BY <2>1, Popped, Texts
    <2>3. OutOwned' = OutOwned
      BY <2>1, <2>2 DEF OutOwned, Held
    <2> QED BY <1>1, <2>1, <2>3
  <1>14. ASSUME disp_msg # NoMsg, UNCHANGED <<inbound, outbound, tg_msg, agent_msg, agent_out, leaked>>,
                (disp_msg' = NoMsg /\ heap' = heap \ {disp_msg}) \/ UNCHANGED <<disp_msg, heap>>
         PROVE  heap' = InOwned' \cup OutOwned' \cup leaked' /\ (InOwned' \cup OutOwned') \cap leaked' = {}
    <2>1. CASE UNCHANGED <<disp_msg, heap>>
      BY <1>3, <1>14, <2>1
    <2>2. CASE disp_msg' = NoMsg /\ heap' = heap \ {disp_msg}
      <3>1. disp_msg \in OutTexts /\ InOwned' = InOwned
        BY <1>14 DEF TypeOK, InOwned, Held, Queued
      <3>2. OutOwned = OutOwned' \cup {disp_msg} /\ disp_msg \notin OutOwned'
        BY <1>14, <2>2, OneOwner DEF OutOwned, Held, Queued
      <3> QED BY <1>1, <1>2, <1>14, <2>2, <3>1, <3>2
    <2> QED BY <1>14, <2>1, <2>2
  <1>15. CASE SendChunk
    BY <1>14, <1>15 DEF SendChunk, NextChunk, DoneSending
  <1>16. CASE SendPlain
    BY <1>14, <1>16 DEF SendPlain, NextChunk, DoneSending
  <1>17. CASE GiveUpSending
    BY <1>14, <1>17 DEF GiveUpSending, DoneSending
  <1>18. CASE Restart
    <2>1. /\ Len(inbound') = 0 /\ Len(outbound') = 0 /\ tg_msg' = NoMsg /\ agent_msg' = NoMsg
          /\ agent_out' = NoMsg /\ disp_msg' = NoMsg /\ heap' = {} /\ leaked' = {}
      BY <1>18 DEF Restart
    <2> QED BY <2>1 DEF InOwned, OutOwned, Held, Queued
  <1> QED
    BY <1>4, <1>5, <1>6, <1>7, <1>9, <1>10, <1>11, <1>12, <1>13, <1>15, <1>16, <1>17, <1>18
    DEF Next, Poller, Agent, Dispatcher

----------------------------------------------------------------------------
(* The theorems. *)

IInv == /\ TypeOK /\ AgentInv /\ BatchInv /\ InOrder /\ OutOrder
        /\ OnlyFailedPushesLeak /\ PiecesInOrder

LEMMA InitIInv == Init => IInv
  <1> SUFFICES ASSUME Init PROVE IInv
    OBVIOUS
  <1>1. /\ Len(inbound) = 0 /\ Len(outbound) = 0 /\ tg_msg = NoMsg /\ agent_msg = NoMsg
        /\ agent_out = NoMsg /\ disp_msg = NoMsg /\ heap = {} /\ leaked = {} /\ newest = 0 /\ in_order = TRUE
    BY DEF Init, BusInit
  <1>2. InOrder
    BY <1>1 DEF InOrder
  <1>3. OutOrder
    <2>1. Made = {}
      BY <1>1 DEF Made, Held, Queued
    <2>2. \A m \in OutTexts : 0 < First(m)
      BY Places
    <2> QED
      BY <1>1, <2>1, <2>2
      DEF OutOrder, LaterComesLast, PreparedComesNext, QueuedInOrder, SendingComesFirst
  <1>4. OnlyFailedPushesLeak
    BY <1>1, UnionOfSix DEF OnlyFailedPushesLeak, Owned, Held, Queued
  <1> QED BY <1>1, <1>2, <1>3, <1>4, InitTyped DEF IInv, PiecesInOrder

(* A piece that arrives comes after the one before, because what is being  *)
(* sent comes after what arrived.                                          *)
LEMMA NextPieces ==
  ASSUME TypeOK, OutOrder, PiecesInOrder, [Next]_vars
  PROVE  PiecesInOrder'
  <1> USE DEF vars, dispVars, PiecesInOrder
  <1>1. disp_msg # NoMsg => newest < Place(disp_msg, disp_chunk)
    BY DEF OutOrder, SendingComesFirst
  <1>2. CASE UNCHANGED in_order
    BY <1>2
  <1>3. CASE SendChunk \/ SendPlain
    BY <1>1, <1>3 DEF SendChunk, SendPlain, Arrives
  <1>4. CASE Restart
    BY <1>4 DEF Restart
  <1>5. Next => UNCHANGED in_order \/ SendChunk \/ SendPlain \/ Restart
    BY DEF Next, Poller, Agent, Dispatcher, NewUpdate, Poll, TakeUpdate, TgPush, AgentPop, StartRound,
           AskForTools, EndLoop, AgentPush, AgentCleanup, DispatchPop, GiveUpSending
  <1> QED BY <1>2, <1>3, <1>4, <1>5

LEMMA NextIInv == IInv /\ [Next]_vars => IInv'
  BY NextTyped, NextInOrder, NextOutOrder, NextOwnership, NextPieces DEF IInv

LEMMA Invariant == Spec => []IInv
  BY InitIInv, NextIInv, PTL DEF Spec

(* Every variable of the firmware model keeps its type, no queue grows     *)
(* beyond its length and no turn beyond its number of rounds, for every    *)
(* queue length and every number of updates, rounds and chunks.            *)
THEOREM TypeCorrect == Spec => []TypeOK
  BY Invariant, PTL DEF IInv

(* No text on the heap is lost, freed twice or freed while a task or queue *)
(* still holds it, failed pushes apart, which lose theirs.                 *)
THEOREM NoOtherLeak == Spec => []OnlyFailedPushesLeak
  BY Invariant, PTL DEF IInv

(* The pieces the user receives between two resets are in order: no notice *)
(* after the answer of its turn, no chunk before the one it follows, no    *)
(* text of an earlier message after one of a later, none of them twice.    *)
THEOREM PiecesArriveInOrder == Spec => []PiecesInOrder
  BY Invariant, PTL DEF IInv

(* An update that a poll has confirmed, and that Telegram will therefore   *)
(* never deliver again, was looked at, however often the device restarts.  *)
THEOREM NothingConfirmedUnseen == Spec => []ConfirmedWereTaken
  <1>1. IInv => ConfirmedWereTaken
    <2> SUFFICES ASSUME IInv, NEW u \in 1..confirmed PROVE u \in taken
      BY DEF ConfirmedWereTaken
    <2>1. confirmed \in 0..posted /\ posted \in Nat /\ u <= confirmed
      BY Numbers DEF IInv, TypeOK
    <2> QED BY <2>1 DEF IInv, BatchInv
  <1> QED BY Invariant, <1>1, PTL
=============================================================================

------------------------- MODULE WsGateway_proofs ---------------------------
(***************************************************************************)
(* Proofs about WsGateway, for every size of the table and the queues and  *)
(* every number of sockets, connections, frames and names.                 *)
(***************************************************************************)
EXTENDS WsGateway, SequenceTheorems, FiniteSetTheorems, WellFoundedInduction, TLAPS

----------------------------------------------------------------------------
(* Queues *)

Within(q) == {q[i] : i \in 1..Len(q)}

LEMMA Pushed ==
  ASSUME NEW S, NEW q \in Seq(S), NEW m \in S, Len(q) < QueueLen
  PROVE  /\ Append(q, m) \in Seq(S) /\ Len(Append(q, m)) <= QueueLen
         /\ Within(Append(q, m)) = Within(q) \cup {m}
  <1> DEFINE p == Append(q, m)
  <1>1. /\ p \in Seq(S) /\ Len(p) = Len(q) + 1 /\ Len(q) \in Nat
        /\ \A i \in 1..Len(q) : p[i] = q[i]
        /\ p[Len(q) + 1] = m
    BY AppendProperties, LenProperties, ElementOfSeq
  <1> HIDE DEF p
  <1>2. 1..Len(p) = 1..Len(q) \cup {Len(q) + 1} /\ Len(p) <= QueueLen
    BY <1>1, QueueLenAssumption
  <1>3. Within(p) = Within(q) \cup {m}
    BY <1>1, <1>2 DEF Within
  <1> QED BY <1>1, <1>2, <1>3 DEF p

LEMMA Popped ==
  ASSUME NEW S, NEW q \in Seq(S), q # <<>>, Len(q) <= QueueLen
  PROVE  /\ Head(q) \in S /\ Head(q) \in Within(q)
         /\ Tail(q) \in Seq(S) /\ Len(Tail(q)) <= QueueLen
         /\ Within(Tail(q)) \subseteq Within(q)
  <1> DEFINE t == Tail(q)
  <1>1. /\ Head(q) = q[1] /\ Head(q) \in S /\ t \in Seq(S) /\ Len(t) = Len(q) - 1
        /\ \A i \in 1..Len(t) : t[i] = q[i + 1]
        /\ Len(q) \in Nat \ {0}
    BY HeadTailProperties, EmptySeq, ElementOfSeq
  <1> HIDE DEF t
  <1>2. \A i \in 1..Len(t) : i + 1 \in 1..Len(q) /\ t[i] = q[i + 1]
    BY <1>1
  <1>3. 1 \in 1..Len(q) /\ Len(t) <= QueueLen
    BY <1>1, QueueLenAssumption
  <1>4. Within(t) \subseteq Within(q) /\ q[1] \in Within(q)
    BY <1>2, <1>3 DEF Within
  <1> QED BY <1>1, <1>3, <1>4 DEF t

LEMMA NothingWithin == Within(<<>>) = {}
  BY DEF Within

----------------------------------------------------------------------------
(* The table *)

Entries == [fd : Fds \cup {0}, chat_id : ChatIds, active : BOOLEAN]
Tables  == [Slots -> Entries]

LEMMA Bounds ==
  /\ MaxClients \in Nat \ {0} /\ MaxFd \in Nat \ {0} /\ MaxConns \in Nat \ {0}
  /\ MaxFrames \in Nat \ {0} /\ QueueLen \in Nat \ {0}
  /\ 0 \notin Slots /\ 0 \notin Fds /\ 1 \in Conns
  BY GatewayAssumption, QueueLenAssumption DEF Slots, Fds, Conns

LEMMA Ids ==
  /\ \A n \in Fds : WsId(n) \in Choices
  /\ Choices \subseteq ChatIds /\ Unknown \in Choices /\ Torn \in ChatIds
  /\ Torn \notin Choices
  BY DEF ChatIds, Choices, WsId, Named, Unknown, Torn

LEMMA PutEntry ==
  ASSUME NEW F, NEW C, NEW I, NEW t \in [I -> [fd : F, chat_id : C, active : BOOLEAN]], NEW i \in I,
         NEW f \in F, NEW x \in C, NEW a \in BOOLEAN
  PROVE  LET e == [fd |-> f, chat_id |-> x, active |-> a]
             u == [t EXCEPT ![i] = e]
             v == [t EXCEPT ![i].chat_id = x]
             w == [t EXCEPT ![i].active = a]
         IN /\ {u, v, w} \subseteq [I -> [fd : F, chat_id : C, active : BOOLEAN]]
            /\ \A s \in I : s # i => u[s] = t[s] /\ v[s] = t[s] /\ w[s] = t[s]
            /\ u[i].fd = f /\ u[i].chat_id = x /\ u[i].active = a
            /\ v[i].fd = t[i].fd /\ v[i].chat_id = x /\ v[i].active = t[i].active
            /\ w[i].fd = t[i].fd /\ w[i].chat_id = t[i].chat_id /\ w[i].active = a
  <1> DEFINE e == [fd |-> f, chat_id |-> x, active |-> a]
             u == [t EXCEPT ![i] = e]
             v == [t EXCEPT ![i].chat_id = x]
             w == [t EXCEPT ![i].active = a]
             E == [fd : F, chat_id : C, active : BOOLEAN]
  <1>1. t[i] \in E
    OBVIOUS
  <1>2. /\ u = [s \in I |-> IF s = i THEN e ELSE t[s]]
        /\ v = [s \in I |-> IF s = i THEN [t[i] EXCEPT !.chat_id = x] ELSE t[s]]
        /\ w = [s \in I |-> IF s = i THEN [t[i] EXCEPT !.active = a] ELSE t[s]]
    OBVIOUS
  <1>3. e \in E /\ e.fd = f /\ e.chat_id = x /\ e.active = a
    OBVIOUS
  <1>4. /\ [t[i] EXCEPT !.chat_id = x] \in E /\ [t[i] EXCEPT !.chat_id = x].fd = t[i].fd
        /\ [t[i] EXCEPT !.chat_id = x].chat_id = x
        /\ [t[i] EXCEPT !.chat_id = x].active = t[i].active
    BY <1>1
  <1>5. /\ [t[i] EXCEPT !.active = a] \in E /\ [t[i] EXCEPT !.active = a].fd = t[i].fd
        /\ [t[i] EXCEPT !.active = a].chat_id = t[i].chat_id
        /\ [t[i] EXCEPT !.active = a].active = a
    BY <1>1
  <1> HIDE DEF u, v, w, e, E
  <1>6. {u, v, w} \subseteq [I -> E]
    BY <1>2, <1>3, <1>4, <1>5 DEF E
  <1> QED BY <1>2, <1>3, <1>4, <1>5, <1>6 DEF u, v, w, e, E

WithId(t, i, x)     == [t EXCEPT ![i].chat_id = x]
WithActive(t, i, a) == [t EXCEPT ![i].active = a]

LEMMA PutId ==
  ASSUME NEW t \in Tables, NEW i \in Slots, NEW x \in ChatIds
  PROVE  LET v == WithId(t, i, x)
         IN v \in Tables /\ v[i].fd = t[i].fd /\ v[i].chat_id = x /\ v[i].active = t[i].active
                          /\ \A s \in Slots : s # i => v[s] = t[s]
  <1>1. t[i].fd \in Fds \cup {0} /\ t[i].chat_id \in ChatIds /\ t[i].active \in BOOLEAN
        /\ t \in [Slots -> [fd : Fds \cup {0}, chat_id : ChatIds, active : BOOLEAN]]
    BY DEF Tables, Entries
  <1> DEFINE F == Fds \cup {0}
  <1> HIDE DEF F
  <1>2. t[i].fd \in F /\ t \in [Slots -> [fd : F, chat_id : ChatIds, active : BOOLEAN]]
    BY <1>1 DEF F
  <1> QED BY <1>1, <1>2, PutEntry DEF Tables, Entries, F, WithId

LEMMA PutActive ==
  ASSUME NEW t \in Tables, NEW i \in Slots, NEW a \in BOOLEAN
  PROVE  LET w == WithActive(t, i, a)
         IN w \in Tables /\ w[i].fd = t[i].fd /\ w[i].chat_id = t[i].chat_id /\ w[i].active = a
                          /\ \A s \in Slots : s # i => w[s] = t[s]
  <1>1. t[i].fd \in Fds \cup {0} /\ t[i].chat_id \in ChatIds /\ t[i].active \in BOOLEAN
        /\ t \in [Slots -> [fd : Fds \cup {0}, chat_id : ChatIds, active : BOOLEAN]]
    BY DEF Tables, Entries
  <1> DEFINE F == Fds \cup {0}
  <1> HIDE DEF F
  <1>2. t[i].fd \in F /\ t \in [Slots -> [fd : F, chat_id : ChatIds, active : BOOLEAN]]
    BY <1>1 DEF F
  <1> QED BY <1>1, <1>2, PutEntry DEF Tables, Entries, F, WithActive

(* The three searches find the first slot that fits, if there is one.      *)
LEMMA Least ==
  ASSUME NEW S \in SUBSET Slots, S # {}
  PROVE  \E s \in S : \A r \in 1..(s - 1) : r \notin S
  <1>1. S \subseteq Nat
    BY DEF Slots
  <1>2. PICK n \in S : \A k \in S : <<k, n>> \notin OpToRel(<, Nat)
    BY <1>1, NatLessThanWellFounded, WFMin
  <1>3. ASSUME NEW r \in 1..(n - 1), r \in S PROVE FALSE
    <2>1. r \in Nat /\ n \in Nat
      BY <1>1
    <2>2. r < n
      BY <2>1
    <2>3. <<r, n>> \in Nat \X Nat /\ <<r, n>>[1] = r /\ <<r, n>>[2] = n
      BY <2>1
    <2>4. <<r, n>> \in OpToRel(<, Nat)
      BY <2>2, <2>3 DEF OpToRel
    <2> QED BY <1>2, <1>3, <2>4
  <1> QED BY <1>3

Has(s, fd) == s_clients[s].active /\ s_clients[s].fd = fd
Owns(s, id) == s_clients[s].active /\ s_clients[s].chat_id = id

LEMMA Searches ==
  /\ \A fd : IF \E s \in Slots : Has(s, fd)
             THEN FindByFd(fd) \in Slots /\ Has(FindByFd(fd), fd)
             ELSE FindByFd(fd) = 0
  /\ \A id : IF \E s \in Slots : Owns(s, id)
             THEN FindByChatId(id) \in Slots /\ Owns(FindByChatId(id), id)
             ELSE FindByChatId(id) = 0
  /\ IF \E s \in Slots : ~s_clients[s].active
     THEN FreeSlot \in Slots /\ ~s_clients[FreeSlot].active
     ELSE FreeSlot = 0
  <1>1. ASSUME NEW fd PROVE IF \E s \in Slots : Has(s, fd)
                            THEN FindByFd(fd) \in Slots /\ Has(FindByFd(fd), fd)
                            ELSE FindByFd(fd) = 0
    <2> DEFINE S == {s \in Slots : Has(s, fd)}
    <2>1. CASE S # {}
      <3>1. PICK n \in S : \A r \in 1..(n - 1) : r \notin S
        BY <2>1, Least
      <3>2. \A r \in 1..(n - 1) : ~Has(r, fd)
        BY <3>1, Bounds DEF Slots
      <3> QED BY <3>1, <3>2 DEF FindByFd, First, Has
    <2>2. CASE S = {}
      BY <2>2 DEF FindByFd, First, Has
    <2> QED BY <2>1, <2>2
  <1>2. ASSUME NEW id PROVE IF \E s \in Slots : Owns(s, id)
                            THEN FindByChatId(id) \in Slots /\ Owns(FindByChatId(id), id)
                            ELSE FindByChatId(id) = 0
    <2> DEFINE S == {s \in Slots : Owns(s, id)}
    <2>1. CASE S # {}
      <3>1. PICK n \in S : \A r \in 1..(n - 1) : r \notin S
        BY <2>1, Least
      <3>2. \A r \in 1..(n - 1) : ~Owns(r, id)
        BY <3>1, Bounds DEF Slots
      <3> QED BY <3>1, <3>2 DEF FindByChatId, First, Owns
    <2>2. CASE S = {}
      BY <2>2 DEF FindByChatId, First, Owns
    <2> QED BY <2>1, <2>2
  <1>3. IF \E s \in Slots : ~s_clients[s].active
        THEN FreeSlot \in Slots /\ ~s_clients[FreeSlot].active
        ELSE FreeSlot = 0
    <2> DEFINE S == {s \in Slots : ~s_clients[s].active}
    <2>1. CASE S # {}
      <3>1. PICK n \in S : \A r \in 1..(n - 1) : r \notin S
        BY <2>1, Least
      <3>2. \A r \in 1..(n - 1) : s_clients[r].active
        BY <3>1, Bounds DEF Slots
      <3> QED BY <3>1, <3>2 DEF FreeSlot, First
    <2>2. CASE S = {}
      BY <2>2 DEF FreeSlot, First
    <2> QED BY <2>1, <2>2
  <1> QED BY <1>1, <1>2, <1>3

LEMMA MessageParts ==
  /\ NoMsg \in Messages
  /\ \A c \in Conns, x \in ChatIds :
       /\ [from |-> c, chat_id |-> x] \in Messages
       /\ [from |-> c, chat_id |-> x].from = c /\ [from |-> c, chat_id |-> x].chat_id = x
  /\ \A m \in Messages : m.from \in Conns /\ m.chat_id \in ChatIds
  BY Bounds, Ids DEF Messages, NoMsg

(* What the steps make of the table. *)
Same(i) == \A s \in Slots : s # i => s_clients'[s] = s_clients[s]

LEMMA ConnectTable ==
  ASSUME s_clients \in Tables, NEW fd \in Fds, Connect(fd)
  PROVE  /\ s_clients' \in Tables
         /\ \/ FreeSlot = 0 /\ s_clients' = s_clients
            \/ \E i \in Slots : /\ FreeSlot = i /\ ~s_clients[i].active /\ Same(i)
                                /\ s_clients'[i].fd = fd /\ s_clients'[i].chat_id = WsId(fd)
                                /\ s_clients'[i].active
  <1>1. CASE FreeSlot = 0
    BY <1>1 DEF Connect, AddClient
  <1>2. CASE FreeSlot # 0
    <2> DEFINE i == FreeSlot
    <2>1. i \in Slots /\ ~s_clients[i].active
      BY <1>2, Searches
    <2>2. s_clients' = [s_clients EXCEPT ![i] = [fd |-> fd, chat_id |-> WsId(fd), active |-> TRUE]]
      BY <1>2 DEF Connect, AddClient
    <2>3. fd \in Fds \cup {0} /\ WsId(fd) \in ChatIds
      BY Ids
    <2> HIDE DEF i
    <2>4. /\ s_clients' \in Tables /\ Same(i)
          /\ s_clients'[i].fd = fd /\ s_clients'[i].chat_id = WsId(fd) /\ s_clients'[i].active = TRUE
      BY <2>1, <2>2, <2>3, PutEntry DEF Tables, Entries, Same
    <2> QED BY <2>1, <2>4 DEF i
  <1> QED BY <1>1, <1>2

(* An entry keeps its socket and its place, and gets another id.           *)
Renamed(i, id) == /\ Same(i) /\ s_clients'[i].fd = s_clients[i].fd
                  /\ s_clients'[i].active = s_clients[i].active /\ s_clients'[i].chat_id = id

LEMMA NamingTable ==
  ASSUME s_clients \in Tables, NEW c, NEW id \in Choices, FrameNaming(c, id)
  PROVE  /\ s_clients' \in Tables
         /\ \/ http_slot' = 0 /\ http_pc' = "push" /\ s_clients' = s_clients
            \/ /\ http_slot' \in Slots /\ http_pc' = "rename" /\ Has(http_slot', fd_of[c])
               /\ Renamed(http_slot', IF Owns(http_slot', id) THEN id ELSE Torn)
  <1>1. CASE http_slot' = 0
    BY <1>1 DEF FrameNaming
  <1>2. CASE http_slot' # 0
    <2> DEFINE i == http_slot'
               x == IF s_clients[i].chat_id = id THEN s_clients[i].chat_id ELSE Torn
    <2>1. i \in Slots /\ Has(i, fd_of[c]) /\ http_pc' = "rename"
      BY <1>2, Searches DEF FrameNaming
    <2>2. s_clients' = WithId(s_clients, i, x)
      BY <1>2 DEF FrameNaming, WithId
    <2>3. x \in ChatIds
      BY <2>1, Ids DEF Tables, Entries
    <2>4. x = IF Owns(i, id) THEN id ELSE Torn
      BY <2>1 DEF Has, Owns
    <2> HIDE DEF i, x
    <2>5. s_clients' \in Tables /\ Renamed(i, x)
      BY <2>1, <2>2, <2>3, PutId DEF Same, Renamed
    <2> QED BY <2>1, <2>4, <2>5 DEF i
  <1> QED BY <1>1, <1>2

LEMMA RenameTable ==
  ASSUME s_clients \in Tables, http_slot \in Slots, http_id \in ChatIds, Rename
  PROVE  s_clients' \in Tables /\ Renamed(http_slot, http_id)
  <1>1. s_clients' = WithId(s_clients, http_slot, http_id)
    BY DEF Rename, WithId
  <1> QED BY <1>1, PutId DEF Same, Renamed

LEMMA RemoveTable ==
  ASSUME s_clients \in Tables, disp_slot \in Slots, s_clients[disp_slot].active, RemoveClient
  PROVE  /\ s_clients' \in Tables /\ removed' = removed \cup {s_clients[disp_slot].fd}
         /\ \E i \in Slots : /\ Has(i, s_clients[disp_slot].fd) /\ Same(i)
                             /\ s_clients'[i].fd = s_clients[i].fd
                             /\ s_clients'[i].chat_id = s_clients[i].chat_id
                             /\ s_clients'[i].active = FALSE
  <1> DEFINE fd == s_clients[disp_slot].fd
             i == FindByFd(fd)
  <1>1. i \in Slots /\ Has(i, fd)
    BY Searches DEF Has
  <1>2. s_clients' = WithActive(s_clients, i, FALSE) /\ removed' = removed \cup {fd}
    BY DEF RemoveClient, WithActive
  <1> HIDE DEF i
  <1>3. /\ s_clients' \in Tables /\ Same(i) /\ s_clients'[i].fd = s_clients[i].fd
        /\ s_clients'[i].chat_id = s_clients[i].chat_id /\ s_clients'[i].active = FALSE
    <2>1. LET w == WithActive(s_clients, i, FALSE)
          IN w \in Tables /\ w[i].fd = s_clients[i].fd /\ w[i].chat_id = s_clients[i].chat_id
               /\ w[i].active = FALSE /\ \A s \in Slots : s # i => w[s] = s_clients[s]
      <3>1. FALSE \in BOOLEAN
        OBVIOUS
      <3> QED BY ONLY <1>1, <3>1, s_clients \in Tables, PutActive, Zenon
    <2> QED BY <1>2, <2>1 DEF Same
  <1> QED BY <1>1, <1>2, <1>3

----------------------------------------------------------------------------
(* Types *)

BusTypes ==
    /\ inbound \in Seq(Messages) /\ Len(inbound) <= QueueLen
    /\ outbound \in Seq(Messages) /\ Len(outbound) <= QueueLen
ConnTypes ==
    /\ fd_of \in Seq(Fds) /\ Len(fd_of) <= MaxConns
    /\ open \subseteq 1..Len(fd_of) /\ refused \subseteq 1..Len(fd_of) /\ frames \in 0..MaxFrames
HttpTypes ==
    /\ http_pc \in {"idle", "rename", "push"} /\ http_conn \in Conns
    /\ http_slot \in Slots \cup {0} /\ (http_pc = "rename" => http_slot # 0)
    /\ http_id \in ChatIds /\ claims \in [Conns -> SUBSET ChatIds]
DispTypes ==
    /\ disp_pc \in {"idle", "send", "remove"} /\ disp_msg \in Messages
    /\ disp_slot \in Slots \cup {0} /\ (disp_pc # "idle" => disp_slot # 0)
    /\ strays \subseteq Conns \X Conns
    /\ missed \subseteq Messages /\ removed \subseteq Fds

Types == BusTypes /\ s_clients \in Tables /\ ConnTypes /\ HttpTypes /\ DispTypes

Known == 1..Len(fd_of)

LEMMA KnownTyped ==
  ASSUME ConnTypes
  PROVE  /\ Known \subseteq Conns /\ open \subseteq Known /\ Len(fd_of) \in Nat
         /\ \A c \in Known : fd_of[c] \in Fds
         /\ \A fd \in Fds : /\ Append(fd_of, fd) \in Seq(Fds) /\ Len(Append(fd_of, fd)) = Len(fd_of) + 1
                            /\ \A c \in Known : Append(fd_of, fd)[c] = fd_of[c]
                            /\ Append(fd_of, fd)[Len(fd_of) + 1] = fd
         /\ Len(fd_of) + 1 \notin Known
  BY Bounds DEF ConnTypes, Known, Conns

LEMMA Steps ==
  [Next]_vars <=> \/ \E fd \in Fds : Connect(fd)
                  \/ \E c \in Conns : Close(c)
                  \/ \E c \in Conns : FramePlain(c)
                  \/ \E c \in Conns, id \in Choices : FrameNaming(c, id)
                  \/ Rename \/ HttpPush \/ Answer \/ LookUp \/ Send \/ SendFails \/ RemoveClient
                  \/ UNCHANGED vars
  BY DEF Next

(* Only the dispatcher takes entries out, so the one it works on is there. *)
AtWork == /\ disp_pc # "idle" => s_clients[disp_slot].active
          /\ \A s \in Slots : s_clients[s].active => s_clients[s].fd \in Fds

LEMMA NextTables ==
  ASSUME Types, AtWork, [Next]_vars
  PROVE  s_clients' \in Tables
  <1>1. CASE \E fd \in Fds : Connect(fd)
    BY <1>1, ConnectTable DEF Types
  <1>2. CASE \E c \in Conns, id \in Choices : FrameNaming(c, id)
    BY <1>2, NamingTable DEF Types
  <1>3. CASE Rename
    <2>1. http_slot \in Slots /\ http_id \in ChatIds
      BY <1>3 DEF Rename, Types, HttpTypes
    <2> QED BY <1>3, <2>1, RenameTable DEF Types
  <1>4. CASE RemoveClient
    <2>1. disp_slot \in Slots /\ s_clients[disp_slot].active
      BY <1>4 DEF RemoveClient, AtWork, Types, DispTypes
    <2> QED BY <1>4, <2>1, RemoveTable DEF Types
  <1>5. CASE s_clients' = s_clients
    BY <1>5 DEF Types
  <1> QED
    BY <1>1, <1>2, <1>3, <1>4, <1>5, Steps
    DEF Close, FramePlain, HttpPush, Answer, LookUp, Send, SendFails, vars

LEMMA NextBusTypes ==
  ASSUME Types, [Next]_vars
  PROVE  BusTypes'
  <1>1. CASE HttpPush
    <2>1. outbound' = outbound
      BY <1>1 DEF HttpPush
    <2>2. [from |-> http_conn, chat_id |-> http_id] \in Messages
      BY MessageParts DEF Types, HttpTypes
    <2>3. \/ inbound' = inbound
          \/ /\ inbound' = Append(inbound, [from |-> http_conn, chat_id |-> http_id])
             /\ Len(inbound) < QueueLen
      BY <1>1 DEF HttpPush, PushInbound, PushInboundFails
    <2>4. inbound' \in Seq(Messages) /\ Len(inbound') <= QueueLen
      BY <2>2, <2>3, Pushed DEF Types, BusTypes
    <2> QED BY <2>1, <2>4 DEF Types, BusTypes
  <1>2. CASE Answer
    <2>1. /\ inbound # <<>> /\ inbound' = Tail(inbound)
          /\ \/ outbound' = outbound
             \/ outbound' = Append(outbound, Head(inbound)) /\ Len(outbound) < QueueLen
      BY <1>2 DEF Answer, PopInbound, PushOutbound, PushOutboundFails
    <2>2. inbound' \in Seq(Messages) /\ Len(inbound') <= QueueLen /\ Head(inbound) \in Messages
      BY <2>1, Popped DEF Types, BusTypes
    <2>3. outbound' \in Seq(Messages) /\ Len(outbound') <= QueueLen
      BY <2>1, <2>2, Pushed DEF Types, BusTypes
    <2> QED BY <2>2, <2>3 DEF BusTypes
  <1>3. CASE LookUp
    <2>1. outbound # <<>> /\ outbound' = Tail(outbound) /\ inbound' = inbound
      BY <1>3 DEF LookUp, PopOutbound
    <2>2. outbound' \in Seq(Messages) /\ Len(outbound') <= QueueLen
      BY <2>1, Popped DEF Types, BusTypes
    <2> QED BY <2>1, <2>2 DEF Types, BusTypes
  <1>4. CASE UNCHANGED busVars
    BY <1>4 DEF busVars, Types, BusTypes
  <1> QED
    BY <1>1, <1>2, <1>3, <1>4, Steps
    DEF Connect, Close, FramePlain, FrameNaming, Rename, Send, SendFails, RemoveClient, vars

LEMMA NextConnTypes ==
  ASSUME Types, [Next]_vars
  PROVE  ConnTypes'
  <1> USE DEF ConnTypes
  <1>1. CASE \E fd \in Fds : Connect(fd)
    <2>1. PICK fd \in Fds : Connect(fd)
      BY <1>1
    <2>2. /\ fd_of' = Append(fd_of, fd) /\ Len(fd_of) < MaxConns /\ frames' = frames
          /\ open' = open \cup {Len(fd_of) + 1}
          /\ refused' = refused \/ refused' = refused \cup (open' \ open)
      BY <2>1 DEF Connect
    <2>3. fd_of' \in Seq(Fds) /\ Len(fd_of') = Len(fd_of) + 1 /\ Len(fd_of) \in Nat
      BY <2>1, <2>2, KnownTyped DEF Types
    <2>4. 1..Len(fd_of') = 1..Len(fd_of) \cup {Len(fd_of) + 1} /\ Len(fd_of') <= MaxConns
      BY <2>2, <2>3, Bounds
    <2> QED BY <2>2, <2>3, <2>4 DEF Types
  <1>2. CASE \E c \in Conns : FramePlain(c) \/ \E id \in Choices : FrameNaming(c, id)
    <2>1. UNCHANGED <<fd_of, open, refused>> /\ frames' = frames + 1 /\ frames < MaxFrames
      BY <1>2 DEF FramePlain, FrameNaming
    <2>2. frames' \in 0..MaxFrames
      BY <2>1, Bounds DEF Types
    <2> QED BY <2>1, <2>2 DEF Types
  <1>3. CASE \E c \in Conns : Close(c)
    BY <1>3 DEF Close, Types
  <1>4. CASE UNCHANGED connVars
    BY <1>4 DEF connVars, Types
  <1> QED
    BY <1>1, <1>2, <1>3, <1>4, Steps
    DEF Rename, HttpPush, Answer, LookUp, Send, SendFails, RemoveClient, vars

(* A connection adds the id it asks under to its claims. *)
LEMMA ClaimMade ==
  ASSUME claims \in [Conns -> SUBSET ChatIds], NEW c \in Conns, NEW x \in ChatIds,
         claims' = [claims EXCEPT ![c] = @ \cup {x}]
  PROVE  /\ claims' \in [Conns -> SUBSET ChatIds] /\ claims'[c] = claims[c] \cup {x}
         /\ \A d \in Conns : d # c => claims'[d] = claims[d]
  OBVIOUS

LEMMA PlainAsks ==
  ASSUME Types, NEW c \in Conns, FramePlain(c)
  PROVE  /\ http_pc = "idle" /\ http_pc' = "push" /\ c \in open /\ http_conn' = c
         /\ http_slot' = FindByFd(fd_of[c])
         /\ claims' = [claims EXCEPT ![c] = @ \cup {http_id'}]
         /\ \/ http_slot' = 0 /\ http_id' = Unknown
            \/ /\ http_slot' \in Slots /\ Has(http_slot', fd_of[c])
               /\ http_id' = s_clients[http_slot'].chat_id
         /\ http_id' \in ChatIds
  <1>1. /\ http_pc = "idle" /\ http_pc' = "push" /\ c \in open /\ http_conn' = c
        /\ http_slot' = FindByFd(fd_of[c])
        /\ claims' = [claims EXCEPT ![c] = @ \cup {http_id'}]
        /\ http_id' = IF http_slot' = 0 THEN Unknown ELSE s_clients[http_slot'].chat_id
    BY DEF FramePlain
  <1>2. CASE http_slot' = 0
    BY <1>1, <1>2, Ids
  <1>3. CASE http_slot' # 0
    <2>1. http_slot' \in Slots /\ Has(http_slot', fd_of[c])
      BY <1>1, <1>3, Searches
    <2>2. s_clients[http_slot'].chat_id \in ChatIds
      BY <2>1 DEF Types, Tables, Entries
    <2> QED BY <1>1, <1>3, <2>1, <2>2
  <1> QED BY <1>2, <1>3

LEMMA NextHttpTypes ==
  ASSUME Types, [Next]_vars
  PROVE  HttpTypes'
  <1> USE DEF HttpTypes
  <1>1. ASSUME NEW c \in Conns, FramePlain(c) PROVE HttpTypes'
    <2>1. claims' \in [Conns -> SUBSET ChatIds]
      BY <1>1, PlainAsks, ClaimMade DEF Types
    <2> QED BY <1>1, <2>1, PlainAsks
  <1>2. ASSUME NEW c \in Conns, NEW id \in Choices, FrameNaming(c, id) PROVE HttpTypes'
    <2>1. http_id' = id /\ http_conn' = c /\ claims' = [claims EXCEPT ![c] = @ \cup {id}]
      BY <1>2 DEF FrameNaming
    <2>2. claims' \in [Conns -> SUBSET ChatIds]
      BY <2>1, ClaimMade, Ids DEF Types
    <2>3. http_slot' \in Slots \cup {0} /\ http_pc' \in {"rename", "push"} /\ (http_pc' = "rename" => http_slot' # 0)
      BY <1>2, NamingTable, Bounds DEF Types
    <2> QED BY <2>1, <2>2, <2>3, Ids
  <1>3. CASE Rename \/ HttpPush
    BY <1>3 DEF Rename, HttpPush, Types
  <1>4. CASE UNCHANGED httpVars
    BY <1>4 DEF httpVars, Types
  <1> QED
    BY <1>1, <1>2, <1>3, <1>4, Steps
    DEF Connect, Close, Answer, LookUp, Send, SendFails, RemoveClient, vars

LEMMA NextDispTypes ==
  ASSUME Types, AtWork, [Next]_vars
  PROVE  DispTypes'
  <1> USE DEF DispTypes
  <1>1. CASE LookUp
    <2>1. /\ outbound # <<>> /\ disp_msg' = Head(outbound) /\ disp_slot' = FindByChatId(disp_msg'.chat_id)
          /\ \/ disp_slot' = 0 /\ disp_pc' = "idle" /\ missed' = missed \cup {disp_msg'}
             \/ disp_slot' # 0 /\ disp_pc' = "send" /\ missed' = missed
          /\ UNCHANGED <<strays, removed>>
      BY <1>1 DEF LookUp, PopOutbound
    <2>2. disp_msg' \in Messages
      BY <2>1, Popped DEF Types, BusTypes
    <2>3. disp_slot' \in Slots \cup {0}
      BY <2>1, Searches
    <2> QED BY <2>1, <2>2, <2>3 DEF Types
  <1>2. CASE Send
    <2>1. PICK c \in open : strays' = strays \cup ({<<disp_msg.from, c>>} \ {<<c, c>>})
      BY <1>2 DEF Send
    <2>2. <<disp_msg.from, c>> \in Conns \X Conns
      BY MessageParts, KnownTyped DEF Types
    <2>3. strays' \subseteq Conns \X Conns
      BY <2>1, <2>2 DEF Types
    <2> QED BY <1>2, <2>3 DEF Send, Types
  <1>3. CASE SendFails
    BY <1>3 DEF SendFails, Types
  <1>4. CASE RemoveClient
    <2>1. disp_slot \in Slots /\ s_clients[disp_slot].active
      BY <1>4 DEF RemoveClient, AtWork, Types
    <2>2. removed' = removed \cup {s_clients[disp_slot].fd} /\ s_clients[disp_slot].fd \in Fds
      BY <1>4, <2>1, RemoveTable DEF Types, AtWork
    <2> QED BY <1>4, <2>2 DEF RemoveClient, Types
  <1>5. CASE UNCHANGED dispVars
    BY <1>5 DEF dispVars, Types
  <1> QED
    BY <1>1, <1>2, <1>3, <1>4, <1>5, Steps
    DEF Connect, Close, FramePlain, FrameNaming, Rename, HttpPush, Answer, vars

LEMMA NextAtWork ==
  ASSUME Types, AtWork, [Next]_vars
  PROVE  AtWork'
  <1> USE DEF AtWork
  <1>1. ASSUME NEW fd \in Fds, Connect(fd) PROVE AtWork'
    <2>1. UNCHANGED <<disp_pc, disp_slot>>
      BY <1>1 DEF Connect, dispVars
    <2>2. disp_pc # "idle" => disp_slot \in Slots
      BY DEF Types, DispTypes
    <2> QED BY <1>1, <2>1, <2>2, ConnectTable DEF Types, Same
  <1>2. ASSUME NEW i \in Slots, NEW x, Renamed(i, x), UNCHANGED dispVars PROVE AtWork'
    <2>1. disp_pc # "idle" => disp_slot \in Slots
      BY DEF Types, DispTypes
    <2> QED BY <1>2, <2>1 DEF Renamed, Same, dispVars
  <1>3. ASSUME NEW c \in Conns, NEW id \in Choices, FrameNaming(c, id) PROVE AtWork'
    BY <1>2, <1>3, NamingTable DEF FrameNaming, dispVars, Types
  <1>4. CASE Rename
    <2>1. http_slot \in Slots /\ http_id \in ChatIds /\ UNCHANGED dispVars
      BY <1>4 DEF Rename, Types, HttpTypes
    <2> QED BY <1>2, <1>4, <2>1, RenameTable DEF Types
  <1>5. CASE RemoveClient
    <2>1. disp_slot \in Slots /\ s_clients[disp_slot].active /\ disp_pc' = "idle"
      BY <1>5 DEF RemoveClient, Types, DispTypes
    <2>2. PICK i \in Slots : Same(i) /\ s_clients'[i].active = FALSE
      BY <1>5, <2>1, RemoveTable DEF Types
    <2> QED BY <2>1, <2>2 DEF Same
  <1>6. CASE LookUp
    <2>1. /\ disp_slot' = FindByChatId(disp_msg'.chat_id) /\ s_clients' = s_clients
          /\ disp_pc' # "idle" => disp_slot' # 0
      BY <1>6 DEF LookUp
    <2>2. disp_slot' # 0 => Owns(disp_slot', disp_msg'.chat_id)
      BY <2>1, Searches
    <2> QED BY <2>1, <2>2 DEF Owns
  <1>7. CASE SendFails
    BY <1>7 DEF SendFails
  <1>8. CASE Send
    BY <1>8 DEF Send
  <1>9. CASE UNCHANGED <<s_clients, dispVars>>
    BY <1>9 DEF dispVars
  <1> QED
    BY <1>1, <1>3, <1>4, <1>5, <1>6, <1>7, <1>8, <1>9, Steps
    DEF Close, FramePlain, HttpPush, Answer, vars

----------------------------------------------------------------------------
(* What is true of a connection, an id or a message stays true. *)

Several(S)    == \E a, b \in S : a # b
Owned(id, fd, fds, ids, ref) ==
    \E c \in 1..Len(fds) : fds[c] = fd /\ (id \in ids[c] \/ (c \notin ref /\ id = WsId(fd)))
Asked(m)      == m.from \in Known /\ m.chat_id \in claims[m.from]
Excused(c)    == c \notin open \/ c \in refused \/ fd_of[c] \in removed

LEMMA Grow ==
  ASSUME Types, AtWork, [Next]_vars
  PROVE  /\ Known \subseteq Known' /\ \A c \in Known : fd_of'[c] = fd_of[c]
         /\ \A c \in Conns : claims[c] \subseteq claims'[c]
         /\ refused \subseteq refused' /\ removed \subseteq removed'
         /\ \A c \in Known : c \in refused' => c \in refused
         /\ \A c \in Known : c \in open' => c \in open
  <1>1. ASSUME NEW fd \in Fds, Connect(fd)
        PROVE  /\ Known \subseteq Known' /\ \A c \in Known : fd_of'[c] = fd_of[c]
               /\ refused \subseteq refused' /\ refused' \subseteq refused \cup {Len(fd_of) + 1}
               /\ open' = open \cup {Len(fd_of) + 1} /\ claims' = claims /\ removed' = removed
    <2>1. fd_of' = Append(fd_of, fd) /\ open' = open \cup {Len(fd_of) + 1}
      BY <1>1 DEF Connect
    <2>2. /\ claims' = claims /\ removed' = removed /\ refused \subseteq refused'
          /\ refused' \subseteq refused \cup {Len(fd_of) + 1}
      BY <1>1 DEF Connect, httpVars, dispVars
    <2>3. Len(fd_of') = Len(fd_of) + 1 /\ Len(fd_of) \in Nat /\ \A c \in Known : fd_of'[c] = fd_of[c]
      BY <2>1, KnownTyped DEF Types
    <2> QED BY <2>1, <2>2, <2>3 DEF Known
  <1>2. ASSUME NEW c \in Conns, FramePlain(c) \/ \E id \in Choices : FrameNaming(c, id)
        PROVE  /\ UNCHANGED <<fd_of, open, refused, removed>>
               /\ \A d \in Conns : claims[d] \subseteq claims'[d]
    <2>1. UNCHANGED <<fd_of, open, refused, removed>> /\ claims' = [claims EXCEPT ![c] = @ \cup {http_id'}]
      BY <1>2 DEF FramePlain, FrameNaming, dispVars
    <2>2. http_id' \in ChatIds
      BY <1>2, NextHttpTypes, Steps DEF HttpTypes
    <2> QED BY <2>1, <2>2, ClaimMade DEF Types, HttpTypes
  <1>3. ASSUME NEW c \in Conns, Close(c)
        PROVE  UNCHANGED <<fd_of, refused, removed, claims>> /\ open' \subseteq open
    BY <1>3 DEF Close, httpVars, dispVars
  <1>4. CASE RemoveClient
    <2>1. removed \subseteq removed' /\ UNCHANGED <<fd_of, open, refused, claims>>
      BY <1>4 DEF RemoveClient, connVars, httpVars
    <2> QED BY <2>1 DEF Known
  <1>5. CASE UNCHANGED <<fd_of, open, refused, claims, removed>>
    BY <1>5 DEF Known
  <1>6. CASE \E fd \in Fds : Connect(fd)
    <2>1. Len(fd_of) + 1 \notin Known
      BY KnownTyped DEF Types
    <2> QED BY <1>1, <1>6, <2>1
  <1>7. CASE \E c \in Conns : FramePlain(c) \/ \E id \in Choices : FrameNaming(c, id)
    BY <1>2, <1>7 DEF Known
  <1>8. CASE \E c \in Conns : Close(c)
    BY <1>3, <1>8 DEF Known
  <1> QED
    BY <1>4, <1>5, <1>6, <1>7, <1>8, Steps
    DEF Rename, HttpPush, Answer, LookUp, Send, SendFails, connVars, httpVars, dispVars, vars

LEMMA Lasting ==
  ASSUME Types, AtWork, [Next]_vars
  PROVE  /\ \A id, fd : Owned(id, fd, fd_of, claims, refused) => Owned(id, fd, fd_of', claims', refused')
         /\ \A m \in Messages : Asked(m) => Asked(m)'
         /\ \A c \in Known : Excused(c) => Excused(c)'
         /\ \A c \in Known : Several(claims[c]) => Several(claims[c])'
  <1>1. Known \subseteq Conns
    BY KnownTyped DEF Types
  <1>3. ASSUME NEW id, NEW fd, Owned(id, fd, fd_of, claims, refused)
        PROVE  Owned(id, fd, fd_of', claims', refused')
    <2>1. PICK c \in Known : fd_of[c] = fd /\ (id \in claims[c] \/ (c \notin refused /\ id = WsId(fd)))
      BY <1>3 DEF Owned, Known
    <2>2. c \in Known' /\ fd_of'[c] = fd /\ (id \in claims'[c] \/ (c \notin refused' /\ id = WsId(fd)))
      BY <1>1, <2>1, Grow
    <2> QED BY <2>2 DEF Owned, Known
  <1>4. ASSUME NEW m \in Messages, Asked(m) PROVE Asked(m)'
    BY <1>1, <1>4, Grow DEF Asked
  <1>5. ASSUME NEW c \in Known, Excused(c) PROVE Excused(c)'
    BY <1>5, Grow DEF Excused
  <1>6. ASSUME NEW c \in Known, Several(claims[c]) PROVE Several(claims[c])'
    BY <1>1, <1>6, Grow DEF Several
  <1> QED BY <1>3, <1>4, <1>5, <1>6

----------------------------------------------------------------------------
(* Who asked under which id, and whose ids the table holds.                *)

ConnInv ==
    /\ \A c, d \in open : fd_of[c] = fd_of[d] => c = d
    /\ \A c \in Conns : IsFiniteSet(claims[c])
    /\ \A c \in Conns \ Known : claims[c] = {}
    /\ \A c \in Known : claims[c] \subseteq Choices

HttpInv ==
    /\ http_pc # "idle" => http_conn \in open /\ http_id \in claims[http_conn]
    /\ http_pc = "rename" => /\ s_clients[http_slot].fd = fd_of[http_conn]
                             /\ s_clients[http_slot].active \/ fd_of[http_conn] \in removed

TableInv ==
    \A s \in Slots : s_clients[s].active =>
        \/ Owned(s_clients[s].chat_id, s_clients[s].fd, fd_of, claims, refused)
        \/ s_clients[s].chat_id = Torn /\ http_pc = "rename" /\ s = http_slot

DispInv ==
    disp_pc = "send" =>
        Asked(disp_msg) /\ Owned(disp_msg.chat_id, s_clients[disp_slot].fd, fd_of, claims, refused)

BusInv == /\ \A m \in Within(inbound) : Asked(m)
          /\ \A m \in Within(outbound) : Asked(m)

Sound == Types /\ AtWork /\ ConnInv /\ HttpInv /\ TableInv /\ DispInv /\ BusInv

Pushing == [from |-> http_conn, chat_id |-> http_id]

LEMMA BusFlow ==
  ASSUME Types, [Next]_vars
  PROVE  /\ \A m \in Within(inbound') : m \in Within(inbound) \/ (http_pc = "push" /\ m = Pushing)
         /\ \A m \in Within(outbound') : m \in Within(outbound) \cup Within(inbound)
         /\ \A m \in Within(inbound) \cup Within(outbound) \cup {Pushing} : m \in Messages
         /\ Pushing.from = http_conn /\ Pushing.chat_id = http_id
  <1>1. /\ Pushing \in Messages /\ Pushing.from = http_conn /\ Pushing.chat_id = http_id
    BY MessageParts DEF Pushing, Types, HttpTypes
  <1>2. \A q \in Seq(Messages) : \A m \in Within(q) : m \in Messages
    BY ElementOfSeq DEF Within
  <1>3. CASE HttpPush
    <2>1. /\ outbound' = outbound /\ http_pc = "push"
          /\ \/ inbound' = inbound
             \/ inbound' = Append(inbound, Pushing) /\ Len(inbound) < QueueLen
      BY <1>3 DEF HttpPush, PushInbound, PushInboundFails, Pushing
    <2>2. \A m \in Within(inbound') : m \in Within(inbound) \/ m = Pushing
      <3>1. CASE inbound' = Append(inbound, Pushing) /\ Len(inbound) < QueueLen
        <4>1. inbound \in Seq(Messages)
          BY DEF Types, BusTypes
        <4>2. Within(Append(inbound, Pushing)) = Within(inbound) \cup {Pushing}
          BY <1>1, <3>1, <4>1, Pushed
        <4> QED BY <3>1, <4>2
      <3> QED BY <2>1, <3>1
    <2> QED BY <1>1, <1>2, <2>1, <2>2 DEF Types, BusTypes
  <1>4. CASE Answer
    <2>1. /\ inbound # <<>> /\ inbound' = Tail(inbound)
          /\ \/ outbound' = outbound
             \/ outbound' = Append(outbound, Head(inbound)) /\ Len(outbound) < QueueLen
      BY <1>4 DEF Answer, PopInbound, PushOutbound, PushOutboundFails
    <2>2. Within(inbound') \subseteq Within(inbound) /\ Head(inbound) \in Within(inbound) /\ Head(inbound) \in Messages
      BY <2>1, Popped DEF Types, BusTypes
    <2>3. outbound' = outbound \/ Within(outbound') = Within(outbound) \cup {Head(inbound)}
      <3>1. CASE outbound' = Append(outbound, Head(inbound)) /\ Len(outbound) < QueueLen
        <4>1. outbound \in Seq(Messages)
          BY DEF Types, BusTypes
        <4>2. Within(Append(outbound, Head(inbound))) = Within(outbound) \cup {Head(inbound)}
          BY <2>2, <3>1, <4>1, Pushed
        <4> QED BY <3>1, <4>2
      <3> QED BY <2>1, <3>1
    <2> QED BY <1>1, <1>2, <2>2, <2>3 DEF Types, BusTypes
  <1>5. CASE LookUp
    <2>1. inbound' = inbound /\ outbound # <<>> /\ outbound' = Tail(outbound)
      BY <1>5 DEF LookUp, PopOutbound
    <2>2. Within(outbound') \subseteq Within(outbound)
      BY <2>1, Popped DEF Types, BusTypes
    <2> QED BY <1>1, <1>2, <2>1, <2>2 DEF Types, BusTypes
  <1>6. CASE UNCHANGED busVars
    BY <1>1, <1>2, <1>6 DEF busVars, Types, BusTypes
  <1> QED
    BY <1>3, <1>4, <1>5, <1>6, Steps
    DEF Connect, Close, FramePlain, FrameNaming, Rename, Send, SendFails, RemoveClient, vars

LEMMA LooksUp ==
  ASSUME Types, LookUp
  PROVE  /\ disp_msg' \in Within(outbound) /\ disp_msg' \in Messages
         /\ \/ /\ disp_slot' = 0 /\ disp_pc' = "idle" /\ missed' = missed \cup {disp_msg'}
               /\ \A s \in Slots : ~Owns(s, disp_msg'.chat_id)
            \/ /\ disp_slot' \in Slots /\ disp_pc' = "send" /\ missed' = missed
               /\ Owns(disp_slot', disp_msg'.chat_id)
         /\ UNCHANGED <<s_clients, connVars, httpVars, strays, removed>>
  <1>1. /\ outbound # <<>> /\ disp_msg' = Head(outbound) /\ disp_slot' = FindByChatId(disp_msg'.chat_id)
        /\ \/ disp_slot' = 0 /\ disp_pc' = "idle" /\ missed' = missed \cup {disp_msg'}
           \/ disp_slot' # 0 /\ disp_pc' = "send" /\ missed' = missed
        /\ UNCHANGED <<s_clients, connVars, httpVars, strays, removed>>
    BY DEF LookUp, PopOutbound
  <1>2. disp_msg' \in Within(outbound) /\ disp_msg' \in Messages
    BY <1>1, Popped DEF Types, BusTypes
  <1>3. IF \E s \in Slots : Owns(s, disp_msg'.chat_id)
        THEN disp_slot' \in Slots /\ Owns(disp_slot', disp_msg'.chat_id)
        ELSE disp_slot' = 0
    BY <1>1, Searches
  <1> QED BY <1>1, <1>2, <1>3, Bounds

(* While a frame is at work the handler makes no new connection.           *)
LEMMA OneHandler ==
  ASSUME http_pc # "idle", [Next]_vars
  PROVE  \/ Rename \/ HttpPush
         \/ UNCHANGED httpVars /\ UNCHANGED connVars
            /\ (UNCHANGED s_clients \/ RemoveClient)
  BY Steps
  DEF Connect, Close, FramePlain, FrameNaming, Answer, LookUp, Send, SendFails, RemoveClient, vars

LEMMA NextConn ==
  ASSUME Sound, [Next]_vars
  PROVE  ConnInv'
  <1> USE DEF ConnInv
  <1>1. ASSUME NEW fd \in Fds, Connect(fd) PROVE ConnInv'
    <2>1. /\ fd_of' = Append(fd_of, fd) /\ open' = open \cup {Len(fd_of) + 1} /\ claims' = claims
          /\ \A c \in open : fd_of[c] # fd /\ Len(fd_of) < MaxConns
      BY <1>1 DEF Connect, httpVars
    <2>2. /\ open \subseteq Known /\ Known' = Known \cup {Len(fd_of) + 1} /\ fd_of'[Len(fd_of) + 1] = fd
          /\ \A c \in Known : fd_of'[c] = fd_of[c]
          /\ Len(fd_of) + 1 \notin Known /\ Len(fd_of) + 1 \in Conns
      <3>1. fd_of'[Len(fd_of) + 1] = fd /\ \A c \in Known : fd_of'[c] = fd_of[c]
        BY <2>1, KnownTyped DEF Sound, Types
      <3>2. Len(fd_of') = Len(fd_of) + 1 /\ Len(fd_of) \in Nat /\ Len(fd_of) < MaxConns
        BY <1>1, <2>1, KnownTyped DEF Sound, Types, Connect
      <3>3. Known' = Known \cup {Len(fd_of) + 1} /\ Len(fd_of) + 1 \notin Known /\ Len(fd_of) + 1 \in Conns
        BY <3>2, Bounds DEF Known, Conns
      <3> QED BY <3>1, <3>3, KnownTyped DEF Sound, Types
    <2>3. \A c, d \in open' : fd_of'[c] = fd_of'[d] => c = d
      <3> SUFFICES ASSUME NEW c \in open', NEW d \in open', fd_of'[c] = fd_of'[d] PROVE c = d
        OBVIOUS
      <3>1. \A e \in open : fd_of'[e] = fd_of[e] /\ fd_of[e] # fd
        BY <2>1, <2>2
      <3>2. CASE c \in open /\ d \in open
        BY <3>1, <3>2 DEF Sound
      <3>3. CASE c \notin open \/ d \notin open
        <4>1. c = Len(fd_of) + 1 \/ d = Len(fd_of) + 1
          BY <2>1, <3>3
        <4> QED BY <2>1, <2>2, <3>1, <4>1
      <3> QED BY <3>2, <3>3
    <2>4. claims[Len(fd_of) + 1] = {}
      BY <2>2 DEF Sound
    <2> QED BY <2>1, <2>2, <2>3, <2>4 DEF Sound
  <1>2. ASSUME NEW c \in Conns, NEW id \in Choices, c \in open, claims' = [claims EXCEPT ![c] = @ \cup {id}],
               UNCHANGED <<fd_of, open>>
        PROVE  ConnInv'
    <2>1. /\ claims'[c] = claims[c] \cup {id} /\ \A d \in Conns : d # c => claims'[d] = claims[d]
          /\ Known' = Known /\ c \in Known /\ Known \subseteq Conns
      <3>1. c \in Known /\ Known \subseteq Conns
        BY <1>2, KnownTyped DEF Sound, Types
      <3>2. claims'[c] = claims[c] \cup {id} /\ \A d \in Conns : d # c => claims'[d] = claims[d]
        BY <1>2, Ids, ClaimMade DEF Sound, Types, HttpTypes
      <3> QED BY <1>2, <3>1, <3>2 DEF Known
    <2>2. \A d \in Conns : IsFiniteSet(claims'[d])
      <3>1. IsFiniteSet(claims[c] \cup {id})
        BY FS_AddElement DEF Sound
      <3> QED BY <2>1, <3>1 DEF Sound
    <2> QED BY <1>2, <2>1, <2>2 DEF Sound
  <1>3. ASSUME NEW c \in Conns, FramePlain(c) PROVE ConnInv'
    <2>1. UNCHANGED <<fd_of, open>> /\ http_id' \in ChatIds /\ c \in open
          /\ claims' = [claims EXCEPT ![c] = @ \cup {http_id'}]
      BY <1>3, PlainAsks DEF Sound, FramePlain
    <2>2. http_id' \in Choices
      <3>1. CASE http_id' = Unknown
        BY <3>1, Ids
      <3>2. ASSUME NEW i \in Slots, s_clients[i].active, http_id' = s_clients[i].chat_id, http_pc = "idle",
                   s_clients[i].fd = fd_of[c]
            PROVE  http_id' \in Choices
        <4>1. PICK d \in Known : \/ http_id' \in claims[d]
                                \/ http_id' = WsId(fd_of[c])
          BY <3>2 DEF Sound, TableInv, Owned, Known
        <4>2. fd_of[c] \in Fds
          BY <2>1, KnownTyped DEF Sound, Types
        <4> QED BY <4>1, <4>2, Ids DEF Sound
      <3> QED BY <1>3, <3>1, <3>2, PlainAsks DEF Sound, Has
    <2> QED BY <1>2, <2>1, <2>2
  <1>4. ASSUME NEW c \in Conns, NEW id \in Choices, FrameNaming(c, id) PROVE ConnInv'
    <2>1. UNCHANGED <<fd_of, open>> /\ c \in open /\ claims' = [claims EXCEPT ![c] = @ \cup {id}]
      BY <1>4 DEF FrameNaming
    <2> QED BY <1>2, <2>1, Ids
  <1>5. CASE UNCHANGED <<fd_of, claims>> /\ open' \subseteq open
    BY <1>5 DEF Sound, Known
  <1> QED
    BY <1>1, <1>3, <1>4, <1>5, Steps
    DEF Close, Rename, HttpPush, Answer, LookUp, Send, SendFails, RemoveClient, connVars, httpVars, vars

LEMMA NextHttp ==
  ASSUME Sound, [Next]_vars
  PROVE  HttpInv'
  <1> USE DEF HttpInv
  <1>1. ASSUME NEW c \in Conns, FramePlain(c) PROVE HttpInv'
    <2>1. /\ http_pc' = "push" /\ http_conn' = c /\ c \in open' /\ http_id' \in ChatIds
          /\ claims' = [claims EXCEPT ![c] = @ \cup {http_id'}]
      BY <1>1, PlainAsks DEF Sound, FramePlain
    <2>2. http_id' \in claims'[c]
      BY <2>1, ClaimMade DEF Sound, Types, HttpTypes
    <2> QED BY <2>1, <2>2
  <1>2. ASSUME NEW c \in Conns, NEW id \in Choices, FrameNaming(c, id) PROVE HttpInv'
    <2>1. /\ http_id' = id /\ http_conn' = c /\ c \in open' /\ UNCHANGED fd_of
          /\ claims' = [claims EXCEPT ![c] = @ \cup {id}]
      BY <1>2 DEF FrameNaming
    <2>2. http_id' \in claims'[c]
      BY <2>1, Ids, ClaimMade DEF Sound, Types, HttpTypes
    <2>3. http_pc' = "rename" => /\ s_clients'[http_slot'].fd = fd_of[c] /\ s_clients'[http_slot'].active
      BY <1>2, NamingTable DEF Sound, Types, Has, Renamed
    <2> QED BY <2>1, <2>2, <2>3
  <1>3. CASE http_pc # "idle" /\ UNCHANGED httpVars /\ UNCHANGED connVars /\ UNCHANGED s_clients
    <2>1. removed \subseteq removed'
      BY Grow DEF Sound
    <2> QED BY <1>3, <2>1 DEF Sound, httpVars, connVars
  <1>4. CASE RemoveClient
    <2>1. disp_slot \in Slots /\ s_clients[disp_slot].active /\ UNCHANGED <<connVars, httpVars>>
      BY <1>4 DEF RemoveClient, Sound, AtWork, Types, DispTypes
    <2>2. PICK i \in Slots : /\ Has(i, s_clients[disp_slot].fd) /\ Same(i) /\ s_clients'[i].fd = s_clients[i].fd
      BY <1>4, <2>1, RemoveTable DEF Sound, Types
    <2>3. removed' = removed \cup {s_clients[disp_slot].fd}
      BY <1>4, <2>1, RemoveTable DEF Sound, Types
    <2>4. http_pc = "rename" => http_slot \in Slots
      BY DEF Sound, Types, HttpTypes
    <2> QED BY <2>1, <2>2, <2>3, <2>4 DEF Sound, Has, Same, connVars, httpVars
  <1>5. CASE Rename
    BY <1>5 DEF Rename, connVars, Sound
  <1>6. CASE HttpPush
    BY <1>6 DEF HttpPush
  <1>7. CASE http_pc = "idle" /\ http_pc' = "idle"
    BY <1>7
  <1> QED
    BY <1>1, <1>2, <1>3, <1>4, <1>5, <1>6, <1>7, OneHandler, Steps
    DEF Connect, Close, Answer, LookUp, Send, SendFails, httpVars, vars, Rename

(* An entry keeps to the invariant of the table in the next state.         *)
Fine(s) == s_clients'[s].active =>
    \/ Owned(s_clients'[s].chat_id, s_clients'[s].fd, fd_of', claims', refused')
    \/ s_clients'[s].chat_id = Torn /\ http_pc' = "rename" /\ s = http_slot'

LEMMA NextTable ==
  ASSUME Sound, [Next]_vars
  PROVE  TableInv'
  <1>1. ASSUME NEW s \in Slots, s_clients'[s] = s_clients[s],
               \/ http_pc # "rename" \/ s # http_slot
               \/ UNCHANGED <<http_pc, http_slot>>
        PROVE  Fine(s)
    BY <1>1, Lasting DEF Sound, TableInv, Fine
  <1>2. CASE \A s \in Slots : Fine(s)
    BY <1>2 DEF TableInv, Fine
  <1>3. ASSUME NEW fd \in Fds, Connect(fd) PROVE \A s \in Slots : Fine(s)
    <2>1. http_pc = "idle"
      BY <1>3 DEF Connect
    <2>2. \/ s_clients' = s_clients
          \/ \E i \in Slots : /\ FreeSlot = i /\ Same(i)
                              /\ s_clients'[i].fd = fd /\ s_clients'[i].chat_id = WsId(fd)
      BY <1>3, ConnectTable DEF Sound, Types
    <2>3. ASSUME NEW i \in Slots, FreeSlot = i, s_clients'[i].fd = fd, s_clients'[i].chat_id = WsId(fd)
          PROVE  Fine(i)
      <3> DEFINE c == Len(fd_of) + 1
      <3>1. fd_of' = Append(fd_of, fd) /\ refused' = refused
        BY <1>3, <2>3, Bounds DEF Connect
      <3>2. /\ Len(fd_of') = c /\ Len(fd_of) \in Nat /\ c \notin Known /\ fd_of'[c] = fd
        BY <3>1, KnownTyped DEF Sound, Types
      <3>3. c \in 1..Len(fd_of') /\ c \notin refused'
        BY <3>1, <3>2 DEF Sound, Types, ConnTypes, Known
      <3> HIDE DEF c
      <3> QED BY <2>3, <3>2, <3>3 DEF Fine, Owned
    <2> QED BY <1>1, <2>1, <2>2, <2>3 DEF Same
  <1>4. ASSUME NEW c \in Conns, NEW id \in Choices, FrameNaming(c, id) PROVE \A s \in Slots : Fine(s)
    <2>1. /\ http_pc = "idle" /\ fd_of' = fd_of /\ c \in Known
          /\ claims' = [claims EXCEPT ![c] = @ \cup {id}]
      BY <1>4, KnownTyped DEF FrameNaming, Sound, Types
    <2>2. id \in claims'[c]
      BY <2>1, Ids, ClaimMade DEF Sound, Types, HttpTypes
    <2>3. Owned(id, fd_of[c], fd_of', claims', refused')
      BY <2>1, <2>2 DEF Owned, Known
    <2>4. \/ s_clients' = s_clients
          \/ /\ http_slot' \in Slots /\ http_pc' = "rename" /\ Has(http_slot', fd_of[c])
             /\ Same(http_slot') /\ s_clients'[http_slot'].fd = s_clients[http_slot'].fd
             /\ s_clients'[http_slot'].chat_id \in {id, Torn}
      BY <1>4, NamingTable DEF Sound, Types, Renamed
    <2>5. ASSUME http_slot' \in Slots, http_pc' = "rename", s_clients'[http_slot'].fd = fd_of[c],
                 s_clients'[http_slot'].chat_id \in {id, Torn}
          PROVE  Fine(http_slot')
      BY <2>3, <2>5 DEF Fine
    <2> QED BY <1>1, <2>1, <2>4, <2>5 DEF Same, Has
  <1>5. CASE Rename
    <2>1. http_slot \in Slots /\ http_id \in ChatIds /\ UNCHANGED <<fd_of, claims>> /\ http_pc = "rename"
      BY <1>5 DEF Rename, Sound, Types, HttpTypes, connVars
    <2>2. Renamed(http_slot, http_id)
      BY <1>5, <2>1, RenameTable DEF Sound, Types
    <2>3. Owned(http_id, s_clients[http_slot].fd, fd_of', claims', refused')
      <3>1. http_conn \in Known /\ http_id \in claims[http_conn] /\ s_clients[http_slot].fd = fd_of[http_conn]
        BY <2>1, KnownTyped DEF Sound, HttpInv, Types
      <3> QED BY <2>1, <3>1 DEF Owned, Known, Sound, HttpInv
    <2>4. Fine(http_slot)
      BY <2>2, <2>3 DEF Fine, Renamed
    <2> QED BY <1>1, <1>2, <2>1, <2>2, <2>4 DEF Renamed, Same
  <1>6. CASE RemoveClient
    <2>1. disp_slot \in Slots /\ s_clients[disp_slot].active /\ UNCHANGED <<http_pc, http_slot>>
      BY <1>6 DEF RemoveClient, Sound, AtWork, Types, DispTypes, httpVars
    <2>2. PICK i \in Slots : Same(i) /\ s_clients'[i].active = FALSE
      BY <1>6, <2>1, RemoveTable DEF Sound, Types
    <2>3. Fine(i)
      BY <2>2 DEF Fine
    <2> QED BY <1>1, <1>2, <2>1, <2>2, <2>3 DEF Same
  <1>7. ASSUME NEW c \in Conns, FramePlain(c) PROVE \A s \in Slots : Fine(s)
    <2>1. s_clients' = s_clients /\ http_pc = "idle"
      BY <1>7 DEF FramePlain
    <2> QED BY <1>1, <2>1
  <1>8. CASE HttpPush
    <2>1. s_clients' = s_clients /\ http_pc = "push"
      BY <1>8 DEF HttpPush
    <2> QED BY <1>1, <1>2, <2>1
  <1>9. CASE UNCHANGED <<s_clients, http_pc, http_slot>>
    BY <1>1, <1>2, <1>9
  <1> QED
    BY <1>2, <1>3, <1>4, <1>5, <1>6, <1>7, <1>8, <1>9, Steps
    DEF Close, Answer, LookUp, Send, SendFails, httpVars, vars

LEMMA NextDisp ==
  ASSUME Sound, [Next]_vars
  PROVE  DispInv'
  <1>1. ASSUME UNCHANGED <<disp_pc, disp_slot, disp_msg>>, s_clients'[disp_slot].fd = s_clients[disp_slot].fd
        PROVE  DispInv'
    <2>1. disp_msg \in Messages
      BY DEF Sound, Types, DispTypes
    <2>2. disp_pc = "send" => /\ Asked(disp_msg)'
                              /\ Owned(disp_msg.chat_id, s_clients[disp_slot].fd, fd_of', claims', refused')
      <3> SUFFICES ASSUME disp_pc = "send"
                   PROVE  /\ Asked(disp_msg)'
                          /\ Owned(disp_msg.chat_id, s_clients[disp_slot].fd, fd_of', claims', refused')
        OBVIOUS
      <3>1. Asked(disp_msg) /\ Owned(disp_msg.chat_id, s_clients[disp_slot].fd, fd_of, claims, refused)
        BY DEF Sound, DispInv
      <3>2. Owned(disp_msg.chat_id, s_clients[disp_slot].fd, fd_of', claims', refused')
        BY <3>1, Lasting DEF Sound
      <3>3. Asked(disp_msg)'
        BY <1>1, <2>1, <3>1, Grow, KnownTyped DEF Asked, Sound, Types
      <3> QED BY <3>2, <3>3
    <2> QED BY <1>1, <2>2 DEF DispInv
  <1>2. disp_pc # "idle" => disp_slot \in Slots /\ s_clients[disp_slot].active
    BY DEF Sound, Types, DispTypes, AtWork
  <1>3. CASE disp_pc' # "send"
    BY <1>3 DEF DispInv
  <1>4. ASSUME NEW fd \in Fds, Connect(fd), disp_pc' = "send" PROVE DispInv'
    <2>1. UNCHANGED <<disp_pc, disp_slot, disp_msg>>
      BY <1>4 DEF Connect, dispVars
    <2>2. \/ s_clients' = s_clients
          \/ \E i \in Slots : Same(i) /\ ~s_clients[i].active
      BY <1>4, ConnectTable DEF Sound, Types
    <2> QED BY <1>1, <1>2, <1>4, <2>1, <2>2 DEF Same
  <1>5. ASSUME NEW i \in Slots, NEW x, Renamed(i, x), UNCHANGED dispVars, disp_pc' = "send" PROVE DispInv'
    BY <1>1, <1>2, <1>5 DEF Renamed, Same, dispVars
  <1>6. ASSUME NEW c \in Conns, NEW id \in Choices, FrameNaming(c, id), disp_pc' = "send" PROVE DispInv'
    <2>1. UNCHANGED dispVars
      BY <1>6 DEF FrameNaming
    <2>2. \/ s_clients' = s_clients
          \/ http_slot' \in Slots /\ \E x : Renamed(http_slot', x)
      BY <1>6, NamingTable DEF Sound, Types
    <2> QED BY <1>1, <1>5, <1>6, <2>1, <2>2 DEF dispVars
  <1>7. CASE Rename /\ disp_pc' = "send"
    <2>1. http_slot \in Slots /\ http_id \in ChatIds /\ UNCHANGED dispVars
      BY <1>7 DEF Rename, Sound, Types, HttpTypes
    <2> QED BY <1>5, <1>7, <2>1, RenameTable DEF Sound, Types
  <1>8. CASE LookUp /\ disp_pc' = "send"
    <2>1. /\ disp_msg' \in Within(outbound) /\ disp_slot' \in Slots /\ Owns(disp_slot', disp_msg'.chat_id)
          /\ UNCHANGED <<s_clients, fd_of, claims, refused>>
      BY <1>8, LooksUp DEF Sound, connVars, httpVars
    <2>2. disp_msg'.from \in Known /\ disp_msg'.chat_id \in claims[disp_msg'.from]
      BY <2>1 DEF Sound, BusInv, Asked
    <2>3. disp_msg'.chat_id # Torn
      BY <2>2, Ids DEF Sound, ConnInv
    <2>4. Owned(s_clients[disp_slot'].chat_id, s_clients[disp_slot'].fd, fd_of, claims, refused)
      BY <2>1, <2>3 DEF Sound, TableInv, Owns
    <2> QED BY <2>1, <2>2, <2>4 DEF DispInv, Asked, Owns, Known
  <1>9. CASE UNCHANGED <<s_clients, dispVars>>
    BY <1>1, <1>9 DEF dispVars
  <1> QED
    BY <1>3, <1>4, <1>6, <1>7, <1>8, <1>9, Steps
    DEF Close, FramePlain, HttpPush, Answer, Send, SendFails, RemoveClient, vars

LEMMA NextBus ==
  ASSUME Sound, [Next]_vars
  PROVE  BusInv'
  <1>1. \A m \in Messages : Asked(m) => Asked(m)'
    BY Lasting DEF Sound
  <1>2. \A m \in Within(inbound) \cup Within(outbound) : m \in Messages /\ Asked(m)
    BY BusFlow DEF Sound, BusInv
  <1>3. http_pc = "push" => Pushing \in Messages /\ Asked(Pushing)
    BY BusFlow, KnownTyped DEF Sound, Types, HttpInv, Asked
  <1>4. \A m \in Within(inbound') : m \in Messages /\ Asked(m)
    BY <1>2, <1>3, BusFlow DEF Sound
  <1>5. \A m \in Within(outbound') : m \in Messages /\ Asked(m)
    BY <1>2, BusFlow DEF Sound
  <1> QED BY <1>1, <1>4, <1>5 DEF BusInv

----------------------------------------------------------------------------
(* An open connection finds an entry for its socket, and its answers find  *)
(* one under their id, as long as none of the reasons to miss it applies.  *)

Listed(c)   == Excused(c) \/ \E s \in Slots : Has(s, fd_of[c])
FoundAs(c, id) == \/ Excused(c) \/ Several(claims[c])
                  \/ \E s \in Slots : Has(s, fd_of[c]) /\ s_clients[s].chat_id = id
Findable(m) == FoundAs(m.from, m.chat_id)

EntryInv ==
    /\ \A c \in open : Listed(c)
    /\ \A m \in Within(inbound) \cup Within(outbound) : Findable(m)
    /\ http_pc = "push" => FoundAs(http_conn, http_id)

(* No step but a failed send's takes an open connection's entry from it,   *)
(* and only the connection itself gives the entry another id.              *)
Kept(c, s) ==
    \/ fd_of[c] \in removed'
    \/ /\ s_clients'[s].active /\ s_clients'[s].fd = fd_of[c]
       /\ s_clients[s].chat_id \in claims[c] =>
              s_clients'[s].chat_id = s_clients[s].chat_id \/ Several(claims'[c])

LEMMA EntryKept ==
  ASSUME Sound, [Next]_vars, NEW c \in open, NEW s \in Slots, Has(s, fd_of[c])
  PROVE  Kept(c, s)
  <1>1. c \in Conns /\ c \in Known
    BY KnownTyped DEF Sound, Types
  <1>2. CASE s_clients'[s] = s_clients[s]
    BY <1>2 DEF Kept, Has
  <1>3. ASSUME NEW fd \in Fds, Connect(fd) PROVE Kept(c, s)
    <2>1. \/ s_clients' = s_clients
          \/ \E i \in Slots : Same(i) /\ ~s_clients[i].active
      BY <1>3, ConnectTable DEF Sound, Types
    <2> QED BY <1>2, <2>1 DEF Same, Has
  <1>4. ASSUME NEW d \in open, NEW i \in Slots, NEW x, Renamed(i, x), s_clients[i].fd = fd_of[d],
               NEW y \in claims'[d], x = y \/ (x = Torn /\ s_clients[i].chat_id # y),
               claims[d] \subseteq claims'[d]
        PROVE  Kept(c, s)
    <2>1. CASE s # i
      BY <1>2, <1>4, <2>1 DEF Renamed, Same
    <2>2. CASE s = i
      <3>1. c = d
        BY <1>4, <2>2 DEF Sound, ConnInv, Has
      <3>2. s_clients'[s].active /\ s_clients'[s].fd = fd_of[c] /\ s_clients'[s].chat_id = x
        BY <1>4, <2>2 DEF Renamed, Has
      <3>3. ASSUME s_clients[s].chat_id \in claims[c], x # s_clients[s].chat_id PROVE Several(claims'[c])
        <4>1. s_clients[s].chat_id \in claims'[c] /\ y \in claims'[c] /\ y # s_clients[s].chat_id
          BY <1>4, <2>2, <3>1, <3>3
        <4> QED BY <4>1 DEF Several
      <3> QED BY <3>2, <3>3 DEF Kept
    <2> QED BY <2>1, <2>2
  <1>5. ASSUME NEW d \in Conns, NEW id \in Choices, FrameNaming(d, id) PROVE Kept(c, s)
    <2>1. d \in open /\ claims' = [claims EXCEPT ![d] = @ \cup {id}]
      BY <1>5 DEF FrameNaming
    <2>2. id \in claims'[d] /\ claims[d] \subseteq claims'[d]
      BY <2>1, Ids, ClaimMade DEF Sound, Types, HttpTypes
    <2>3. \/ s_clients' = s_clients
          \/ /\ http_slot' \in Slots /\ Has(http_slot', fd_of[d])
             /\ Renamed(http_slot', IF Owns(http_slot', id) THEN id ELSE Torn)
      BY <1>5, NamingTable DEF Sound, Types
    <2>4. CASE s_clients' # s_clients
      <3> DEFINE i == http_slot'
                 x == IF Owns(i, id) THEN id ELSE Torn
      <3>1. i \in Slots /\ s_clients[i].fd = fd_of[d] /\ s_clients[i].active /\ Renamed(i, x)
        BY <2>3, <2>4 DEF Has
      <3>2. x = id \/ (x = Torn /\ s_clients[i].chat_id # id)
        BY <3>1 DEF Owns
      <3> HIDE DEF i, x
      <3> QED BY <1>4, <2>1, <2>2, <3>1, <3>2
    <2> QED BY <1>2, <2>4
  <1>6. CASE Rename
    <2>1. /\ http_slot \in Slots /\ http_id \in ChatIds /\ claims' = claims
          /\ http_conn \in open /\ http_id \in claims[http_conn] /\ s_clients[http_slot].fd = fd_of[http_conn]
      BY <1>6 DEF Rename, Sound, Types, HttpTypes, HttpInv
    <2>2. Renamed(http_slot, http_id)
      BY <1>6, <2>1, RenameTable DEF Sound, Types
    <2> QED BY <1>4, <2>1, <2>2
  <1>7. CASE RemoveClient
    <2>1. disp_slot \in Slots /\ s_clients[disp_slot].active
      BY <1>7 DEF RemoveClient, Sound, AtWork, Types, DispTypes
    <2>2. PICK i \in Slots : Has(i, s_clients[disp_slot].fd) /\ Same(i)
      BY <1>7, <2>1, RemoveTable DEF Sound, Types
    <2>3. removed' = removed \cup {s_clients[disp_slot].fd}
      BY <1>7, <2>1, RemoveTable DEF Sound, Types
    <2>4. CASE s = i
      BY <2>2, <2>3, <2>4 DEF Kept, Has
    <2> QED BY <1>2, <2>2, <2>4 DEF Same
  <1>8. CASE s_clients' = s_clients
    BY <1>2, <1>8
  <1> QED
    BY <1>3, <1>5, <1>6, <1>7, <1>8, Steps
    DEF Close, FramePlain, HttpPush, Answer, LookUp, Send, SendFails, vars

LEMMA StillListed ==
  ASSUME Sound, [Next]_vars, NEW c \in open, Listed(c)
  PROVE  Listed(c)'
  <1>1. c \in Known /\ fd_of'[c] = fd_of[c]
    BY KnownTyped, Grow DEF Sound, Types
  <1>2. CASE Excused(c)
    BY <1>1, <1>2, Lasting DEF Sound, Listed
  <1>3. CASE ~Excused(c)
    <2>1. PICK s \in Slots : Has(s, fd_of[c])
      BY <1>3 DEF Listed
    <2>2. Kept(c, s)
      BY <2>1, EntryKept
    <2> QED BY <1>1, <2>2 DEF Kept, Listed, Excused, Has
  <1> QED BY <1>2, <1>3

LEMMA StillFindable ==
  ASSUME Sound, [Next]_vars, NEW m \in Messages, Asked(m), Findable(m)
  PROVE  Findable(m)'
  <1>1. m.from \in Known /\ fd_of'[m.from] = fd_of[m.from] /\ m.chat_id \in claims[m.from]
    BY Grow DEF Sound, Asked
  <1>2. CASE Excused(m.from)
    BY <1>1, <1>2, Lasting DEF Sound, Findable, FoundAs
  <1>3. CASE Several(claims[m.from])
    BY <1>1, <1>3, Lasting DEF Sound, Findable, FoundAs
  <1>4. CASE ~Excused(m.from) /\ ~Several(claims[m.from])
    <2>1. PICK s \in Slots : Has(s, fd_of[m.from]) /\ s_clients[s].chat_id = m.chat_id
      BY <1>4 DEF Findable, FoundAs
    <2>2. Kept(m.from, s)
      BY <1>4, <2>1, EntryKept DEF Excused
    <2> QED BY <1>1, <2>1, <2>2 DEF Kept, Findable, FoundAs, Excused, Has
  <1> QED BY <1>2, <1>3, <1>4

LEMMA NextEntry ==
  ASSUME Sound, EntryInv, [Next]_vars
  PROVE  EntryInv'
  <1>1. ASSUME NEW c \in open' PROVE Listed(c)'
    <2>1. CASE c \in open
      BY <2>1, StillListed DEF EntryInv
    <2>2. CASE c \notin open
      <3>1. PICK fd \in Fds : Connect(fd)
        BY <2>2, Steps
        DEF Close, FramePlain, FrameNaming, Rename, HttpPush, Answer, LookUp, Send, SendFails,
            RemoveClient, connVars, vars
      <3>2. /\ fd_of' = Append(fd_of, fd) /\ c = Len(fd_of) + 1
            /\ FreeSlot = 0 => refused' = refused \cup (open' \ open)
        BY <2>2, <3>1 DEF Connect
      <3>3. fd_of'[c] = fd
        BY <3>1, <3>2, KnownTyped DEF Sound, Types
      <3>4. CASE FreeSlot = 0
        BY <2>2, <3>2, <3>4 DEF Listed, Excused
      <3>5. CASE FreeSlot # 0
        <4>1. PICK i \in Slots : s_clients'[i].fd = fd /\ s_clients'[i].active
          BY <3>1, <3>5, ConnectTable DEF Sound, Types
        <4> QED BY <3>3, <4>1 DEF Listed, Has
      <3> QED BY <3>4, <3>5
    <2> QED BY <2>1, <2>2
  <1>2. http_pc = "push" => Pushing \in Messages /\ Asked(Pushing) /\ Findable(Pushing)
    BY BusFlow, KnownTyped DEF Sound, Types, HttpInv, Asked, EntryInv, Findable
  <1>3. ASSUME NEW m \in Within(inbound') \cup Within(outbound') PROVE Findable(m)'
    <2>1. m \in Messages /\ Asked(m) /\ Findable(m)
      BY <1>2, BusFlow DEF Sound, BusInv, EntryInv
    <2> QED BY <2>1, StillFindable
  <1>4. ASSUME http_pc' = "push" PROVE FoundAs(http_conn, http_id)'
    <2>1. ASSUME NEW c \in Conns, c \in open, UNCHANGED <<fd_of, open, refused>>, s_clients' = s_clients,
                 http_conn' = c, http_id' \in ChatIds, http_slot' = FindByFd(fd_of[c]),
                 http_slot' = 0 \/ s_clients[http_slot'].chat_id = http_id'
          PROVE  FoundAs(http_conn, http_id)'
      <3>2. c \in Known
        BY <2>1, KnownTyped DEF Sound, Types
      <3>3. CASE http_slot' = 0
        <4>1. Excused(c)
          BY <2>1, <3>3, Searches, Bounds DEF EntryInv, Listed
        <4> QED BY <2>1, <3>2, <4>1, Lasting DEF Sound, FoundAs
      <3>4. CASE http_slot' # 0
        <4>1. http_slot' \in Slots /\ Has(http_slot', fd_of[c]) /\ s_clients[http_slot'].chat_id = http_id'
          BY <2>1, <3>4, Searches
        <4> QED BY <2>1, <4>1 DEF FoundAs, Has
      <3> QED BY <3>3, <3>4
    <2>2. ASSUME NEW c \in Conns, FramePlain(c) PROVE FoundAs(http_conn, http_id)'
      <3>1. /\ c \in open /\ UNCHANGED <<fd_of, open, refused>> /\ s_clients' = s_clients
            /\ http_conn' = c /\ http_slot' = FindByFd(fd_of[c])
            /\ http_slot' = 0 \/ s_clients[http_slot'].chat_id = http_id'
        BY <2>2 DEF FramePlain
      <3>2. http_id' \in ChatIds
        BY <2>2, PlainAsks DEF Sound
      <3> QED BY <2>1, <3>1, <3>2
    <2>3. ASSUME NEW c \in Conns, NEW id \in Choices, FrameNaming(c, id) PROVE FoundAs(http_conn, http_id)'
      <3>1. http_slot' = 0 /\ s_clients' = s_clients
        BY <1>4, <2>3, NamingTable DEF Sound, Types
      <3>2. /\ c \in open /\ UNCHANGED <<fd_of, open, refused>> /\ http_id' = id
            /\ http_conn' = c /\ http_slot' = FindByFd(fd_of[c])
        BY <2>3 DEF FrameNaming
      <3> QED BY <2>1, <3>1, <3>2, Ids
    <2>4. CASE Rename
      <3>1. /\ http_slot \in Slots /\ http_id \in ChatIds /\ http_pc = "rename"
            /\ UNCHANGED <<http_conn, http_id, fd_of>>
        BY <2>4 DEF Rename, Sound, Types, HttpTypes, connVars
      <3>2. /\ http_conn \in Known /\ s_clients[http_slot].fd = fd_of[http_conn]
            /\ s_clients[http_slot].active \/ Excused(http_conn)
        BY <3>1, KnownTyped DEF Sound, Types, HttpInv, Excused
      <3>4. Renamed(http_slot, http_id)
        BY <2>4, <3>1, RenameTable DEF Sound, Types
      <3>5. CASE Excused(http_conn)
        BY <3>1, <3>2, <3>5, Lasting DEF Sound, FoundAs
      <3>6. CASE s_clients[http_slot].active
        BY <3>1, <3>2, <3>4, <3>6 DEF FoundAs, Has, Renamed
      <3> QED BY <3>2, <3>5, <3>6
    <2>5. CASE http_pc = "push" /\ UNCHANGED httpVars
      <3>1. PICK m \in Messages : m = Pushing
        BY <1>2, <2>5
      <3>2. Asked(m) /\ Findable(m) /\ m.from = http_conn /\ m.chat_id = http_id
        BY <1>2, <2>5, <3>1, BusFlow DEF Sound
      <3>3. Findable(m)'
        BY <3>2, StillFindable
      <3> QED BY <2>5, <3>2, <3>3 DEF Findable, httpVars
    <2> QED
      BY <1>4, <2>2, <2>3, <2>4, <2>5, Steps
      DEF Connect, Close, HttpPush, Answer, LookUp, Send, SendFails, RemoveClient, httpVars, vars
  <1> QED BY <1>1, <1>3, <1>4 DEF EntryInv

----------------------------------------------------------------------------
(* What went wrong stays excused. *)

MissedInv == \A m \in missed : Asked(m) /\ (Excused(m.from) \/ Several(claims[m.from]))
StrayInv  ==
    \A asker, other \in Conns : <<asker, other>> \in strays =>
        /\ asker \in Known /\ other \in Known
        /\ \E c \in Known : fd_of[c] = fd_of[other] /\ IdsOf(c) \cap claims[asker] # {}

LEMMA NextMissed ==
  ASSUME Sound, EntryInv, MissedInv, [Next]_vars
  PROVE  MissedInv'
  <1>1. ASSUME NEW m \in Messages, Asked(m), Excused(m.from) \/ Several(claims[m.from])
        PROVE  Asked(m)' /\ (Excused(m.from) \/ Several(claims[m.from]))'
    <2>1. Asked(m)'
      BY <1>1, Lasting DEF Sound
    <2>2. m.from \in Known
      BY <1>1 DEF Asked
    <2>3. Excused(m.from)' \/ Several(claims[m.from])'
      BY <1>1, <2>2, Lasting DEF Sound
    <2> QED BY <2>1, <2>3
  <1>2. \A m \in missed : m \in Messages
    BY DEF Sound, Types, DispTypes
  <1>3. CASE missed' = missed
    BY <1>1, <1>2, <1>3 DEF MissedInv
  <1>4. CASE LookUp /\ missed' # missed
    <2>1. /\ disp_msg' \in Within(outbound) /\ disp_msg' \in Messages
          /\ missed' = missed \cup {disp_msg'} /\ \A s \in Slots : ~Owns(s, disp_msg'.chat_id)
      BY <1>4, LooksUp DEF Sound
    <2>2. PICK m \in Messages : m = disp_msg'
      BY <2>1
    <2>3. Asked(m) /\ (Excused(m.from) \/ Several(claims[m.from]))
      BY <2>1, <2>2 DEF Sound, BusInv, EntryInv, Findable, FoundAs, Has, Owns
    <2> QED BY <1>1, <1>2, <2>1, <2>2, <2>3 DEF MissedInv
  <1> QED
    BY <1>3, <1>4, Steps
    DEF Connect, Close, FramePlain, FrameNaming, Rename, HttpPush, Answer, Send, SendFails,
        RemoveClient, dispVars, vars

LEMMA NextStray ==
  ASSUME Sound, StrayInv, [Next]_vars
  PROVE  StrayInv'
  <1>1. ASSUME NEW asker \in Known, NEW other \in Known,
               \E c \in Known : fd_of[c] = fd_of[other] /\ IdsOf(c) \cap claims[asker] # {}
        PROVE  /\ asker \in Known' /\ other \in Known'
               /\ \E c \in Known' : fd_of'[c] = fd_of'[other] /\ IdsOf(c)' \cap claims'[asker] # {}
    <2>1. PICK c \in Known : fd_of[c] = fd_of[other] /\ IdsOf(c) \cap claims[asker] # {}
      BY <1>1
    <2>2. /\ c \in Known' /\ asker \in Known' /\ other \in Known'
          /\ fd_of'[c] = fd_of[c] /\ fd_of'[c] = fd_of'[other] /\ (c \in refused' => c \in refused)
      BY <2>1, Grow DEF Sound
    <2>3. claims[c] \subseteq claims'[c] /\ claims[asker] \subseteq claims'[asker]
      BY Grow, KnownTyped DEF Sound, Types
    <2>4. IdsOf(c) \subseteq IdsOf(c)'
      BY <2>2, <2>3 DEF IdsOf
    <2> QED BY <2>1, <2>2, <2>3, <2>4
  <1>2. CASE strays' = strays
    BY <1>1, <1>2 DEF StrayInv
  <1>3. CASE Send
    <2>1. PICK c \in open : /\ fd_of[c] = s_clients[disp_slot].fd
                            /\ strays' = strays \cup ({<<disp_msg.from, c>>} \ {<<c, c>>})
      BY <1>3 DEF Send
    <2>2. disp_msg.from \in Known /\ disp_msg.chat_id \in claims[disp_msg.from] /\ c \in Known
      BY <1>3, KnownTyped DEF Send, Sound, DispInv, Asked, Types
    <2>3. Owned(disp_msg.chat_id, fd_of[c], fd_of, claims, refused)
      BY <1>3, <2>1 DEF Send, Sound, DispInv
    <2>4. \E d \in Known : fd_of[d] = fd_of[c] /\ IdsOf(d) \cap claims[disp_msg.from] # {}
      <3>1. PICK d \in Known : /\ fd_of[d] = fd_of[c]
                              /\ \/ disp_msg.chat_id \in claims[d]
                                 \/ d \notin refused /\ disp_msg.chat_id = WsId(fd_of[c])
        BY <2>3 DEF Owned, Known
      <3> QED BY <2>2, <3>1 DEF IdsOf
    <2>5. ASSUME NEW asker \in Conns, NEW other \in Conns, <<asker, other>> \in strays'
          PROVE  <<asker, other>> \in strays \/ (asker = disp_msg.from /\ other = c)
      <3>1. <<asker, other>> \in strays \/ <<asker, other>> = <<disp_msg.from, c>>
        BY <2>1, <2>5, Zenon
      <3>2. \A a, b : <<asker, other>> = <<a, b>> => asker = a /\ other = b
        OBVIOUS
      <3> QED BY <3>1, <3>2, Zenon
    <2> QED BY <1>1, <2>2, <2>4, <2>5 DEF StrayInv
  <1> QED
    BY <1>2, <1>3, Steps
    DEF Connect, Close, FramePlain, FrameNaming, Rename, HttpPush, Answer, LookUp, SendFails,
        RemoveClient, dispVars, vars

----------------------------------------------------------------------------
(* The inductive invariant and the theorems *)

IInv == Sound /\ EntryInv /\ MissedInv /\ StrayInv

LEMMA InitInv == Init => IInv
  <1> SUFFICES ASSUME Init PROVE IInv
    OBVIOUS
  <1> USE DEF Init
  <1>1. Known = {} /\ open = {} /\ \A c \in Conns : claims[c] = {}
    BY DEF Known
  <1>2. BusTypes
    BY Bounds DEF BusInit, BusTypes
  <1>3. s_clients \in Tables /\ \A s \in Slots : s_clients[s].active = FALSE
    <2> DEFINE e == [fd |-> 0, chat_id |-> Unknown, active |-> FALSE]
    <2>1. e \in Entries /\ e.active = FALSE
      BY Ids DEF Entries
    <2>2. s_clients = [s \in Slots |-> e]
      OBVIOUS
    <2> HIDE DEF e
    <2> QED BY <2>1, <2>2 DEF Tables
  <1>4. ConnTypes /\ HttpTypes /\ DispTypes
    BY Bounds, Ids, MessageParts DEF ConnTypes, HttpTypes, DispTypes
  <1>5. AtWork /\ HttpInv /\ TableInv /\ DispInv
    BY <1>3 DEF AtWork, HttpInv, TableInv, DispInv
  <1>6. ConnInv
    BY <1>1, FS_EmptySet DEF ConnInv
  <1>7. BusInv /\ EntryInv
    BY <1>1, NothingWithin DEF BusInit, BusInv, EntryInv
  <1>8. MissedInv /\ StrayInv
    BY DEF MissedInv, StrayInv
  <1> QED BY <1>2, <1>3, <1>4, <1>5, <1>6, <1>7, <1>8 DEF IInv, Sound, Types

LEMMA NextInv == IInv /\ [Next]_vars => IInv'
  <1> SUFFICES ASSUME IInv, [Next]_vars PROVE IInv'
    OBVIOUS
  <1>1. Types'
    BY NextTables, NextBusTypes, NextConnTypes, NextHttpTypes, NextDispTypes DEF IInv, Sound, Types
  <1>2. AtWork'
    BY NextAtWork DEF IInv, Sound
  <1>3. Sound'
    BY <1>1, <1>2, NextConn, NextHttp, NextTable, NextDisp, NextBus DEF IInv, Sound
  <1>4. EntryInv' /\ MissedInv' /\ StrayInv'
    BY NextEntry, NextMissed, NextStray DEF IInv
  <1> QED BY <1>3, <1>4 DEF IInv

LEMMA Invariant == Spec => []IInv
  <1> QED BY InitInv, NextInv, PTL DEF Spec

(* Every variable of the gateway, its table and its two tasks has its type, *)
(* and a task that is to use a slot has one (ws_server.c).                 *)
THEOREM TypeCorrect == Spec => []TypeOK
  <1>1. IInv => TypeOK
    BY DEF IInv, Sound, Types, BusTypes, ConnTypes, HttpTypes, DispTypes, Tables, Entries, TypeOK
  <1> QED BY <1>1, Invariant, PTL

(* ws_server_send writes to whoever has the socket of the entry it found:  *)
(* an answer strays only onto a socket number whose user, now or earlier,  *)
(* had by handshake or by choice an id that the one that asked used too.   *)
THEOREM StraysShareAnId == Spec => []OnlySharedIdsMisdeliver
  <1>1. IInv => OnlySharedIdsMisdeliver
    BY DEF IInv, StrayInv, OnlySharedIdsMisdeliver, Known
  <1> QED BY <1>1, Invariant, PTL

(* find_by_chat_id fails for an answer only if its client has left, was    *)
(* never put into the table, has used another id since, or is on a socket  *)
(* whose entry a failed send took out: no race of the handler with the     *)
(* dispatcher loses an entry otherwise.                                    *)
THEOREM MissesHaveAReason == Spec => []MissedForAReason
  <1>1. ASSUME IInv PROVE MissedForAReason
    <2> SUFFICES ASSUME NEW m \in missed, Several(claims[m.from])
                 PROVE  Cardinality(claims[m.from]) > 1
      BY <1>1 DEF IInv, MissedInv, Excused, MissedForAReason
    <2>1. IsFiniteSet(claims[m.from])
      BY <1>1, KnownTyped DEF IInv, MissedInv, Asked, Sound, Types, ConnInv
    <2>2. PICK a, b \in claims[m.from] : a # b
      BY DEF Several
    <2>3. {a, b} \subseteq claims[m.from] /\ Cardinality({a, b}) = 2
      <3>1. Cardinality({a} \cup {b}) = Cardinality({a}) + 1 /\ Cardinality({a}) = 1
        BY <2>2, FS_Singleton, FS_AddElement
      <3>2. {a} \cup {b} = {a, b}
        OBVIOUS
      <3> QED BY <3>1, <3>2
    <2>4. Cardinality(claims[m.from]) >= 2 /\ Cardinality(claims[m.from]) \in Nat
      BY <2>1, <2>3, FS_Subset, FS_CardinalityType
    <2> QED BY <2>4
  <1> QED BY <1>1, Invariant, PTL
=============================================================================

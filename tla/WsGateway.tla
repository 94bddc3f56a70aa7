----------------------------- MODULE WsGateway ------------------------------
(***************************************************************************)
(* The WebSocket gateway of MimiClaw (gateway/ws_server.c): a table of     *)
(* clients, filled by the HTTP server's task on a handshake and searched   *)
(* by the dispatcher for each answer, without a lock.  The gateway is not  *)
(* told when a connection closes, so an entry stays until a send to it     *)
(* fails, while the socket number it holds may be given to a newcomer.     *)
(***************************************************************************)
EXTENDS MessageBus, FiniteSets

CONSTANTS MaxClients,  \* MIMI_WS_MAX_CLIENTS: 4
          MaxFd,       \* bound: socket numbers in use by the HTTP server
          MaxConns,    \* bound: connections that are ever made
          MaxFrames,   \* bound: messages that clients ever send
          Names        \* other chat_ids that clients may choose

ASSUME GatewayAssumption == {MaxClients, MaxFd, MaxConns, MaxFrames} \subseteq Nat \ {0}

Slots == 1..MaxClients
Fds   == 1..MaxFd
Conns == 1..MaxConns

(* chat_id: "ws_<fd>", another name, the id of a client that is not in the *)
(* table, and an id that another task reads while strncpy writes different *)
(* bytes over it (taken to be no id at all).  Clients may choose any id,   *)
(* also another client's "ws_<fd>" and "ws_unknown".                       *)
WsId(n)  == <<"ws", n>>
Named(n) == <<"named", n>>
Unknown  == <<"unknown">>
Torn     == <<"torn">>
Choices  == {WsId(n) : n \in Fds} \cup {Named(n) : n \in Names} \cup {Unknown}
ChatIds  == Choices \cup {Torn}

VARIABLES s_clients,             \* the table
          fd_of, open,           \* sockets of the connections so far; those open
          frames,                \* messages sent so far
          http_pc, http_conn, http_slot, http_id,  \* ws_handler on a frame
          disp_pc, disp_msg, disp_slot,            \* ws_server_send
          refused,               \* history: connections that found no free slot
          claims,                \* history: the ids each connection asked under
          strays,                \* history: who asked, and who got the answer
          missed,                \* history: answers for which no entry was found
          removed                \* history: sockets whose entry was removed

connVars == <<fd_of, open, refused, frames>>
httpVars == <<http_pc, http_conn, http_slot, http_id, claims>>
dispVars == <<disp_pc, disp_msg, disp_slot, strays, missed, removed>>
vars == <<busVars, s_clients, connVars, httpVars, dispVars>>

Messages == [from : Conns, chat_id : ChatIds]    \* from: history
NoMsg    == [from |-> 1, chat_id |-> Unknown]

(* The first slot that fits, or 0. *)
First(Fits(_)) == IF \E s \in Slots : Fits(s)
                  THEN CHOOSE s \in Slots : Fits(s) /\ \A r \in 1..(s - 1) : ~Fits(r)
                  ELSE 0

FindByFd(fd) == LET Fits(s) == s_clients[s].active /\ s_clients[s].fd = fd IN First(Fits)
FindByChatId(id) ==
    LET Fits(s) == s_clients[s].active /\ s_clients[s].chat_id = id IN First(Fits)
FreeSlot == LET Fits(s) == ~s_clients[s].active IN First(Fits)

Init ==
    /\ BusInit
    /\ s_clients = [s \in Slots |-> [fd |-> 0, chat_id |-> Unknown, active |-> FALSE]]
    /\ fd_of = <<>> /\ open = {} /\ refused = {} /\ frames = 0
    /\ http_pc = "idle" /\ http_conn = 1 /\ http_slot = 0 /\ http_id = Unknown
    /\ disp_pc = "idle" /\ disp_msg = NoMsg /\ disp_slot = 0
    /\ claims = [c \in Conns |-> {}] /\ strays = {} /\ missed = {} /\ removed = {}

----------------------------------------------------------------------------
(* The clients and the HTTP server *)

(* Faults: the id is made from the slot; a full table evicts its first.    *)
AddClientBySlot(fd) ==
    IF FreeSlot = 0 THEN UNCHANGED s_clients
    ELSE s_clients' = [s_clients EXCEPT ![FreeSlot] =
                           [fd |-> fd, chat_id |-> WsId(FreeSlot), active |-> TRUE]]
AddClientEvicting(fd) ==
    s_clients' = [s_clients EXCEPT ![IF FreeSlot = 0 THEN 1 ELSE FreeSlot] =
                      [fd |-> fd, chat_id |-> WsId(fd), active |-> TRUE]]

(* When the table is full the client stays connected, outside the table.   *)
AddClient(fd) ==
    IF FreeSlot = 0 THEN UNCHANGED s_clients
    ELSE s_clients' = [s_clients EXCEPT ![FreeSlot] =
                           [fd |-> fd, chat_id |-> WsId(fd), active |-> TRUE]]

Connect(fd) ==
    /\ http_pc = "idle"
    /\ Len(fd_of) < MaxConns /\ \A c \in open : fd_of[c] # fd
    /\ fd_of' = Append(fd_of, fd) /\ open' = open \cup {Len(fd_of) + 1}
    /\ refused' = IF FreeSlot = 0 THEN refused \cup (open' \ open) ELSE refused
    /\ AddClient(fd)
    /\ UNCHANGED <<busVars, frames, httpVars, dispVars>>

(* The server closes its side between two calls of the handler. *)
Close(c) ==
    /\ http_pc = "idle"
    /\ c \in open /\ open' = open \ {c}
    /\ UNCHANGED <<busVars, s_clients, fd_of, refused, frames, httpVars, dispVars>>

(* A frame of type "message", under an id of the client's choice ...       *)
FrameNaming(c, id) ==
    /\ http_pc = "idle" /\ c \in open /\ frames < MaxFrames
    /\ frames' = frames + 1
    /\ http_conn' = c /\ http_slot' = FindByFd(fd_of[c]) /\ http_id' = id
    /\ claims' = [claims EXCEPT ![c] = @ \cup {id}]
    /\ IF http_slot' = 0 THEN http_pc' = "push" /\ UNCHANGED s_clients
       ELSE /\ http_pc' = "rename"
            /\ s_clients' = [s_clients EXCEPT
                   ![http_slot'].chat_id = IF @ = http_id' THEN @ ELSE Torn]
    /\ UNCHANGED <<busVars, fd_of, open, refused, dispVars>>

Rename ==
    /\ http_pc = "rename" /\ http_pc' = "push"
    /\ s_clients' = [s_clients EXCEPT ![http_slot].chat_id = http_id]
    /\ UNCHANGED <<busVars, connVars, http_conn, http_slot, http_id, claims, dispVars>>

(* ... or under the one the table has for its socket.                      *)
FramePlain(c) ==
    /\ http_pc = "idle" /\ c \in open /\ frames < MaxFrames
    /\ frames' = frames + 1
    /\ http_conn' = c /\ http_slot' = FindByFd(fd_of[c])
    /\ http_id' = IF http_slot' = 0 THEN Unknown ELSE s_clients[http_slot'].chat_id
    /\ claims' = [claims EXCEPT ![c] = @ \cup {http_id'}]
    /\ http_pc' = "push"
    /\ UNCHANGED <<busVars, s_clients, fd_of, open, refused, dispVars>>

(* Nobody looks at the result of the push. *)
HttpPush ==
    /\ http_pc = "push" /\ http_pc' = "idle"
    /\ \/ PushInbound([from |-> http_conn, chat_id |-> http_id])
       \/ PushInboundFails
    /\ UNCHANGED <<outbound, s_clients, connVars, http_conn, http_slot, http_id, claims,
                   dispVars>>

----------------------------------------------------------------------------
(* The agent sends its answer to the chat_id of the question. *)
Answer ==
    /\ PopInbound
    /\ PushOutbound(Head(inbound)) \/ PushOutboundFails
    /\ UNCHANGED <<s_clients, connVars, httpVars, dispVars>>

----------------------------------------------------------------------------
(* The dispatcher *)

LookUp ==
    /\ disp_pc = "idle" /\ PopOutbound
    /\ disp_msg' = Head(outbound) /\ disp_slot' = FindByChatId(disp_msg'.chat_id)
    /\ IF disp_slot' = 0
       THEN disp_pc' = "idle" /\ missed' = missed \cup {disp_msg'}
       ELSE disp_pc' = "send" /\ UNCHANGED missed
    /\ UNCHANGED <<inbound, s_clients, connVars, httpVars, strays, removed>>

(* The frame goes to whoever has the socket now. *)
Send ==
    /\ disp_pc = "send" /\ disp_pc' = "idle"
    /\ \E c \in open : /\ fd_of[c] = s_clients[disp_slot].fd
                       /\ strays' = strays \cup ({<<disp_msg.from, c>>} \ {<<c, c>>})
    /\ UNCHANGED <<busVars, s_clients, connVars, httpVars, disp_msg, disp_slot, missed, removed>>

(* There is no such connection, or it takes no data. *)
SendFails ==
    /\ disp_pc = "send" /\ disp_pc' = "remove"
    /\ UNCHANGED <<busVars, s_clients, connVars, httpVars, disp_msg, disp_slot, strays, missed,
                   removed>>

(* Out goes the first entry with that socket, which may be another. *)
RemoveClient ==
    /\ disp_pc = "remove" /\ disp_pc' = "idle"
    /\ LET fd == s_clients[disp_slot].fd IN
           /\ s_clients' = [s_clients EXCEPT ![FindByFd(fd)].active = FALSE]
           /\ removed' = removed \cup {fd}
    /\ UNCHANGED <<busVars, connVars, httpVars, disp_msg, disp_slot, strays, missed>>

Next ==
    \/ \E fd \in Fds : Connect(fd)
    \/ \E c \in Conns : Close(c) \/ FramePlain(c) \/ (\E id \in Choices : FrameNaming(c, id))
    \/ Rename \/ HttpPush \/ Answer
    \/ LookUp \/ Send \/ SendFails \/ RemoveClient

Spec == Init /\ [][Next]_vars

----------------------------------------------------------------------------
(* Properties *)

(* Every variable has its type, and whoever is to use a slot has one.      *)
TypeOK ==
    /\ inbound \in Seq(Messages) /\ Len(inbound) <= QueueLen
    /\ outbound \in Seq(Messages) /\ Len(outbound) <= QueueLen
    /\ s_clients \in [Slots -> [fd : Fds \cup {0}, chat_id : ChatIds, active : BOOLEAN]]
    /\ fd_of \in Seq(Fds) /\ Len(fd_of) <= MaxConns
    /\ open \subseteq 1..Len(fd_of) /\ refused \subseteq 1..Len(fd_of) /\ frames \in 0..MaxFrames
    /\ http_pc \in {"idle", "rename", "push"} /\ http_conn \in Conns
    /\ http_slot \in Slots \cup {0} /\ (http_pc = "rename" => http_slot # 0)
    /\ http_id \in ChatIds
    /\ disp_pc \in {"idle", "send", "remove"} /\ disp_msg \in Messages
    /\ disp_slot \in Slots \cup {0} /\ (disp_pc # "idle" => disp_slot # 0)
    /\ claims \in [Conns -> SUBSET ChatIds] /\ strays \subseteq Conns \X Conns
    /\ missed \subseteq Messages /\ removed \subseteq Fds

(* The ids a connection asked under, and the one its handshake gave it.    *)
IdsOf(c) == claims[c] \cup IF c \in refused THEN {} ELSE {WsId(fd_of[c])}

(* An answer reaches another connection than the one that asked only on a  *)
(* socket number whose user, now or earlier, had an id that the one that   *)
(* asked has used as well: by its handshake or by its own choice.          *)
OnlySharedIdsMisdeliver ==
    \A asker, other \in Conns : <<asker, other>> \in strays =>
        \E c \in 1..Len(fd_of) : /\ fd_of[c] = fd_of[other]
                                 /\ IdsOf(c) \cap claims[asker] # {}

(* No answer goes unsent for want of an entry, except to a client that has *)
(* left, that never got into the table, that has changed its id since it   *)
(* asked, or on whose socket a send has failed before.                     *)
MissedForAReason ==
    \A m \in missed : \/ m.from \notin open
                      \/ m.from \in refused
                      \/ Cardinality(claims[m.from]) > 1
                      \/ fd_of[m.from] \in removed
=============================================================================

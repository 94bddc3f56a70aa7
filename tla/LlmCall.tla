------------------------------ MODULE LlmCall -------------------------------
(***************************************************************************)
(* The agent's turn with the model: llm_chat_tools (llm/llm_proxy.c) over  *)
(* a direct connection or a tunnel through the proxy                       *)
(* (proxy/http_proxy.c), called in the loop of the agent, while the        *)
(* console changes the settings that each step reads anew.                 *)
(***************************************************************************)
EXTENDS Settings, LlmFormats

CONSTANTS MaxIter,   \* rounds of a turn: 10 in MimiClaw, 5 in AtomClaw
          MaxCalls,  \* CFG_MAX_TOOL_CALLS: 4
          Chunks,    \* bound: pieces in which a response arrives
          MaxTurns   \* bound: turns

ASSUME CallAssumption == {MaxIter, MaxCalls, Chunks, MaxTurns} \subseteq Nat \ {0}

VARIABLES pc,         \* where the agent is
          turns,      \* turns so far
          messages,   \* the conversation, in the Anthropic format
          iteration,
          request,    \* the messages sent
          formats,    \* the provider as read for the body, address, header and parser
          via,        \* "direct" or "proxy"
          dialled,    \* the proxy's host and port, as read for the connection
          held,       \* buffers and sockets not given back yet
          arrived,    \* pieces of the response so far
          kept,       \* those in the response buffer
          taken,      \* history: the last response the agent was given
          quiet       \* history: no setting in RAM changed since the call began

callVars == <<request, formats, via, dialled, held, arrived, kept>>
turnVars == <<turns, messages, iteration>>
vars == <<settingsVars, pc, turnVars, callVars, taken, quiet>>

Provider     == IF ram.provider = "openai" THEN "openai" ELSE "anthropic"
ProxyEnabled == ram.host # None /\ ram.port # 0

NoResponse == [text |-> FALSE, calls |-> 0, tool_use |-> FALSE,
               from |-> None, parsed |-> None, whole |-> TRUE, via |-> "direct"]
NoFormats  == [body |-> None, address |-> None, header |-> None, parser |-> None]
Unread     == [host |-> None, port |-> 0]

CallInit == /\ request = <<>> /\ formats = NoFormats /\ via = "direct" /\ dialled = Unread
            /\ held = {} /\ arrived = 0 /\ kept = {}

Init == /\ SettingsInit /\ CallInit
        /\ pc = "idle" /\ turns = 0 /\ messages = <<>> /\ iteration = 0
        /\ taken = NoResponse /\ quiet = TRUE

----------------------------------------------------------------------------
(* The turn *)

Begin == /\ pc = "idle" /\ turns < MaxTurns /\ turns' = turns + 1
         /\ pc' = "start" /\ messages' = <<UserText>> /\ iteration' = 0
         /\ UNCHANGED <<settingsVars, callVars, taken, quiet>>

EndTurn == /\ pc' = "idle" /\ messages' = <<>> /\ iteration' = 0 /\ UNCHANGED turns

(* llm_chat_tools without a key or without memory, and the last round over. *)
Refuse == /\ pc = "start" /\ EndTurn
          /\ UNCHANGED <<settingsVars, callVars, taken, quiet>>

RoundsLeft == iteration < MaxIter

(* The request in the provider's format, and a buffer for the response.    *)
BuildRequest ==
    /\ pc = "start" /\ RoundsLeft /\ ram.api_key # None
    /\ formats' = [NoFormats EXCEPT !.body = Provider]
    /\ request' = IF Provider = "openai" THEN ConvertMessages(messages) ELSE messages
    /\ held' = {"post_data", "rb"} /\ arrived' = 0 /\ kept' = {} /\ dialled' = Unread
    /\ quiet' = TRUE /\ pc' = "choose"
    /\ UNCHANGED <<settingsVars, turnVars, via, taken>>

(* llm_http_call. *)
Choose ==
    /\ pc = "choose"
    /\ via' = IF ProxyEnabled THEN "proxy" ELSE "direct"
    /\ pc' = "open"
    /\ UNCHANGED <<settingsVars, turnVars, request, formats, dialled, held, arrived, kept,
                   taken, quiet>>

(* A step of the call that takes xs, gives ys back and goes on at next.    *)
Holding(xs, ys, next) ==
    /\ held' = (held \cup xs) \ ys /\ pc' = next
    /\ UNCHANGED <<settingsVars, turnVars, request, via, arrived, kept, taken, quiet>>

(* The agent frees what the call held and ends its turn with an apology.   *)
Fail == /\ pc = "failed" /\ EndTurn
        /\ held' = held \ {"post_data", "rb"}
        /\ UNCHANGED <<settingsVars, request, formats, via, dialled, arrived, kept, taken, quiet>>

----------------------------------------------------------------------------
(* llm_http_direct *)

OpenDirect ==
    /\ pc = "open" /\ via = "direct"
    /\ formats' = [formats EXCEPT !.address = Provider]
    /\ Holding({"client"}, {}, "header") \/ Holding({}, {}, "failed")
    /\ UNCHANGED dialled

HeaderDirect ==
    /\ pc = "header" /\ via = "direct"
    /\ formats' = [formats EXCEPT !.header = Provider]
    /\ Holding({}, {}, "exchange")
    /\ UNCHANGED dialled

(* Nobody looks whether a piece fitted the buffer. *)
PieceDirect ==
    /\ pc = "exchange" /\ via = "direct" /\ arrived < Chunks
    /\ arrived' = arrived + 1
    /\ kept' \in {kept, kept \cup {arrived'}}
    /\ UNCHANGED <<settingsVars, pc, turnVars, request, formats, via, dialled, held, taken, quiet>>

EndDirect ==
    /\ pc = "exchange" /\ via = "direct"
    /\ \/ arrived = Chunks /\ Holding({}, {"client"}, "parse")
       \/ Holding({}, {"client"}, "failed")
    /\ UNCHANGED <<formats, dialled>>

----------------------------------------------------------------------------
(* llm_http_via_proxy: proxy_conn_open with open_connect_tunnel first.     *)

(* The proxy may be gone since Choose; its name may not resolve.           *)
Resolve ==
    /\ pc = "open" /\ via = "proxy"
    /\ formats' = [formats EXCEPT !.address = Provider]
    /\ IF ProxyEnabled
       THEN /\ dialled' = [host |-> ram.host, port |-> ram.port]
            /\ Holding({"res"}, {}, "socket") \/ Holding({}, {}, "failed")
       ELSE Holding({}, {}, "failed") /\ UNCHANGED dialled

Socket ==
    /\ pc = "socket"
    /\ Holding({"sock"}, {}, "connect") \/ Holding({}, {"res"}, "failed")
    /\ UNCHANGED <<formats, dialled>>

Connect ==
    /\ pc = "connect"
    /\ Holding({}, {"res"}, "tunnel") \/ Holding({}, {"res", "sock"}, "failed")
    /\ UNCHANGED <<formats, dialled>>

(* CONNECT is sent and accepted, or refused, or the time is up. *)
Tunnel ==
    /\ pc = "tunnel"
    /\ Holding({}, {}, "wrap") \/ Holding({}, {"sock"}, "failed")
    /\ UNCHANGED <<formats, dialled>>

(* Fault: the socket stays open when there is no memory for the TLS session. *)
WrapLeaking ==
    /\ pc = "wrap"
    /\ Holding({"conn", "tls"}, {}, "handshake") \/ Holding({}, {}, "failed")
    /\ UNCHANGED <<formats, dialled>>

Wrap ==
    /\ pc = "wrap"
    /\ Holding({"conn", "tls"}, {}, "handshake") \/ Holding({}, {"sock"}, "failed")
    /\ UNCHANGED <<formats, dialled>>

(* esp_tls_conn_destroy, and with it proxy_conn_close, closes the socket.  *)
Connection == {"tls", "sock", "conn"}

Handshake ==
    /\ pc = "handshake"
    /\ Holding({}, {}, "header") \/ Holding({}, Connection, "failed")
    /\ UNCHANGED <<formats, dialled>>

(* Fault: the header was made for the provider the device started with.    *)
HeaderProxyStale ==
    /\ pc = "header" /\ via = "proxy"
    /\ formats' = [formats EXCEPT !.header = Build.provider]
    /\ Holding({}, {}, "write")
    /\ UNCHANGED dialled

HeaderProxy ==
    /\ pc = "header" /\ via = "proxy"
    /\ formats' = [formats EXCEPT !.header = Provider]
    /\ Holding({}, {}, "write")
    /\ UNCHANGED dialled

(* While the other end takes no data proxy_conn_write tries again.         *)
WriteRequest ==
    /\ pc = "write"
    /\ Holding({}, {}, "exchange") \/ Holding({}, Connection, "failed")
    /\ UNCHANGED <<formats, dialled>>

(* Fault: a piece that does not fit is skipped. *)
PieceProxySkipping ==
    /\ pc = "exchange" /\ via = "proxy" /\ arrived < Chunks
    /\ arrived' = arrived + 1 /\ UNCHANGED pc
    /\ kept' \in {kept, kept \cup {arrived'}}
    /\ UNCHANGED <<settingsVars, turnVars, request, formats, via, dialled, held, taken, quiet>>

(* The reading ends with the first piece that does not fit. *)
PieceProxy ==
    /\ pc = "exchange" /\ via = "proxy" /\ arrived < Chunks
    /\ arrived' = arrived + 1
    /\ \/ kept' = kept \cup {arrived'} /\ UNCHANGED pc
       \/ UNCHANGED kept /\ pc' = "close"
    /\ UNCHANGED <<settingsVars, turnVars, request, formats, via, dialled, held, taken, quiet>>

(* Fault: an error of the connection is taken for no data yet. *)
EndProxyRetrying == pc = "exchange" /\ via = "proxy" /\ UNCHANGED vars

(* The end of the response, of the connection or of two minutes.           *)
EndProxy ==
    /\ pc = "exchange" /\ via = "proxy"
    /\ Holding({}, {}, "close")
    /\ UNCHANGED <<formats, dialled>>

(* No status line is status 0. *)
CloseProxy ==
    /\ pc = "close"
    /\ Holding({}, Connection, IF 1 \in kept THEN "parse" ELSE "failed")
    /\ UNCHANGED <<formats, dialled>>

----------------------------------------------------------------------------
(* The response *)

Whole == kept = 1..Chunks
Holed == ~Whole /\ Chunks \in kept    \* its end is there, a piece before is not

(* A parser finds nothing in the other provider's response, nor in one     *)
(* that the proxy's path took with the marks of its transfer encoding.     *)
Parsed(format) ==
    LET Responses(texts, counts, uses) ==
            [text : texts, calls : counts, tool_use : uses, from : {formats.address},
             parsed : {format}, whole : {Whole}, via : {via}]
    IN Responses({FALSE}, {0}, {FALSE})
       \cup (IF format # formats.address THEN {}
             ELSE {r \in Responses(BOOLEAN, 0..MaxCalls, BOOLEAN) :
                       format = "openai" /\ r.calls > 0 => r.tool_use})

(* The status is not 200, or the response is no JSON. *)
NoParse ==
    /\ pc = "parse" /\ Holding({}, {}, "failed")
    /\ UNCHANGED <<formats, dialled>>

(* The ids of the n calls of a response, new in each round. *)
CallIds(n) == [i \in 1..n |-> iteration * MaxCalls + i]

(* build_assistant_content and build_tool_results. *)
ToolRound(r) ==
    messages' = messages \o <<Assistant(r.text, CallIds(r.calls)), Results(CallIds(r.calls))>>

(* A JSON text with a hole may still be one; one that is cut is not.       *)
TakeResponse ==
    /\ pc = "parse" /\ (Whole \/ Holed)
    /\ formats' = [formats EXCEPT !.parser = Provider]
    /\ held' = held \ {"post_data", "rb"}
    /\ taken' \in Parsed(Provider)
    /\ IF taken'.tool_use
       THEN /\ ToolRound(taken') /\ iteration' = iteration + 1
            /\ pc' = "start" /\ UNCHANGED turns
       ELSE EndTurn
    /\ UNCHANGED <<settingsVars, request, via, dialled, arrived, kept, quiet>>

----------------------------------------------------------------------------
Console == /\ Command \/ Write
           /\ quiet' = (quiet /\ ram' = ram)
           /\ UNCHANGED <<pc, turnVars, callVars, taken>>

Restart == /\ LoadSettings
           /\ pc' = "idle" /\ messages' = <<>> /\ iteration' = 0 /\ UNCHANGED turns
           /\ request' = <<>> /\ formats' = NoFormats /\ via' = "direct" /\ dialled' = Unread
           /\ held' = {} /\ arrived' = 0 /\ kept' = {}
           /\ taken' = NoResponse /\ quiet' = TRUE

Turn  == Refuse \/ BuildRequest \/ Choose \/ Fail \/ NoParse \/ TakeResponse
Direct == OpenDirect \/ HeaderDirect \/ PieceDirect \/ EndDirect
Proxy  == \/ Resolve \/ Socket \/ Connect \/ Tunnel \/ Wrap \/ Handshake \/ HeaderProxy
          \/ PieceProxy \/ EndProxy \/ CloseProxy

Next == Begin \/ Turn \/ Direct \/ Proxy \/ WriteRequest \/ Console \/ Restart

Spec == Init /\ [][Next]_vars

(* The agent's task runs; everything it waits for has a time limit, except *)
(* for WriteRequest, which the other end can put off for ever.             *)
FairSpec == Spec /\ WF_vars(Turn \/ Direct \/ Proxy)

----------------------------------------------------------------------------
(* Properties *)

(* Every variable has its type. *)
TypeOK ==
    /\ SettingsTypeOK
    /\ pc \in {"idle", "start", "choose", "open", "header", "exchange", "socket", "connect",
               "tunnel", "wrap", "handshake", "write", "close", "parse", "failed"}
    /\ turns \in 0..MaxTurns /\ iteration \in 0..MaxIter
    /\ messages \in Seq([role : {"user", "assistant"}, text : BOOLEAN,
                         calls : Seq(Nat), results : Seq(Nat)])
    /\ Len(messages) <= 2 * MaxIter + 1
    /\ DOMAIN formats = DOMAIN NoFormats /\ via \in {"direct", "proxy"}
    /\ held \subseteq {"post_data", "rb", "client", "res"} \cup Connection
    /\ arrived \in 0..Chunks /\ kept \subseteq 1..arrived
    /\ quiet \in BOOLEAN

(* A call gives back every buffer, address and socket it took, on each of  *)
(* the ways in which it can end.                                           *)
NothingLeftOpen == pc \in {"idle", "start"} => held = {}

(* If no setting changed during a call, its body, address, header and      *)
(* parser are for one provider, and it dials the proxy that is set.        *)
QuietCallsAreConsistent ==
    quiet /\ pc # "idle" =>
        /\ \A f \in DOMAIN formats : formats[f] \in {None, formats.body}
        /\ dialled # Unread => dialled.host = ram.host /\ dialled.port = ram.port

(* Whatever the console does meanwhile, text or tool calls are only taken  *)
(* from a response read in the format of the provider that was asked; and  *)
(* what is missing from it was lost for want of memory on the direct way.  *)
NothingTakenFromBrokenCalls ==
    taken.text \/ taken.calls > 0 =>
        taken.parsed = taken.from /\ (taken.whole \/ taken.via = "direct")

(* Every request answers each of its tool calls, once and in order, before *)
(* it says anything else, in the format it is sent in, although the format *)
(* may change from one round to the next.                                  *)
RequestsPairCalls ==
    IF formats.body = "openai" THEN OpenAiPaired(request) ELSE AnthropicPaired(request)

(* Calls and turns end, except for one whose request is never taken by the *)
(* other end of a tunnel.  (A response comes in at most Chunks pieces: one *)
(* that trickles on until the memory is full is not looked at.)            *)
CallsEnd == []<>(pc = "idle") \/ <>[](pc = "write")
=============================================================================

------------------------------ MODULE MimiFiles -----------------------------
(***************************************************************************)
(* MimiClaw's files in use: the turns of the agent (agent/agent_loop.c)    *)
(* read the session, may write the memory, and append the question and the *)
(* answer, while the console clears the session and writes the memory, the *)
(* flash may be full, and the device may be reset at any step.             *)
(***************************************************************************)
EXTENDS SessionFile, MemoryFile, FiniteSets

CONSTANTS MaxTurns, MaxCommands,  \* bounds: turns, console commands,
          MaxResets, MaxShorts,   \* resets, lines of the session cut short,
          ToolTurns               \* the turns in which the model may write the memory

ASSUME FilesAssumption == {MaxTurns, MaxCommands, MaxResets, MaxShorts} \subseteq Nat

VARIABLES pc, turn,      \* where the agent is, and in which turn
          conversation,  \* what it goes to the model with, before the question
          commands, resets, shorts,
          opened,   \* history: the lines of the session when the agent opened it
          cleared,  \* history: the session was cleared during the turn
          said      \* history: the messages appended since the session was cleared

agentVars == <<pc, turn, conversation>>
vars == <<fileVars, memoryVars, agentVars, commands, resets, shorts, opened, cleared, said>>

Init == /\ SessionFileInit /\ MemoryInit
        /\ pc = "idle" /\ turn = 0 /\ conversation = <<>> /\ commands = 0
        /\ resets = 0 /\ shorts = 0 /\ opened = <<>> /\ cleared = FALSE /\ said = {}

----------------------------------------------------------------------------
(* The agent: agent_loop_task *)

Begin ==
    /\ pc = "idle" /\ turn < MaxTurns /\ turn' = turn + 1 /\ pc' = "history"
    /\ OpenRead /\ opened' = lines /\ cleared' = FALSE
    /\ UNCHANGED <<memoryVars, conversation, commands, resets, shorts, said>>

Read == /\ pc = "history" /\ ReadLine
        /\ UNCHANGED <<memoryVars, agentVars, commands, resets, shorts, opened, cleared, said>>

(* A history that does not fit its buffer is cut, and then no JSON.        *)
Prompt == /\ pc = "history" /\ EndRead /\ pc' = "think"
          /\ conversation' \in {History, <<>>}
          /\ UNCHANGED <<memoryVars, turn, commands, resets, shorts, opened, cleared, said>>

(* write_file, or edit_file. *)
Tool == /\ pc = "think" /\ turn \in ToolTurns /\ pc' = "tool"
        /\ StartWrite("agent", {turn}) \/ StartEdit("agent", turn)
        /\ UNCHANGED <<fileVars, turn, conversation, commands, resets, shorts, opened, cleared, said>>

(* The call failed, or it has an answer. *)
Decide == /\ pc \in {"think", "tool"} /\ writer["agent"].pc = "none"
          /\ pc' \in {"question", "idle"}
          /\ conversation' = <<>> /\ opened' = <<>>
          /\ UNCHANGED <<fileVars, memoryVars, turn, commands, resets, shorts, cleared, said>>

AfterAppend == pc' = IF pc = "question" THEN "answer" ELSE "idle"

(* Bound: a question fits its line. *)
Saids == IF pc = "answer" THEN [turn : {turn}, role : {"assistant"}, form : Forms]
         ELSE {[turn |-> turn, role |-> "user", form |-> "short"]}

StartAppend == /\ pc \in {"question", "answer"} /\ OpenAppend
               /\ UNCHANGED <<memoryVars, agentVars, commands, resets, shorts, opened, cleared, said>>

(* The result of session_append is not looked at. *)
AppendFails ==
    /\ pc \in {"question", "answer"} /\ handle = "none" /\ AfterAppend
    /\ UNCHANGED <<fileVars, memoryVars, turn, conversation, commands, resets, shorts, opened,
                   cleared, said>>

EndAppend ==
    /\ pc \in {"question", "answer"} /\ AfterAppend
    /\ \E m \in Saids : /\ PrintLine(m)
                       /\ said' = IF handle = "append" THEN said \cup {m} ELSE said
    /\ UNCHANGED <<memoryVars, turn, conversation, commands, resets, shorts, opened, cleared>>

AppendShort ==
    /\ pc \in {"question", "answer"} /\ AfterAppend
    /\ shorts < MaxShorts /\ shorts' = shorts + 1
    /\ \E m \in Saids : PrintShort(m) /\ said' = said \cup {m}
    /\ UNCHANGED <<memoryVars, turn, conversation, commands, resets, opened, cleared>>

----------------------------------------------------------------------------
(* The console, and a reset *)

SessionClear ==
    /\ commands < MaxCommands /\ commands' = commands + 1
    /\ Clear /\ cleared' = TRUE /\ said' = {}
    /\ UNCHANGED <<memoryVars, agentVars, resets, shorts, opened>>

MemoryWrite ==
    /\ commands < MaxCommands /\ commands' = commands + 1
    /\ StartWrite("console", {0})
    /\ UNCHANGED <<fileVars, agentVars, resets, shorts, opened, cleared, said>>

Write == /\ \E w \in Writers : Truncate(w) \/ WriteOut(w)
         /\ UNCHANGED <<fileVars, agentVars, commands, resets, shorts, opened, cleared, said>>

Reset ==
    /\ resets < MaxResets /\ resets' = resets + 1
    /\ \E m \in Saids : Interrupted(m)
    /\ MemoryReset
    /\ pc' = "idle" /\ conversation' = <<>> /\ opened' = <<>>
    /\ UNCHANGED <<turn, commands, shorts, cleared, said>>

Agent == \/ Begin \/ Read \/ Prompt \/ Tool \/ Decide
         \/ StartAppend \/ AppendFails \/ EndAppend \/ AppendShort

Next == Agent \/ SessionClear \/ MemoryWrite \/ Write \/ Reset

Spec == Init /\ [][Next]_vars

----------------------------------------------------------------------------
(* Properties *)

TypeOK ==
    /\ SessionFileTypeOK /\ MemoryTypeOK(0..MaxTurns)
    /\ pc \in {"idle", "history", "think", "tool", "question", "answer"}
    /\ turn \in 0..MaxTurns /\ conversation \in Seq(Message \cup {NoRole})
    /\ said \subseteq Message /\ cleared \in BOOLEAN

Latest(s) == SubSeq(s, IF Len(s) > MaxMsgs THEN Len(s) - MaxMsgs + 1 ELSE 1, Len(s))

(* The agent goes to the model with the latest messages that can be read   *)
(* from the session as it opened it; a clear while it was reading leaves   *)
(* it with the latest of the lines it had read, never with a hole.         *)
HistoryIsTheLatest ==
    pc = "think" /\ conversation # <<>> =>
        \E n \in (IF cleared THEN 0 ELSE Len(opened))..Len(opened) :
            conversation = Latest(Readable(SubSeq(opened, 1, n)))

(* A reset, or an error of fprintf, spoils the line it cuts and at most    *)
(* the one that is then appended to it: of the short messages appended     *)
(* since the session was last cleared no more are unreadable than there    *)
(* were resets (whose own message is not counted) and twice the errors.    *)
CutsLoseFew ==
    Cardinality({m \in said : m.form = "short" /\ m \notin ToSet(Readable(lines))})
        <= resets + 2 * shorts

(* session_mgr.h promises a history "suitable for LLM messages": each of   *)
(* its entries is a message.                                               *)
HistoryIsMessages == NoRole \notin ToSet(conversation)
=============================================================================

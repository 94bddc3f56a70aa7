---------------------------- MODULE SessionFile -----------------------------
(***************************************************************************)
(* MimiClaw's session file (memory/session_mgr.c): a line of JSON for each *)
(* message, appended, read back into a ring of the latest, and removed by  *)
(* the console under the eyes of the agent.  A line is what fgets and the  *)
(* JSON parser make of it.                                                 *)
(***************************************************************************)
EXTENDS Naturals, Sequences, SequencesExt

CONSTANT MaxMsgs   \* MIMI_SESSION_MAX_MSGS and MIMI_AGENT_MAX_HISTORY: 20

ASSUME SessionFileAssumption == MaxMsgs \in Nat \ {0}

(* The forms of a message: its line fits the 2048 bytes that fgets reads;  *)
(* it does not; it does not, and where it is cut its text goes on with a   *)
(* number.                                                                 *)
Forms   == {"short", "long", "number"}
Message == [turn : Nat \ {0}, role : {"user", "assistant"}, form : Forms]

(* The entry {} without role and content: a number is JSON.                *)
NoRole == [turn |-> 0, role |-> "", form |-> "number"]

VARIABLES lines,   \* the file: in each line the messages printed without a newline between
          ended,   \* the last line ends with a newline
          handle,  \* the agent's open file: "none", "append", "read", or "removed" since
          ring,    \* messages[], count and write_idx of session_get_history_json
          at       \* the next line to read

fileVars == <<lines, ended, handle, ring, at>>

EmptyRing == [messages |-> [i \in 0..(MaxMsgs - 1) |-> NoRole], count |-> 0, write_idx |-> 0]

SessionFileInit == /\ lines = <<>> /\ ended = TRUE /\ handle = "none"
                   /\ ring = EmptyRing /\ at = 1

----------------------------------------------------------------------------
(* session_append *)

Whole(m) == [msg |-> m, whole |-> TRUE]
Part(m)  == [msg |-> m, whole |-> FALSE]

WithPiece(p) == IF ended THEN Append(lines, <<p>>)
                ELSE [lines EXCEPT ![Len(lines)] = Append(@, p)]

OpenAppend == handle = "none" /\ handle' = "append" /\ UNCHANGED <<lines, ended, ring, at>>

(* Fault: no newline after a message. *)
PrintUnended(m) ==
    /\ handle \in {"append", "removed"} /\ handle' = "none"
    /\ IF handle = "removed" THEN UNCHANGED <<lines, ended>>
                             ELSE lines' = WithPiece(Whole(m)) /\ ended' = FALSE
    /\ UNCHANGED <<ring, at>>

(* What is written to a removed file is lost. *)
PrintLine(m) ==
    /\ handle \in {"append", "removed"} /\ handle' = "none"
    /\ IF handle = "removed" THEN UNCHANGED <<lines, ended>>
                             ELSE lines' = WithPiece(Whole(m)) /\ ended' = TRUE
    /\ UNCHANGED <<ring, at>>

(* What is left of m when its printing is cut: nothing, a part of it, or   *)
(* the whole without its newline.                                          *)
CutLine(m) ==
    \/ UNCHANGED <<lines, ended>>
    \/ /\ \E p \in {Part([m EXCEPT !.form = "short"]), Part(m), Whole(m)} : lines' = WithPiece(p)
       /\ ended' = FALSE

(* The flash is full, or there is no memory for the line; nobody looks at  *)
(* what fprintf returns.                                                   *)
PrintShort(m) == /\ handle = "append" /\ handle' = "none"
                 /\ CutLine(m) /\ UNCHANGED <<ring, at>>

(* A reset while m is appended. *)
Interrupted(m) ==
    /\ handle' = "none" /\ ring' = EmptyRing /\ at' = 1
    /\ IF handle = "append" THEN CutLine(m) ELSE UNCHANGED <<lines, ended>>

----------------------------------------------------------------------------
(* session_get_history_json *)

(* The parser reads the first message of a line, if it is whole and short, *)
(* and nothing after it; fgets returns what is beyond its buffer as a line *)
(* of its own.                                                             *)
Entries(line) ==
    (IF line[1].whole /\ line[1].msg.form = "short" THEN <<line[1].msg>> ELSE <<>>)
    \o (IF \E i \in 1..Len(line) : line[i].msg.form = "number" THEN <<NoRole>> ELSE <<>>)

Readable(ls) == FlattenSeq([i \in 1..Len(ls) |-> Entries(ls[i])])

Put(r, e) == [messages  |-> [r.messages EXCEPT ![r.write_idx] = e],
              count     |-> IF r.count < MaxMsgs THEN r.count + 1 ELSE r.count,
              write_idx |-> (r.write_idx + 1) % MaxMsgs]

OpenRead == /\ handle = "none" /\ handle' = "read" /\ ring' = EmptyRing /\ at' = 1
            /\ UNCHANGED <<lines, ended>>

ReadLine == /\ handle = "read" /\ at <= Len(lines) /\ at' = at + 1
            /\ ring' = FoldLeft(Put, ring, Entries(lines[at]))
            /\ UNCHANGED <<lines, ended, handle>>

EndRead == /\ \/ handle = "read" /\ at > Len(lines)
              \/ handle = "removed"
           /\ handle' = "none" /\ ring' = EmptyRing /\ at' = 1 /\ UNCHANGED <<lines, ended>>

(* Fault: the array is made from the start of the ring. *)
HistoryUnturned == [i \in 1..ring.count |-> ring.messages[i - 1]]

(* The JSON array of what the ring holds, oldest first. *)
History ==
    LET start == IF ring.count < MaxMsgs THEN 0 ELSE ring.write_idx
    IN [i \in 1..ring.count |-> ring.messages[(start + i - 1) % MaxMsgs]]

----------------------------------------------------------------------------
(* session_clear *)

Clear == /\ lines' = <<>> /\ ended' = TRUE
         /\ handle' = IF handle = "none" THEN "none" ELSE "removed"
         /\ UNCHANGED <<ring, at>>

----------------------------------------------------------------------------
SessionFileTypeOK ==
    /\ lines \in Seq(Seq([msg : Message, whole : BOOLEAN])) /\ <<>> \notin Range(lines)
    /\ ended \in BOOLEAN /\ handle \in {"none", "append", "read", "removed"}
    /\ ring.messages \in [0..(MaxMsgs - 1) -> Message \cup {NoRole}]
    /\ ring.count \in 0..MaxMsgs /\ ring.write_idx \in 0..(MaxMsgs - 1) /\ at \in Nat
=============================================================================

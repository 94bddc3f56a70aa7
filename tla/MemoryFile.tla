----------------------------- MODULE MemoryFile -----------------------------
(***************************************************************************)
(* The long-term memory, /spiffs/memory/MEMORY.md: written by the model    *)
(* with write_file and edit_file (tools/tool_files.c) and by the console   *)
(* with memory_write (memory/memory_store.c).  Opening it for writing      *)
(* empties it; the content follows.  Nothing locks it.  A content is the   *)
(* set of the facts it tells.                                              *)
(***************************************************************************)
EXTENDS Naturals

Writers == {"agent", "console"}

VARIABLES memory,    \* the file
          writer,    \* writer[w]: what w is at, the content it is going to write, as an edit
          intended,  \* history: what the writes so far, one after the other, would give
          spoiled,   \* history: one was cut short, and no whole content was written since
          tangled    \* history: two writers overlapped

memoryVars == <<memory, writer, intended, spoiled, tangled>>

Resting == [pc |-> "none", content |-> {}, edit |-> FALSE]

MemoryInit == /\ memory = {} /\ intended = {} /\ spoiled = FALSE /\ tangled = FALSE
              /\ writer = [w \in Writers |-> Resting]

Alone(w) == \A v \in Writers \ {w} : writer[v].pc = "none"

Starts(w, content, edit) ==
    /\ writer[w].pc = "none"
    /\ writer' = [writer EXCEPT ![w] = [pc |-> "open", content |-> content, edit |-> edit]]
    /\ tangled' = (tangled \/ ~Alone(w))
    /\ UNCHANGED <<memory, intended, spoiled>>

----------------------------------------------------------------------------
(* memory_write_long_term and tool_write_file_execute *)

StartWrite(w, content) == Starts(w, content, FALSE)

(* fopen for writing, which empties the file or fails. *)
Truncate(w) ==
    /\ writer[w].pc = "open"
    /\ \/ writer' = [writer EXCEPT ![w].pc = "write"] /\ memory' = {}
       \/ writer' = [writer EXCEPT ![w] = Resting] /\ UNCHANGED memory
    /\ UNCHANGED <<intended, spoiled, tangled>>

Intended(w) == writer[w].content \cup IF writer[w].edit THEN intended ELSE {}

(* fwrite and fclose: the whole content, or a part where the flash is full *)
(* (the model is told of it by write_file only).  Another's content that   *)
(* is there may show behind it.                                            *)
WriteOut(w) ==
    /\ writer[w].pc = "write" /\ writer' = [writer EXCEPT ![w] = Resting]
    /\ \E part \in SUBSET writer[w].content :
           /\ memory' \in {part, part \cup memory}
           /\ spoiled' = (part # writer[w].content \/ (spoiled /\ writer[w].edit))
    /\ intended' = Intended(w) /\ UNCHANGED tangled

----------------------------------------------------------------------------
(* tool_edit_file_execute: one of the facts gets another beside it.        *)

(* Fault: the file is opened for reading and writing, and emptied.         *)
StartEditEmptying(w, fact) == memory # {} /\ Starts(w, {fact}, TRUE)

(* It reads the file, which must hold what is to be replaced, and opens it *)
(* again to write it as a whole.                                           *)
StartEdit(w, fact) == memory # {} /\ Starts(w, memory \cup {fact}, TRUE)

----------------------------------------------------------------------------
(* A reset leaves a file that is open for writing with a part of what was  *)
(* written to it, and any other as it is.                                  *)
MemoryReset ==
    LET cut == {w \in Writers : writer[w].pc = "write"} IN
    /\ writer' = [w \in Writers |-> Resting]
    /\ IF cut = {} THEN UNCHANGED <<memory, intended, spoiled>>
       ELSE /\ memory' \in {memory} \cup UNION {SUBSET writer[w].content : w \in cut}
            /\ intended' = UNION {Intended(w) : w \in cut} /\ spoiled' = TRUE
    /\ UNCHANGED tangled

----------------------------------------------------------------------------
MemoryTypeOK(Facts) ==
    /\ memory \subseteq Facts /\ intended \subseteq Facts
    /\ spoiled \in BOOLEAN /\ tangled \in BOOLEAN
    /\ writer \in [Writers -> [pc : {"none", "open", "write"}, content : SUBSET Facts,
                               edit : BOOLEAN]]

(* As long as no two writers overlap, the file holds what its writes and   *)
(* edits, one after the other, give, also if a reset or an error comes     *)
(* before the file is opened for writing.  Where one was cut after that,   *)
(* by a reset or a full flash, a part is left, with nothing from elsewhere *)
(* in it, and the next whole content makes up for it.                      *)
MemoryAsWritten ==
    ~tangled /\ Alone("none") =>
        memory \subseteq intended /\ (~spoiled => memory = intended)
=============================================================================

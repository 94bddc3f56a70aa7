---------------------------- MODULE AtomSession ----------------------------
(***************************************************************************)
(* The in-RAM session store of memory/atom_session.c: a fixed table of     *)
(* slots, one per user, each a ring of the last MaxMsgs messages.  Every   *)
(* operation holds the mutex from its first read to its last write, so     *)
(* each is one step; the caller decides what happens between two of them.  *)
(* A user is the 31 characters of the id that find_or_alloc compares.      *)
(***************************************************************************)
EXTENDS Naturals, Sequences, FiniteSets

CONSTANTS Users,     \* user ids
          Texts,     \* what is said
          MaxUsers,  \* ATOM_SESSION_MAX_USERS: 8
          MaxMsgs,   \* ATOM_SESSION_MAX_MSGS: 6
          Blank      \* zeroed memory, in place of a user id or a message

(* atom_msg_t; `of` is the user in whose conversation it was said.         *)
Messages == [role : {"user", "assistant"}, of : Users, text : Texts]

ASSUME SessionAssumption == /\ MaxUsers \in Nat \ {0} /\ MaxMsgs \in Nat \ {0}
                            /\ Blank \notin Users \cup Messages

VARIABLE sessions  \* s_sessions

Slots == 1..MaxUsers
Ring  == 0..(MaxMsgs - 1)

Slot == [user_id : Users \cup {Blank}, msgs : [Ring -> Messages \cup {Blank}],
         head : Ring, count : 0..MaxMsgs, in_use : BOOLEAN]

EmptySlot(owner, used) ==
    [user_id |-> owner, msgs |-> [i \in Ring |-> Blank], head |-> 0, count |-> 0, in_use |-> used]

(* calloc and memset(0). *)
Zeroed == EmptySlot(Blank, FALSE)

SessionInit == sessions = [i \in Slots |-> Zeroed]

----------------------------------------------------------------------------
First(S) == CHOOSE i \in S : \A j \in S : i <= j

(* Fault: strncmp taken for true when the ids are equal. *)
MineMistaken(u) == {i \in Slots : sessions[i].in_use /\ sessions[i].user_id # u}

(* The slots the search for a user stops at; the first of them is taken.   *)
Mine(u) == {i \in Slots : sessions[i].in_use /\ sessions[i].user_id = u}
Free    == {i \in Slots : ~sessions[i].in_use}

(* There is a slot for the user. *)
HasSlot(u) == Mine(u) \cup Free # {}

(* Fault: the first free slot ends the search. *)
FindOrAllocEager(u) ==
    IF Free # {} /\ (Mine(u) = {} \/ First(Free) < First(Mine(u)))
    THEN [at |-> First(Free), slot |-> EmptySlot(u, TRUE)]
    ELSE [at |-> First(Mine(u)), slot |-> sessions[First(Mine(u))]]

(* The slot an append writes to, as it is before the write: the user's own *)
(* or else the first free one, zeroed and claimed.                         *)
FindOrAlloc(u) ==
    IF Mine(u) # {} THEN [at |-> First(Mine(u)), slot |-> sessions[First(Mine(u))]]
    ELSE [at |-> First(Free), slot |-> EmptySlot(u, TRUE)]

Updated(s, m, head, count) ==
    [user_id |-> s.user_id, msgs |-> [s.msgs EXCEPT ![s.head] = m],
     head |-> head, count |-> count, in_use |-> s.in_use]

(* Faults: count is not capped; head does not move when the ring is full. *)
WrittenUncapped(s, m) == Updated(s, m, (s.head + 1) % MaxMsgs, s.count + 1)
WrittenStuck(s, m) ==
    IF s.count < MaxMsgs THEN Updated(s, m, (s.head + 1) % MaxMsgs, s.count + 1)
    ELSE Updated(s, m, s.head, s.count)

(* The message goes in at head, over the oldest when the ring is full. *)
Written(s, m) ==
    Updated(s, m, (s.head + 1) % MaxMsgs,
            IF s.count < MaxMsgs THEN s.count + 1 ELSE s.count)

(* atom_session_append, and its ESP_ERR_NO_MEM, which no caller looks at. *)
SessionAppend(u, m) ==
    /\ HasSlot(u)
    /\ LET found == FindOrAlloc(u)
       IN  sessions' = [sessions EXCEPT ![found.at] = Written(found.slot, m)]

SessionAppendFails(u) == ~HasSlot(u) /\ UNCHANGED sessions

(* The n newest entries of a ring, oldest first. *)
Newest(s, n) ==
    LET start == (s.head + MaxMsgs - n) % MaxMsgs
    IN  [i \in 1..n |-> s.msgs[(start + i - 1) % MaxMsgs]]

(* atom_session_get_history_json; a limit of 0 is no limit. *)
HistoryOf(u, max_msgs) ==
    IF Mine(u) = {} THEN <<>>
    ELSE LET s == sessions[First(Mine(u))]
         IN  Newest(s, IF max_msgs > 0 /\ max_msgs < s.count THEN max_msgs ELSE s.count)

(* atom_session_clear, which reports success for an unknown user as well. *)
SessionClear(u) ==
    sessions' = IF Mine(u) = {} THEN sessions
                ELSE [sessions EXCEPT ![First(Mine(u))] = Zeroed]

----------------------------------------------------------------------------
SessionTypeOK == sessions \in [Slots -> Slot]

(* No user ever has two slots, so no part of a conversation is lost from   *)
(* sight: what is written for a user is what is read for that user.        *)
OneSlotEach ==
    \A i, j \in Slots :
        (sessions[i].in_use /\ sessions[j].in_use /\ sessions[i].user_id = sessions[j].user_id)
            => i = j

Store == INSTANCE BoundedHistory WITH
            known   <- {u \in Users : Mine(u) # {}},
            history <- [u \in Users |-> HistoryOf(u, 0)]

(* The table of rings keeps exactly the last MaxMsgs messages of each      *)
(* known user, in order, across wrap-around, clears and reused slots, and  *)
(* never gives one user's place to another.                                *)
KeepsLastMessages == Store!Spec
=============================================================================

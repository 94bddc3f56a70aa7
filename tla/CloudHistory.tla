---------------------------- MODULE CloudHistory ----------------------------
(***************************************************************************)
(* One user's conversation in the cloud: the agent's calls of              *)
(* cloudflare/cf_history.c and the worker (cloudflare-worker/worker.js)    *)
(* that serves them from a key-value store.  A turn fetches the summary,   *)
(* starts one task for each of its two messages to be saved, and sends a   *)
(* new summary when the worker asked for one.  The worker serves requests  *)
(* concurrently, and reads the user's record and writes it back in two     *)
(* steps.  Requests and replies may be lost; nothing is sent twice.        *)
(***************************************************************************)
EXTENDS Naturals, Sequences, FiniteSets

CONSTANTS MaxTurns,    \* bound: turns played
          Every,       \* SUMMARIZE_EVERY: 20
          MaxHistory,  \* MAX_HISTORY: 100
          Unread       \* the record of a request that has not read it yet

VARIABLES kv,        \* the stored record of the user
          requests,  \* what the worker is serving or about to
          starting,  \* the messages of save tasks that have not posted yet
          pc,        \* where the agent is in its turn
          turn,      \* which turn that is
          needs,     \* cf_res.needs_summarize
          saved,     \* history: the messages written since the record began, in order
          clean      \* history: no record was written that had changed since it was read

device == <<starting, pc, turn, needs>>
store  == <<kv, saved, clean>>
vars   == <<requests, device, store>>

Turns    == 1..MaxTurns
Items    == [turn : Turns, role : {"user", "assistant"}]
Records  == [summary : 0..MaxTurns,   \* the turn that made the summary; 0 is none
             history : Seq(Items), history_count : Nat,
             summarized : BOOLEAN]    \* last_summarized_at is set

ASSUME CloudAssumption ==
    /\ MaxTurns \in Nat \ {0} /\ Every \in Nat \ {0} /\ MaxHistory \in Nat \ {0}
    /\ Unread \notin Records

NoRecord == [summary |-> 0, history |-> <<>>, history_count |-> 0, summarized |-> FALSE]

Save(item)  == [kind |-> "save", item |-> item, data |-> Unread]
Update(t)   == [kind |-> "update", turn |-> t, data |-> Unread]
Summary(t)  == [kind |-> "summary", turn |-> t, data |-> Unread]

(* A request goes out, or is lost on its way. *)
Send(r) == requests' \in {requests, requests \cup {r}}

Init == /\ kv = NoRecord /\ requests = {} /\ starting = {}
        /\ pc = "idle" /\ turn = 0 /\ needs = FALSE
        /\ saved = <<>> /\ clean = TRUE

----------------------------------------------------------------------------
(* The device *)

(* cf_get_summary asks and waits. *)
FetchSummary ==
    /\ pc = "idle" /\ turn < MaxTurns
    /\ turn' = turn + 1 /\ needs' = FALSE /\ pc' = "summary"
    /\ Send(Summary(turn + 1))
    /\ UNCHANGED <<starting, store>>


(* No answer in ATOM_CF_TIMEOUT_MS, or not 200: the turn goes on without.  *)
SummaryFails ==
    /\ pc = "summary"
    /\ pc' = "answer"
    /\ UNCHANGED <<requests, starting, turn, needs, store>>

(* The answer is out; cf_save_async for both messages.  A task that cannot *)
(* be created is not.                                                      *)
StartSaves ==
    /\ pc = "answer"
    /\ \E made \in SUBSET {"user", "assistant"} :
           starting' = starting \cup {[turn |-> turn, role |-> r] : r \in made}
    /\ pc' = IF needs THEN "summarize" ELSE "idle"
    /\ UNCHANGED <<requests, turn, needs, store>>

(* Fault: a save that is not answered in time is sent again. *)
PostSaveRetrying(item) ==
    /\ item \in starting
    /\ starting' \in {starting, starting \ {item}}
    /\ Send(Save(item))
    /\ UNCHANGED <<pc, turn, needs, store>>

(* save_task posts once and ends, whatever comes back.                     *)
PostSave(item) ==
    /\ item \in starting
    /\ starting' = starting \ {item}
    /\ Send(Save(item))
    /\ UNCHANGED <<pc, turn, needs, store>>

(* The device's own model makes the summary, or fails to.                  *)
SendSummary ==
    /\ pc = "summarize"
    /\ \/ pc' = "update" /\ Send(Update(turn))
       \/ pc' = "idle" /\ UNCHANGED requests
    /\ UNCHANGED <<starting, turn, needs, store>>

UpdateFails ==
    /\ pc = "update"
    /\ pc' = "idle"
    /\ UNCHANGED <<requests, starting, turn, needs, store>>

----------------------------------------------------------------------------
(* The worker *)

NeedsSummarize(data) == /\ data.history_count > 0 /\ data.history_count % Every = 0
                        /\ ~data.summarized

(* handleSummary.  The answer matters only if it arrives while the agent   *)
(* waits for it.                                                           *)
ServeSummary(r) ==
    /\ r.kind = "summary"
    /\ requests' = requests \ {r}
    /\ \/ /\ pc = "summary" /\ turn = r.turn
          /\ pc' = "answer" /\ needs' = NeedsSummarize(kv)
       \/ UNCHANGED <<pc, needs>>
    /\ UNCHANGED <<starting, turn, store>>

(* getUserData of the two handlers that write. *)
ReadRecord(r) ==
    /\ r.kind \in {"save", "update"} /\ r.data = Unread
    /\ requests' = (requests \ {r}) \cup {[r EXCEPT !.data = kv]}
    /\ UNCHANGED <<device, store>>

(* Fault: the history is not cut. *)
LatestUncut(history) == history

Latest(history) ==
    IF Len(history) > MaxHistory
    THEN SubSeq(history, Len(history) - MaxHistory + 1, Len(history)) ELSE history

(* Faults: the history is cut before the message is added; the oldest are  *)
(* kept.                                                                   *)
SavedCutFirst(data, item) ==
    [summary |-> data.summary, history |-> Append(Latest(data.history), item),
     history_count |-> data.history_count + 1,
     summarized |-> data.summarized /\ Len(data.history) < MaxHistory]
SavedOldest(data, item) ==
    [summary |-> data.summary,
     history |-> IF Len(data.history) < MaxHistory THEN Append(data.history, item) ELSE data.history,
     history_count |-> data.history_count + 1,
     summarized |-> data.summarized /\ Len(data.history) < MaxHistory]

(* handleSave: the new message, the count, and the cut that makes the user *)
(* due for a summary again.                                                *)
Saved(data, item) ==
    [summary |-> data.summary, history |-> Latest(Append(data.history, item)),
     history_count |-> data.history_count + 1,
     summarized |-> data.summarized /\ Len(data.history) < MaxHistory]

WriteSave(r) ==
    /\ r.kind = "save" /\ r.data # Unread
    /\ kv' = Saved(r.data, r.item)
    /\ saved' = Append(saved, r.item) /\ clean' = (clean /\ kv = r.data)
    /\ requests' = requests \ {r}
    /\ UNCHANGED device

(* Fault: the summary counts as a message. *)
SummarizedCounted(data, t) ==
    [summary |-> t, history |-> data.history,
     history_count |-> data.history_count + 1, summarized |-> TRUE]

Summarized(data, t) ==
    [summary |-> t, history |-> data.history,
     history_count |-> data.history_count, summarized |-> TRUE]

(* handleUpdateSummary; its reply may be lost or late. *)
WriteSummary(r) ==
    /\ r.kind = "update" /\ r.data # Unread
    /\ kv' = Summarized(r.data, r.turn)
    /\ clean' = (clean /\ kv = r.data)
    /\ requests' = requests \ {r}
    /\ pc' \in {pc, IF pc = "update" /\ turn = r.turn THEN "idle" ELSE pc}
    /\ UNCHANGED <<starting, turn, needs, saved>>

(* Ninety days without a write. *)
Expire ==
    /\ pc = "idle" /\ requests = {} /\ kv # NoRecord
    /\ kv' = NoRecord /\ saved' = <<>> /\ clean' = TRUE
    /\ UNCHANGED <<requests, device>>

----------------------------------------------------------------------------
Device == \/ FetchSummary \/ SummaryFails \/ StartSaves \/ SendSummary \/ UpdateFails
          \/ \E item \in starting : PostSave(item)

Worker == \/ \E r \in requests : \/ ServeSummary(r) \/ ReadRecord(r)
                                 \/ WriteSave(r) \/ WriteSummary(r)
          \/ Expire

Next == Device \/ Worker

Spec == Init /\ [][Next]_vars

(* The agent's waits have a time limit and its model call an end; nothing  *)
(* is assumed of the network or the worker, and nobody has to post.        *)
FairSpec == Spec /\ WF_vars(SummaryFails \/ StartSaves \/ SendSummary \/ UpdateFails)

----------------------------------------------------------------------------
(* Properties *)

Requests == [kind : {"save"}, item : Items, data : Records \cup {Unread}]
            \cup [kind : {"update"}, turn : Turns, data : Records \cup {Unread}]
            \cup [kind : {"summary"}, turn : Turns, data : {Unread}]

(* The records that are stored or about to be the base of a write.         *)
InUse == {kv} \cup ({r.data : r \in requests} \ {Unread})

(* Every variable has its type, and every history its limit. *)
TypeOK ==
    /\ kv \in Records /\ requests \subseteq Requests /\ starting \subseteq Items
    /\ \A data \in InUse : Len(data.history) <= MaxHistory
    /\ pc \in {"idle", "summary", "answer", "summarize", "update"}
    /\ turn \in 0..MaxTurns /\ needs \in BOOLEAN
    /\ saved \in Seq(Items) /\ clean \in BOOLEAN

(* However writes overtake each other, no record has its history and its   *)
(* count out of step: the history is as long as the count says, up to the  *)
(* limit.                                                                  *)
HistoryMatchesCount ==
    \A data \in InUse :
        Len(data.history) = IF data.history_count < MaxHistory THEN data.history_count
                            ELSE MaxHistory

(* No message is in the cloud twice, although the worker may serve a       *)
(* request after the device has given it up.                               *)
SavedAtMostOnce ==
    \A data \in InUse : \A i, j \in 1..Len(data.history) :
        data.history[i] = data.history[j] => i = j

(* The record never counts a message that was not saved. *)
CountNeverAhead == \A data \in InUse : data.history_count <= Len(saved)

(* Only overlapping writes lose messages: as long as there was none, the   *)
(* record holds the latest messages in the order they were written, and    *)
(* counts them all.                                                        *)
ExactUnlessOverlapped ==
    clean => kv.history = Latest(saved) /\ kv.history_count = Len(saved)


(* cf_history.h says history_count is the cumulative number of turns saved *)
(* in the cloud.  The two saves of a turn run side by side, and one may be *)
(* written over the other.                                                 *)
CountIsCumulative == (requests = {}) => kv.history_count = Len(saved)
=============================================================================

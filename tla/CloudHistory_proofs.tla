------------------------ MODULE CloudHistory_proofs ------------------------
(***************************************************************************)
(* Proofs about CloudHistory, for every number of turns, history limit and *)
(* summary interval: what the read-modify-write of the worker can lose and *)
(* what it cannot.                                                         *)
(***************************************************************************)
EXTENDS CloudHistory, SequenceTheorems, TLAPS

----------------------------------------------------------------------------
(* Cutting a history. *)

LEMMA LatestIsTheEnd ==
  ASSUME NEW S, NEW s \in Seq(S)
  PROVE  /\ Latest(s) \in Seq(S)
         /\ Len(Latest(s)) = IF Len(s) > MaxHistory THEN MaxHistory ELSE Len(s)
         /\ \A i \in 1..Len(Latest(s)) :
               /\ Len(s) - Len(Latest(s)) + i \in 1..Len(s)
               /\ Latest(s)[i] = s[Len(s) - Len(Latest(s)) + i]
  <1>1. Len(s) \in Nat /\ MaxHistory \in Nat \ {0}
    BY CloudAssumption
  <1>2. CASE Len(s) > MaxHistory
    <2> DEFINE from == Len(s) - MaxHistory + 1
               cut == SubSeq(s, from, Len(s))
    <2>1. Latest(s) = cut
      BY <1>2 DEF Latest
    <2>2. from \in Int /\ Len(s) \in Int /\ from \in 1..Len(s) /\ Len(s) - from + 1 = MaxHistory
      BY <1>1, <1>2
    <2>3. \A i \in from..Len(s) : s[i] \in S
      BY <1>1, <2>2
    <2> HIDE DEF from
    <2>4. /\ cut \in Seq(S) /\ Len(cut) = Len(s) - from + 1
          /\ \A i \in 1..(Len(s) - from + 1) : cut[i] = s[from + i - 1]
      BY <2>2, <2>3, SubSeqProperties
    <2> HIDE DEF cut
    <2>5. Len(Latest(s)) = MaxHistory /\ Latest(s) \in Seq(S)
      BY <1>1, <2>1, <2>2, <2>4
    <2>6. ASSUME NEW i \in 1..Len(Latest(s))
          PROVE  /\ Len(s) - Len(Latest(s)) + i \in 1..Len(s)
                 /\ Latest(s)[i] = s[Len(s) - Len(Latest(s)) + i]
      <3>1. i \in 1..MaxHistory /\ Len(s) - MaxHistory + i = from + i - 1
        BY <1>1, <2>2, <2>5, <2>6
      <3> QED BY <1>1, <1>2, <2>1, <2>2, <2>4, <2>5, <3>1
    <2> QED BY <1>2, <2>5, <2>6
  <1>3. CASE ~ (Len(s) > MaxHistory)
    BY <1>1, <1>3 DEF Latest
  <1> QED BY <1>2, <1>3

(* Cutting before a message is added and again after it is cutting once.   *)
LEMMA LatestAgain ==
  ASSUME NEW S, NEW s \in Seq(S), NEW x \in S
  PROVE  Latest(Append(Latest(s), x)) = Latest(Append(s, x))
  <1> DEFINE l == Latest(s)
             a == Append(l, x)
             b == Append(s, x)
             u == Latest(a)
             v == Latest(b)
  <1>1. MaxHistory \in Nat \ {0} /\ Len(s) \in Nat
    BY CloudAssumption
  <1>2. /\ l \in Seq(S) /\ Len(l) = IF Len(s) > MaxHistory THEN MaxHistory ELSE Len(s)
        /\ \A i \in 1..Len(l) : l[i] = s[Len(s) - Len(l) + i]
    BY LatestIsTheEnd
  <1> HIDE DEF l
  <1>3. /\ a \in Seq(S) /\ Len(a) = Len(l) + 1
        /\ \A i \in 1..(Len(l) + 1) : a[i] = IF i = Len(l) + 1 THEN x ELSE l[i]
    BY <1>2
  <1>4. /\ b \in Seq(S) /\ Len(b) = Len(s) + 1
        /\ \A i \in 1..(Len(s) + 1) : b[i] = IF i = Len(s) + 1 THEN x ELSE s[i]
    BY <1>1
  <1> HIDE DEF a, b
  <1>5. /\ u \in Seq(S) /\ Len(u) = IF Len(a) > MaxHistory THEN MaxHistory ELSE Len(a)
        /\ \A i \in 1..Len(u) : Len(a) - Len(u) + i \in 1..Len(a) /\ u[i] = a[Len(a) - Len(u) + i]
    BY <1>3, LatestIsTheEnd
  <1>6. /\ v \in Seq(S) /\ Len(v) = IF Len(b) > MaxHistory THEN MaxHistory ELSE Len(b)
        /\ \A i \in 1..Len(v) : Len(b) - Len(v) + i \in 1..Len(b) /\ v[i] = b[Len(b) - Len(v) + i]
    BY <1>4, LatestIsTheEnd
  <1> HIDE DEF u, v
  <1>7. Len(l) \in Nat /\ Len(u) = Len(v)
    BY <1>1, <1>2, <1>3, <1>4, <1>5, <1>6
  <1>8. ASSUME NEW i \in 1..Len(u) PROVE u[i] = v[i]
    <2> DEFINE j == Len(a) - Len(u) + i
               k == Len(b) - Len(v) + i
    <2>1. j \in 1..(Len(l) + 1) /\ u[i] = a[j] /\ k \in 1..(Len(s) + 1) /\ v[i] = b[k]
      BY <1>3, <1>4, <1>5, <1>6, <1>7, <1>8
    <2>2. k = Len(s) - Len(l) + j
      <3>1. Len(a) = Len(l) + 1 /\ Len(b) = Len(s) + 1 /\ Len(u) = Len(v) /\ Len(u) \in Nat
        BY <1>3, <1>4, <1>5, <1>7
      <3>2. i \in Int
        BY <1>8
      <3> QED BY <1>1, <1>7, <3>1, <3>2
    <2> HIDE DEF j, k
    <2>3. CASE j = Len(l) + 1
      <3>1. k = Len(s) + 1
        BY <1>1, <1>7, <2>2, <2>3
      <3> QED BY <1>3, <1>4, <2>1, <2>3, <3>1
    <2>4. CASE j # Len(l) + 1
      <3>1. j \in 1..Len(l) /\ k # Len(s) + 1
        BY <1>1, <1>7, <2>1, <2>2, <2>4
      <3> QED BY <1>2, <1>3, <1>4, <2>1, <2>2, <3>1
    <2> QED BY <2>3, <2>4
  <1>9. u = v
    BY <1>5, <1>6, <1>7, <1>8, SeqEqual
  <1> QED BY <1>9 DEF u, v, a, b, l

(* A record whose history is as long as its count says. *)
GoodRecord(d) ==
    Len(d.history) = IF d.history_count < MaxHistory THEN d.history_count ELSE MaxHistory

LEMMA SavedRecord ==
  ASSUME NEW d \in Records, NEW item \in Items, GoodRecord(d)
  PROVE  /\ Saved(d, item) \in Records /\ GoodRecord(Saved(d, item))
         /\ Saved(d, item).history_count = d.history_count + 1
         /\ Saved(d, item).history = Latest(Append(d.history, item))
  <1> DEFINE a == Append(d.history, item)
             l == Latest(a)
             w == Saved(d, item)
  <1>1. /\ d.history \in Seq(Items) /\ d.history_count \in Nat /\ MaxHistory \in Nat \ {0}
        /\ d.summary \in 0..MaxTurns /\ d.summarized \in BOOLEAN
    BY CloudAssumption DEF Records
  <1>2. a \in Seq(Items) /\ Len(a) = Len(d.history) + 1
    BY <1>1
  <1> HIDE DEF a
  <1>3. l \in Seq(Items) /\ Len(l) = IF Len(a) > MaxHistory THEN MaxHistory ELSE Len(a)
    BY <1>2, LatestIsTheEnd
  <1>4. /\ w.history = l /\ w.history_count = d.history_count + 1 /\ w.summary = d.summary
        /\ w.summarized = (d.summarized /\ Len(d.history) < MaxHistory)
    BY DEF Saved, a
  <1> HIDE DEF l
  <1>5. w \in Records
    <2>1. w.history_count \in Nat /\ w.summary \in 0..MaxTurns /\ w.summarized \in BOOLEAN
      BY <1>1, <1>4
    <2> QED BY <1>1, <1>3, <2>1 DEF Saved, Records, l, a
  <1> HIDE DEF w
  <1>6. GoodRecord(w)
    BY <1>1, <1>2, <1>3, <1>4 DEF GoodRecord
  <1> QED BY <1>4, <1>5, <1>6 DEF w, l, a

----------------------------------------------------------------------------
(* The requests. *)

LEMMA RequestKinds ==
  ASSUME NEW r \in Requests
  PROVE  /\ r.data \in Records \cup {Unread}
         /\ r.kind = "save" => r.item \in Items
         /\ r.kind \in {"update", "summary"} => r.turn \in Turns
         /\ r.kind \in {"save", "update", "summary"}
  BY DEF Requests

LEMMA ReadRequest ==
  ASSUME NEW r \in Requests, r.kind \in {"save", "update"}, NEW d \in Records
  PROVE  LET q == [r EXCEPT !.data = d]
         IN  /\ q \in Requests /\ q.data = d /\ q.kind = r.kind
             /\ r.kind = "save" => q.item = r.item
  <1>1. CASE r.kind = "save"
    <2>1. r \in [kind : {"save"}, item : Items, data : Records \cup {Unread}]
      BY <1>1 DEF Requests
    <2> QED BY <1>1, <2>1 DEF Requests
  <1>2. CASE r.kind = "update"
    <2>1. r \in [kind : {"update"}, turn : Turns, data : Records \cup {Unread}]
      BY <1>2 DEF Requests
    <2> QED BY <1>2, <2>1 DEF Requests
  <1> QED BY <1>1, <1>2

LEMMA SentRequests ==
  /\ \A item \in Items : /\ Save(item) \in Requests /\ Save(item).data = Unread
                         /\ Save(item).kind = "save" /\ Save(item).item = item
  /\ \A t \in Turns : /\ Update(t) \in Requests /\ Update(t).data = Unread
                      /\ Update(t).kind = "update"
                      /\ Summary(t) \in Requests /\ Summary(t).data = Unread
                      /\ Summary(t).kind = "summary"
  BY DEF Save, Update, Summary, Requests

(* A request that goes out has no record yet. *)
LEMMA SendAddsNoRecord ==
  ASSUME NEW r \in Requests, r.data = Unread, Send(r), UNCHANGED kv, requests \subseteq Requests
  PROVE  requests' \subseteq Requests /\ InUse' \subseteq InUse
  BY DEF Send, InUse

----------------------------------------------------------------------------
(* What records hold. *)

CloudInv ==
    /\ TypeOK
    /\ pc # "idle" => turn \in Turns
    /\ HistoryMatchesCount /\ CountNeverAhead /\ ExactUnlessOverlapped

LEMMA EmptyRecord ==
  /\ NoRecord \in Records /\ GoodRecord(NoRecord)
  /\ NoRecord.history = <<>> /\ NoRecord.history_count = 0 /\ Len(<<>>) = 0
  /\ Latest(<<>>) = <<>> /\ <<>> \in Seq(Items)
  <1>1. /\ MaxHistory \in Nat \ {0} /\ 0 \in 0..MaxTurns
        /\ <<>> \in Seq(Items) /\ Len(<<>>) = 0
    BY CloudAssumption
  <1>2. NoRecord \in Records /\ NoRecord.history = <<>> /\ NoRecord.history_count = 0
    BY <1>1 DEF NoRecord, Records
  <1> QED BY <1>1, <1>2 DEF GoodRecord, Latest

LEMMA RecordsInUse ==
  ASSUME CloudInv
  PROVE  /\ kv \in InUse
         /\ \A r \in requests : r.data # Unread => r.data \in InUse
         /\ \A d \in InUse : /\ d \in Records /\ GoodRecord(d) /\ d # Unread
                             /\ d.history_count <= Len(saved)
  <1>1. \A r \in requests : r.data \in Records \cup {Unread}
    BY RequestKinds DEF CloudInv, TypeOK
  <1>2. \A d \in InUse : d \in Records
    BY <1>1 DEF CloudInv, TypeOK, InUse
  <1> QED BY <1>2, CloudAssumption
          DEF InUse, CloudInv, HistoryMatchesCount, GoodRecord, CountNeverAhead

LEMMA GoodHistoriesFit ==
  ASSUME NEW d \in Records, GoodRecord(d)
  PROVE  Len(d.history) <= MaxHistory
  <1>1. MaxHistory \in Nat /\ d.history_count \in Nat
    BY CloudAssumption DEF Records
  <1> QED BY <1>1 DEF GoodRecord

(* A step that writes nothing. *)
LEMMA NothingWritten ==
  ASSUME CloudInv, UNCHANGED store, InUse' \subseteq InUse
  PROVE  /\ HistoryMatchesCount' /\ CountNeverAhead' /\ ExactUnlessOverlapped'
         /\ kv' \in Records /\ saved' \in Seq(Items) /\ clean' \in BOOLEAN
         /\ \A d \in InUse' : Len(d.history) <= MaxHistory
  <1>1. /\ HistoryMatchesCount /\ CountNeverAhead /\ ExactUnlessOverlapped /\ TypeOK
    BY DEF CloudInv
  <1>2. HistoryMatchesCount' /\ CountNeverAhead' /\ ExactUnlessOverlapped'
    BY <1>1 DEF HistoryMatchesCount, CountNeverAhead, ExactUnlessOverlapped, store
  <1> QED BY <1>1, <1>2 DEF TypeOK, store

LEMMA InitCloud == Init => CloudInv
  <1> SUFFICES ASSUME Init PROVE CloudInv
    OBVIOUS
  <1>1. InUse = {NoRecord}
    BY DEF Init, InUse
  <1>2. 0 \in 0..MaxTurns /\ MaxHistory \in Nat
    BY CloudAssumption
  <1>3. TypeOK
    <2>1. \A d \in InUse : Len(d.history) <= MaxHistory
      BY <1>1, EmptyRecord, GoodHistoriesFit
    <2> QED BY <1>2, <2>1, EmptyRecord DEF Init, TypeOK
  <1>4. HistoryMatchesCount /\ CountNeverAhead /\ ExactUnlessOverlapped
    BY <1>1, EmptyRecord
    DEF Init, HistoryMatchesCount, GoodRecord, CountNeverAhead, ExactUnlessOverlapped
  <1> QED BY <1>3, <1>4 DEF CloudInv, Init

LEMMA WriteSaveKeeps ==
  ASSUME CloudInv, NEW r \in requests, WriteSave(r)
  PROVE  CloudInv'
  <1>1. r \in Requests /\ r.item \in Items
    BY RequestKinds DEF CloudInv, TypeOK, WriteSave
  <1>2. r.data \in InUse /\ r.data \in Records /\ GoodRecord(r.data)
    BY RecordsInUse DEF WriteSave
  <1>3. /\ kv' \in Records /\ GoodRecord(kv')
        /\ kv'.history_count = r.data.history_count + 1
        /\ kv'.history = Latest(Append(r.data.history, r.item))
    BY <1>1, <1>2, SavedRecord DEF WriteSave
  <1>4. saved \in Seq(Items)
    BY DEF CloudInv, TypeOK
  <1>5. saved' \in Seq(Items) /\ Len(saved') = Len(saved) + 1 /\ Len(saved) \in Nat
    BY <1>1, <1>4 DEF WriteSave
  <1>6. \A d \in InUse' : d \in InUse \/ d = kv'
    BY DEF WriteSave, InUse
  <1>7. ASSUME NEW d \in InUse'
        PROVE  d \in Records /\ GoodRecord(d) /\ d.history_count <= Len(saved')
    <2>1. CASE d \in InUse
      <3>1. d \in Records /\ GoodRecord(d) /\ d.history_count <= Len(saved)
        BY <2>1, RecordsInUse
      <3>2. d.history_count \in Nat
        BY <3>1 DEF Records
      <3> QED BY <1>5, <3>1, <3>2
    <2>2. CASE d = kv'
      <3>1. r.data.history_count <= Len(saved) /\ r.data.history_count \in Nat
        BY <1>2, RecordsInUse DEF Records
      <3> QED BY <1>3, <1>5, <2>2, <3>1
    <2> QED BY <1>6, <2>1, <2>2
  <1>8. ExactUnlessOverlapped'
    <2> SUFFICES ASSUME clean' PROVE kv'.history = Latest(saved') /\ kv'.history_count = Len(saved')
      BY DEF ExactUnlessOverlapped
    <2>1. clean /\ kv = r.data
      BY DEF WriteSave
    <2>2. kv.history = Latest(saved) /\ kv.history_count = Len(saved)
      BY <2>1 DEF CloudInv, ExactUnlessOverlapped
    <2>3. saved' = Append(saved, r.item)
      BY DEF WriteSave
    <2>4. Latest(Append(Latest(saved), r.item)) = Latest(Append(saved, r.item))
      BY <1>1, <1>4, LatestAgain
    <2> QED BY <1>3, <1>5, <2>1, <2>2, <2>3, <2>4
  <1>9. HistoryMatchesCount' /\ CountNeverAhead'
    BY <1>7 DEF HistoryMatchesCount, CountNeverAhead, GoodRecord
  <1>10. clean' \in BOOLEAN /\ \A d \in InUse' : Len(d.history) <= MaxHistory
    BY <1>7, GoodHistoriesFit DEF WriteSave
  <1>11. TypeOK'
    BY <1>3, <1>5, <1>10 DEF CloudInv, TypeOK, WriteSave, device
  <1> QED BY <1>8, <1>9, <1>11 DEF CloudInv, WriteSave, device

LEMMA WriteSummaryKeeps ==
  ASSUME CloudInv, NEW r \in requests, WriteSummary(r)
  PROVE  CloudInv'
  <1>1. r \in Requests /\ r.turn \in Turns
    BY RequestKinds DEF CloudInv, TypeOK, WriteSummary
  <1>2. r.data \in InUse /\ r.data \in Records /\ GoodRecord(r.data)
    BY RecordsInUse DEF WriteSummary
  <1>3. /\ kv' \in Records /\ kv'.history = r.data.history
        /\ kv'.history_count = r.data.history_count
    <2>1. kv' = Summarized(r.data, r.turn) /\ r.turn \in 0..MaxTurns
      BY <1>1, CloudAssumption DEF WriteSummary, Turns
    <2> QED BY <1>2, <2>1 DEF Summarized, Records
  <1>4. GoodRecord(kv')
    BY <1>2, <1>3 DEF GoodRecord
  <1>5. saved' = saved
    BY DEF WriteSummary
  <1>6. \A d \in InUse' : d \in InUse \/ d = kv'
    BY DEF WriteSummary, InUse
  <1>7. \A d \in InUse' : d \in Records /\ GoodRecord(d) /\ d.history_count <= Len(saved')
    BY <1>2, <1>3, <1>4, <1>5, <1>6, RecordsInUse
  <1>8. ExactUnlessOverlapped'
    BY <1>3, <1>5 DEF WriteSummary, CloudInv, ExactUnlessOverlapped
  <1>9. HistoryMatchesCount' /\ CountNeverAhead'
    BY <1>7 DEF HistoryMatchesCount, CountNeverAhead, GoodRecord
  <1>10. clean' \in BOOLEAN /\ \A d \in InUse' : Len(d.history) <= MaxHistory
    BY <1>7, GoodHistoriesFit DEF WriteSummary
  <1>11. TypeOK'
    BY <1>3, <1>5, <1>10 DEF CloudInv, TypeOK, WriteSummary
  <1> QED BY <1>8, <1>9, <1>11 DEF CloudInv, WriteSummary

LEMMA StepCloud == CloudInv /\ [Next]_vars => CloudInv'
  <1> SUFFICES ASSUME CloudInv, [Next]_vars PROVE CloudInv'
    OBVIOUS
  <1> USE DEF TypeOK
  <1>1. requests \subseteq Requests
    BY DEF CloudInv
  <1>2. CASE FetchSummary
    <2>1. turn + 1 \in Turns /\ turn + 1 \in 0..MaxTurns
      BY <1>2, CloudAssumption DEF CloudInv, FetchSummary, Turns
    <2>2. requests' \subseteq Requests /\ InUse' \subseteq InUse
      BY <1>1, <1>2, <2>1, SentRequests, SendAddsNoRecord DEF FetchSummary, store
    <2> QED BY <1>2, <2>1, <2>2, NothingWritten DEF CloudInv, FetchSummary
  <1>3. CASE SummaryFails
    <2>1. InUse' \subseteq InUse
      BY <1>3 DEF SummaryFails, InUse, store
    <2> QED BY <1>3, <2>1, NothingWritten DEF CloudInv, SummaryFails
  <1>4. CASE StartSaves
    <2>1. InUse' \subseteq InUse
      BY <1>4 DEF StartSaves, InUse, store
    <2>2. starting' \subseteq Items
      BY <1>4 DEF StartSaves, CloudInv, Items
    <2> QED BY <1>4, <2>1, <2>2, NothingWritten DEF CloudInv, StartSaves
  <1>5. ASSUME NEW item \in starting, PostSave(item) PROVE CloudInv'
    <2>1. requests' \subseteq Requests /\ InUse' \subseteq InUse
      BY <1>1, <1>5, SentRequests, SendAddsNoRecord DEF PostSave, store, CloudInv
    <2> QED BY <1>5, <2>1, NothingWritten DEF CloudInv, PostSave
  <1>6. CASE SendSummary
    <2>1. turn \in Turns
      BY <1>6 DEF CloudInv, SendSummary
    <2>2. requests' \subseteq Requests /\ InUse' \subseteq InUse
      <3>1. CASE UNCHANGED requests
        BY <1>1, <1>6, <3>1 DEF SendSummary, InUse, store
      <3>2. CASE Send(Update(turn))
        BY <1>1, <1>6, <2>1, <3>2, SentRequests, SendAddsNoRecord DEF SendSummary, store
      <3> QED BY <1>6, <3>1, <3>2 DEF SendSummary
    <2> QED BY <1>6, <2>1, <2>2, NothingWritten DEF CloudInv, SendSummary
  <1>7. CASE UpdateFails
    <2>1. InUse' \subseteq InUse
      BY <1>7 DEF UpdateFails, InUse, store
    <2> QED BY <1>7, <2>1, NothingWritten DEF CloudInv, UpdateFails
  <1>8. ASSUME NEW r \in requests, ServeSummary(r) PROVE CloudInv'
    <2>1. InUse' \subseteq InUse
      BY <1>8 DEF ServeSummary, InUse, store
    <2>2. needs' \in BOOLEAN
      BY <1>8 DEF ServeSummary, NeedsSummarize, CloudInv
    <2> QED BY <1>1, <1>8, <2>1, <2>2, NothingWritten DEF CloudInv, ServeSummary
  <1>9. ASSUME NEW r \in requests, ReadRecord(r) PROVE CloudInv'
    <2>1. kv \in Records
      BY DEF CloudInv
    <2>2. [r EXCEPT !.data = kv] \in Requests /\ [r EXCEPT !.data = kv].data = kv
      BY <1>1, <1>9, <2>1, ReadRequest DEF ReadRecord
    <2>3. requests' \subseteq Requests /\ InUse' \subseteq InUse
      BY <1>1, <1>9, <2>2 DEF ReadRecord, InUse, store
    <2> QED BY <1>9, <2>3, NothingWritten DEF CloudInv, ReadRecord, device
  <1>10. CASE Expire
    <2>1. InUse' = {NoRecord}
      BY <1>10 DEF Expire, InUse
    <2>2. HistoryMatchesCount' /\ CountNeverAhead' /\ ExactUnlessOverlapped'
      BY <1>10, <2>1, EmptyRecord
      DEF Expire, HistoryMatchesCount, GoodRecord, CountNeverAhead, ExactUnlessOverlapped
    <2>3. \A d \in InUse' : Len(d.history) <= MaxHistory
      BY <2>1, EmptyRecord, GoodHistoriesFit
    <2> QED BY <1>10, <2>2, <2>3, EmptyRecord DEF CloudInv, Expire, device
  <1>11. CASE UNCHANGED vars
    <2>1. InUse' \subseteq InUse
      BY <1>11 DEF vars, InUse, store
    <2> QED BY <1>11, <2>1, NothingWritten DEF CloudInv, vars, device
  <1> QED BY <1>2, <1>3, <1>4, <1>5, <1>6, <1>7, <1>8, <1>9, <1>10, <1>11,
             WriteSaveKeeps, WriteSummaryKeeps DEF Next, Device, Worker

LEMMA CloudAlways == Spec => []CloudInv
  BY InitCloud, StepCloud, PTL DEF Spec

(* Every variable keeps its type, and no history outgrows MAX_HISTORY.     *)
THEOREM CloudTypeCorrect == Spec => []TypeOK
  <1>1. CloudInv => TypeOK
    BY DEF CloudInv
  <1> QED BY CloudAlways, <1>1, PTL

(* In every record the worker stores or works on, history and count agree. *)
THEOREM HistoryAndCountAgree == Spec => []HistoryMatchesCount
  <1>1. CloudInv => HistoryMatchesCount
    BY DEF CloudInv
  <1> QED BY CloudAlways, <1>1, PTL

(* A record never counts more than was saved. *)
THEOREM CountIsNeverAhead == Spec => []CountNeverAhead
  <1>1. CloudInv => CountNeverAhead
    BY DEF CloudInv
  <1> QED BY CloudAlways, <1>1, PTL

(* Without overlapping writes nothing is lost: the record holds the latest *)
(* messages in order and the exact count.                                  *)
THEOREM OnlyOverlapLoses == Spec => []ExactUnlessOverlapped
  <1>1. CloudInv => ExactUnlessOverlapped
    BY DEF CloudInv
  <1> QED BY CloudAlways, <1>1, PTL

----------------------------------------------------------------------------
(* At most once.  A message is pending while its save task or its request  *)
(* is about.  Records may be stale, so what must hold is said of all of    *)
(* them: no pending message is in any, and what is pending or stored was   *)
(* said in an earlier turn, or in this one once its answer is out.         *)

Saving == {r \in requests : r.kind = "save"}
Pending == starting \cup {r.item : r \in Saving}

Held(d) == {d.history[i] : i \in 1..Len(d.history)}
InRecords == UNION {Held(d) : d \in InUse}

NoTwice(h) == \A i, j \in 1..Len(h) : h[i] = h[j] => i = j

OneRequestEach ==
    /\ \A r, q \in Saving : r.item = q.item => r = q
    /\ \A r \in Saving : r.item \notin starting

AlreadySaid(x) == x.turn <= turn /\ (pc \in {"summary", "answer"} => x.turn # turn)

OnceInv ==
    /\ CloudInv
    /\ SavedAtMostOnce /\ OneRequestEach
    /\ Pending \cap InRecords = {}
    /\ \A x \in Pending \cup InRecords : AlreadySaid(x)

(* Saving one more message to a record. *)
LEMMA SavedHolds ==
  ASSUME NEW d \in Records, GoodRecord(d), NEW x \in Items
  PROVE  /\ Held(Saved(d, x)) \subseteq Held(d) \cup {x}
         /\ (NoTwice(d.history) /\ x \notin Held(d)) => NoTwice(Saved(d, x).history)
  <1> DEFINE h == d.history
             a == Append(h, x)
             l == Saved(d, x).history
  <1>1. h \in Seq(Items) /\ Len(h) \in Nat
    BY DEF Records
  <1>2. /\ a \in Seq(Items) /\ Len(a) = Len(h) + 1
        /\ \A i \in 1..(Len(h) + 1) : a[i] = IF i = Len(h) + 1 THEN x ELSE h[i]
    BY <1>1
  <1>3. l = Latest(a)
    BY SavedRecord
  <1> HIDE DEF a
  <1>4. /\ Len(l) \in Nat /\ Len(a) \in Nat
        /\ \A i \in 1..Len(l) : Len(a) - Len(l) + i \in 1..Len(a) /\ l[i] = a[Len(a) - Len(l) + i]
    <2>1. Len(a) \in Nat /\ MaxHistory \in Nat
      BY <1>2, CloudAssumption
    <2> QED BY <1>2, <1>3, <2>1, LatestIsTheEnd
  <1> HIDE DEF h, l
  <1>5. \A k \in 1..Len(a) : \/ k = Len(h) + 1 /\ a[k] = x
                             \/ k \in 1..Len(h) /\ a[k] = h[k]
    <2> TAKE k \in 1..Len(a)
    <2>1. k \in 1..(Len(h) + 1) /\ (k # Len(h) + 1 => k \in 1..Len(h))
      BY <1>1, <1>2
    <2>2. a[k] = IF k = Len(h) + 1 THEN x ELSE h[k]
      BY <1>2, <2>1
    <2> QED BY <2>1, <2>2
  <1>6. ASSUME NEW i \in 1..Len(l) PROVE l[i] = x \/ \E k \in 1..Len(h) : l[i] = h[k]
    BY <1>4, <1>5
  <1>7. Held(Saved(d, x)) \subseteq Held(d) \cup {x}
    BY <1>6 DEF Held, h, l
  <1>8. ASSUME NoTwice(h), \A k \in 1..Len(h) : h[k] # x PROVE NoTwice(l)
    <2> SUFFICES ASSUME NEW i \in 1..Len(l), NEW j \in 1..Len(l), l[i] = l[j] PROVE i = j
      BY DEF NoTwice
    <2> DEFINE p == Len(a) - Len(l) + i
               q == Len(a) - Len(l) + j
    <2>1. p \in 1..Len(a) /\ q \in 1..Len(a) /\ a[p] = a[q]
      BY <1>4
    <2>2. p = q => i = j
      BY <1>4
    <2> HIDE DEF p, q
    <2>3. p = q
      BY <1>5, <1>8, <2>1 DEF NoTwice
    <2> QED BY <2>2, <2>3
  <1>9. (\A k \in 1..Len(h) : h[k] # x) <=> x \notin Held(d)
    BY DEF Held, h
  <1> QED BY <1>7, <1>8, <1>9 DEF h, l

LEMMA PendingAreItems ==
  ASSUME CloudInv
  PROVE  Pending \subseteq Items /\ Saving \subseteq requests
         /\ \A x \in Items : x.turn \in Turns
  <1>1. starting \subseteq Items /\ requests \subseteq Requests
    BY DEF CloudInv, TypeOK
  <1>2. \A r \in Saving : r.item \in Items
    BY <1>1, RequestKinds DEF Saving
  <1> QED BY <1>1, <1>2 DEF Pending, Saving, Items

(* A step that adds no message to any record and leaves none pending that  *)
(* was not.                                                                *)
LEMMA NothingAdded ==
  ASSUME OnceInv, CloudInv',
         \A d \in InUse' : Len(d.history) = 0 \/ \E e \in InUse : d.history = e.history,
         Pending' \subseteq Pending, OneRequestEach',
         \A x \in Items : AlreadySaid(x) => AlreadySaid(x)'
  PROVE  OnceInv'
  <1>1. \A d \in InUse : NoTwice(d.history)
    BY DEF OnceInv, SavedAtMostOnce, NoTwice
  <1>2. \A d \in InUse' : NoTwice(d.history)
    BY <1>1 DEF NoTwice
  <1>3. InRecords' \subseteq InRecords
    <2>1. ASSUME NEW d \in InUse' PROVE Held(d) \subseteq InRecords
      BY <2>1 DEF InRecords, Held
    <2> QED BY <2>1 DEF InRecords
  <1>4. Pending \cup InRecords \subseteq Items
    <2>1. \A d \in InUse : d.history \in Seq(Items)
      BY RecordsInUse DEF OnceInv, Records
    <2>2. \A d \in InUse : \A i \in 1..Len(d.history) : d.history[i] \in Items
      BY <2>1
    <2> QED BY <2>2, PendingAreItems DEF OnceInv, InRecords, Held
  <1>5. SavedAtMostOnce'
    BY <1>2 DEF SavedAtMostOnce, NoTwice
  <1> QED BY <1>3, <1>4, <1>5 DEF OnceInv

LEMMA InitOnce == Init => OnceInv
  <1> SUFFICES ASSUME Init PROVE OnceInv
    OBVIOUS
  <1>1. InUse = {NoRecord} /\ Saving = {} /\ starting = {}
    BY DEF Init, InUse, Saving
  <1>2. Pending = {} /\ OneRequestEach
    BY <1>1 DEF Pending, OneRequestEach
  <1>3. InRecords = {} /\ SavedAtMostOnce
    <2>1. 1..Len(NoRecord.history) = {}
      BY EmptyRecord
    <2> QED BY <1>1, <2>1 DEF InRecords, Held, SavedAtMostOnce
  <1> QED BY <1>2, <1>3, InitCloud DEF OnceInv

(* A save that is posted was about to be. *)
LEMMA PostSaveOnce ==
  ASSUME OnceInv, CloudInv', NEW item \in starting, PostSave(item)
  PROVE  OnceInv'
  <1>1. /\ requests' \in {requests, requests \cup {Save(item)}}
        /\ starting' = starting \ {item}
    BY DEF PostSave, Send
  <1>2. item \in Items /\ Save(item).kind = "save" /\ Save(item).item = item
    BY SentRequests DEF OnceInv, CloudInv, TypeOK
  <1>3. \A r \in Saving' : r \in Saving \/ r = Save(item)
    BY <1>1 DEF Saving
  <1>4. Pending' \subseteq Pending
    BY <1>1, <1>2, <1>3 DEF Pending
  <1>5. OneRequestEach'
    BY <1>1, <1>2, <1>3 DEF OnceInv, OneRequestEach
  <1>6. InUse' \subseteq InUse
    BY <1>1, SentRequests, <1>2 DEF PostSave, InUse, store
  <1>7. \A x \in Items : AlreadySaid(x) => AlreadySaid(x)'
    BY DEF PostSave, AlreadySaid
  <1> QED BY <1>4, <1>5, <1>6, <1>7, NothingAdded

(* The messages of this turn are pending nowhere before StartSaves.        *)
LEMMA StartSavesOnce ==
  ASSUME OnceInv, CloudInv', StartSaves
  PROVE  OnceInv'
  <1> PICK made \in SUBSET {"user", "assistant"} :
           starting' = starting \cup {[turn |-> turn, role |-> r] : r \in made}
    BY DEF StartSaves
  <1> DEFINE fresh == {[turn |-> turn, role |-> r] : r \in made}
  <1>1. /\ requests' = requests /\ turn' = turn /\ UNCHANGED store
        /\ pc = "answer" /\ pc' \notin {"summary", "answer"} /\ turn \in Turns
    BY DEF StartSaves, OnceInv, CloudInv
  <1>2. \A x \in fresh : x.turn = turn
    OBVIOUS
  <1>3. starting' = starting \cup fresh
    OBVIOUS
  <1> HIDE DEF fresh
  <1>4. \A x \in Pending \cup InRecords : x.turn <= turn /\ x.turn # turn
    BY <1>1 DEF OnceInv, AlreadySaid
  <1>5. InUse' = InUse /\ Saving' = Saving
    BY <1>1 DEF InUse, Saving, store
  <1>6. InRecords' = InRecords /\ Pending' = Pending \cup fresh
    BY <1>3, <1>5 DEF InRecords, Pending
  <1>7. OneRequestEach'
    <2>1. \A r \in Saving : r.item \in Pending
      BY DEF Pending
    <2> QED BY <1>2, <1>3, <1>4, <1>5, <2>1 DEF OneRequestEach, OnceInv
  <1>8. SavedAtMostOnce'
    BY <1>5 DEF OnceInv, SavedAtMostOnce
  <1>9. (Pending \cap InRecords = {})'
    BY <1>2, <1>4, <1>6 DEF OnceInv
  <1>10. ASSUME NEW x \in Pending' \cup InRecords' PROVE AlreadySaid(x)'
    <2>1. turn \in Int
      BY <1>1 DEF Turns
    <2>2. x.turn <= turn
      BY <1>2, <1>4, <1>6, <2>1
    <2> QED BY <1>1, <2>2 DEF AlreadySaid
  <1> QED BY <1>7, <1>8, <1>9, <1>10 DEF OnceInv

LEMMA WriteSaveOnce ==
  ASSUME OnceInv, CloudInv', NEW r \in requests, WriteSave(r)
  PROVE  OnceInv'
  <1> DEFINE w == Saved(r.data, r.item)
             x == r.item
  <1>1. r \in Requests /\ x \in Items /\ r \in Saving
    BY RequestKinds DEF OnceInv, CloudInv, TypeOK, WriteSave, Saving
  <1>2. r.data \in InUse /\ r.data \in Records /\ GoodRecord(r.data)
    BY RecordsInUse DEF WriteSave, OnceInv
  <1>3. /\ kv' = w /\ requests' = requests \ {r} /\ starting' = starting
        /\ turn' = turn /\ pc' = pc
    BY DEF WriteSave, device
  <1>4. x \in Pending /\ x \notin Held(r.data)
    BY <1>1, <1>2 DEF Pending, OnceInv, InRecords
  <1>5. NoTwice(r.data.history)
    BY <1>2 DEF OnceInv, SavedAtMostOnce, NoTwice
  <1>6. Held(w) \subseteq Held(r.data) \cup {x} /\ NoTwice(w.history)
    BY <1>1, <1>2, <1>4, <1>5, SavedHolds
  <1> HIDE DEF w, x
  <1>7. Saving' = Saving \ {r}
    BY <1>3 DEF Saving
  <1>8. Pending' \subseteq Pending /\ x \notin Pending'
    BY <1>1, <1>3, <1>7 DEF Pending, OnceInv, OneRequestEach, x
  <1>9. \A d \in InUse' : d \in InUse \/ d = w
    BY <1>3 DEF InUse
  <1>10. InRecords' \subseteq InRecords \cup {x}
    <2>1. ASSUME NEW d \in InUse' PROVE Held(d) \subseteq InRecords \cup {x}
      BY <1>2, <1>6, <1>9 DEF InRecords
    <2> QED BY <2>1 DEF InRecords
  <1>11. OneRequestEach'
    BY <1>3, <1>7 DEF OneRequestEach, OnceInv
  <1>12. SavedAtMostOnce'
    BY <1>6, <1>9 DEF SavedAtMostOnce, OnceInv, NoTwice
  <1>13. \A y : AlreadySaid(y) => AlreadySaid(y)'
    BY <1>3 DEF AlreadySaid
  <1> QED BY <1>4, <1>8, <1>10, <1>11, <1>12, <1>13 DEF OnceInv

(* Handlers that write or read no new message. *)
LEMMA WriteSummaryOnce ==
  ASSUME OnceInv, CloudInv', NEW r \in requests, WriteSummary(r)
  PROVE  OnceInv'
  <1>1. r.data \in InUse
    BY RecordsInUse DEF WriteSummary, OnceInv
  <1>2. kv' = Summarized(r.data, r.turn) /\ kv'.history = r.data.history
    BY DEF WriteSummary, Summarized
  <1>3. /\ requests' = requests \ {r} /\ starting' = starting /\ turn' = turn
        /\ (pc' \in {"summary", "answer"} => pc' = pc)
    BY DEF WriteSummary
  <1>4. \A d \in InUse' : \E e \in InUse : d.history = e.history
    <2>1. \A d \in InUse' : d \in InUse \/ d = kv'
      BY <1>3 DEF InUse
    <2> QED BY <1>1, <1>2, <2>1
  <1>5. Saving' \subseteq Saving
    BY <1>3 DEF Saving
  <1>6. Pending' \subseteq Pending /\ OneRequestEach'
    BY <1>3, <1>5 DEF Pending, OneRequestEach, OnceInv
  <1>7. \A x \in Items : AlreadySaid(x) => AlreadySaid(x)'
    BY <1>3 DEF AlreadySaid
  <1> QED BY <1>4, <1>6, <1>7, NothingAdded

LEMMA ReadRecordOnce ==
  ASSUME OnceInv, CloudInv', NEW r \in requests, ReadRecord(r)
  PROVE  OnceInv'
  <1> DEFINE q == [r EXCEPT !.data = kv]
  <1>1. r \in Requests /\ kv \in Records /\ r.kind \in {"save", "update"}
    BY DEF OnceInv, CloudInv, TypeOK, ReadRecord
  <1>2. q.data = kv /\ q.kind = r.kind /\ (r.kind = "save" => q.item = r.item)
    BY <1>1, ReadRequest
  <1>3. /\ requests' = (requests \ {r}) \cup {q} /\ starting' = starting
        /\ turn' = turn /\ pc' = pc /\ kv' = kv
    BY DEF ReadRecord, device, store
  <1> HIDE DEF q
  <1>4. InUse' \subseteq InUse
    BY <1>2, <1>3 DEF InUse
  <1>5. \A p \in Saving' : p \in Saving \ {r} \/ (p = q /\ r \in Saving)
    BY <1>2, <1>3 DEF Saving
  <1>6. r \in Saving => q.item = r.item
    BY <1>2 DEF Saving
  <1>7. Pending' \subseteq Pending
    BY <1>3, <1>5, <1>6 DEF Pending
  <1>8. OneRequestEach'
    BY <1>3, <1>5, <1>6 DEF OneRequestEach, OnceInv
  <1>9. \A x \in Items : AlreadySaid(x) => AlreadySaid(x)'
    BY <1>3 DEF AlreadySaid
  <1> QED BY <1>4, <1>7, <1>8, <1>9, NothingAdded

(* Steps that leave the saves alone: what they send is no save.            *)
LEMMA SavesLeftAlone ==
  ASSUME OnceInv, CloudInv', UNCHANGED starting, Saving' = Saving,
         \A d \in InUse' : Len(d.history) = 0 \/ \E e \in InUse : d.history = e.history,
         \A x \in Items : AlreadySaid(x) => AlreadySaid(x)'
  PROVE  OnceInv'
  <1>1. Pending' \subseteq Pending
    BY DEF Pending
  <1>2. OneRequestEach'
    BY DEF OneRequestEach, OnceInv
  <1> QED BY <1>1, <1>2, NothingAdded

LEMMA SendNoSave ==
  ASSUME NEW r, r.kind # "save", r.data = Unread, Send(r), UNCHANGED kv
  PROVE  Saving' = Saving /\ InUse' \subseteq InUse
  BY DEF Send, Saving, InUse

LEMMA StepOnce == OnceInv /\ [Next]_vars => OnceInv'
  <1> SUFFICES ASSUME OnceInv, [Next]_vars PROVE OnceInv'
    OBVIOUS
  <1>1. CloudInv'
    BY StepCloud DEF OnceInv
  <1>2. turn \in 0..MaxTurns /\ MaxTurns \in Nat /\ requests \subseteq Requests
    BY CloudAssumption DEF OnceInv, CloudInv, TypeOK
  <1>3. CASE FetchSummary
    <2>1. turn + 1 \in Turns /\ turn' = turn + 1 /\ UNCHANGED starting /\ UNCHANGED kv
      BY <1>2, <1>3 DEF FetchSummary, Turns, store
    <2>2. /\ Summary(turn + 1).kind # "save" /\ Summary(turn + 1).data = Unread
          /\ Send(Summary(turn + 1))
      BY <1>3, <2>1, SentRequests DEF FetchSummary
    <2>3. Saving' = Saving /\ InUse' \subseteq InUse
      BY <2>1, <2>2, SendNoSave
    <2>4. ASSUME NEW x \in Items, AlreadySaid(x) PROVE AlreadySaid(x)'
      <3>1. x.turn \in Nat /\ x.turn <= turn /\ turn \in Nat
        BY <1>2, <2>4 DEF Items, Turns, AlreadySaid
      <3>2. x.turn <= turn' /\ x.turn # turn'
        BY <2>1, <3>1
      <3> QED BY <3>2 DEF AlreadySaid
    <2> QED BY <1>1, <2>1, <2>3, <2>4, SavesLeftAlone
  <1>4. CASE SummaryFails
    <2>1. /\ UNCHANGED <<starting, kv, turn, requests>> /\ pc = "summary"
      BY <1>4 DEF SummaryFails, store
    <2>2. Saving' = Saving /\ InUse' \subseteq InUse
      BY <2>1 DEF Saving, InUse
    <2>3. \A x \in Items : AlreadySaid(x) => AlreadySaid(x)'
      BY <2>1 DEF AlreadySaid
    <2> QED BY <1>1, <2>1, <2>2, <2>3, SavesLeftAlone
  <1>5. CASE StartSaves
    BY <1>1, <1>5, StartSavesOnce
  <1>6. CASE SendSummary
    <2>1. /\ UNCHANGED <<starting, kv, turn>> /\ pc' \notin {"summary", "answer"}
          /\ turn \in Turns
      BY <1>6 DEF SendSummary, store, OnceInv, CloudInv
    <2>2. Saving' = Saving /\ InUse' \subseteq InUse
      <3>1. CASE Send(Update(turn))
        BY <2>1, <3>1, SendNoSave, SentRequests
      <3>2. CASE UNCHANGED requests
        BY <2>1, <3>2 DEF Saving, InUse
      <3> QED BY <1>6, <3>1, <3>2 DEF SendSummary
    <2>3. \A x \in Items : AlreadySaid(x) => AlreadySaid(x)'
      BY <2>1 DEF AlreadySaid
    <2> QED BY <1>1, <2>1, <2>2, <2>3, SavesLeftAlone
  <1>7. CASE UpdateFails
    <2>1. /\ UNCHANGED <<starting, kv, turn, requests>> /\ pc' = "idle"
      BY <1>7 DEF UpdateFails, store
    <2>2. Saving' = Saving /\ InUse' \subseteq InUse
      BY <2>1 DEF Saving, InUse
    <2>3. \A x \in Items : AlreadySaid(x) => AlreadySaid(x)'
      BY <2>1 DEF AlreadySaid
    <2> QED BY <1>1, <2>1, <2>2, <2>3, SavesLeftAlone
  <1>8. ASSUME NEW item \in starting, PostSave(item) PROVE OnceInv'
    BY <1>1, <1>8, PostSaveOnce
  <1>9. ASSUME NEW r \in requests, ServeSummary(r) PROVE OnceInv'
    <2>1. /\ UNCHANGED <<starting, kv, turn>> /\ requests' = requests \ {r} /\ r.kind = "summary"
          /\ (pc' \in {"summary", "answer"} => pc \in {"summary", "answer"})
      BY <1>9 DEF ServeSummary, store
    <2>2. Saving' = Saving /\ InUse' \subseteq InUse
      BY <2>1 DEF Saving, InUse
    <2>3. \A x \in Items : AlreadySaid(x) => AlreadySaid(x)'
      BY <2>1 DEF AlreadySaid
    <2> QED BY <1>1, <2>1, <2>2, <2>3, SavesLeftAlone
  <1>10. ASSUME NEW r \in requests, ReadRecord(r) PROVE OnceInv'
    BY <1>1, <1>10, ReadRecordOnce
  <1>11. ASSUME NEW r \in requests, WriteSave(r) PROVE OnceInv'
    BY <1>1, <1>11, WriteSaveOnce
  <1>12. ASSUME NEW r \in requests, WriteSummary(r) PROVE OnceInv'
    BY <1>1, <1>12, WriteSummaryOnce
  <1>13. CASE Expire
    <2>1. UNCHANGED <<starting, turn, requests, pc>> /\ kv' = NoRecord /\ requests = {}
      BY <1>13 DEF Expire, device
    <2>2. Saving' = Saving
      BY <2>1 DEF Saving
    <2>3. \A d \in InUse' : Len(d.history) = 0
      BY <2>1, EmptyRecord DEF InUse
    <2>4. \A x \in Items : AlreadySaid(x) => AlreadySaid(x)'
      BY <2>1 DEF AlreadySaid
    <2> QED BY <1>1, <2>1, <2>2, <2>3, <2>4, SavesLeftAlone
  <1>14. CASE UNCHANGED vars
    <2>1. UNCHANGED <<starting, turn, requests, pc, kv>>
      BY <1>14 DEF vars, device, store
    <2>2. Saving' = Saving /\ InUse' \subseteq InUse
      BY <2>1 DEF Saving, InUse
    <2>3. \A x \in Items : AlreadySaid(x) => AlreadySaid(x)'
      BY <2>1 DEF AlreadySaid
    <2> QED BY <1>1, <2>1, <2>2, <2>3, SavesLeftAlone
  <1> QED BY <1>3, <1>4, <1>5, <1>6, <1>7, <1>8, <1>9, <1>10, <1>11, <1>12, <1>13, <1>14
          DEF Next, Device, Worker

(* No message is in the cloud twice, however late the worker serves what   *)
(* the device has given up.                                                *)
THEOREM StoredAtMostOnce == Spec => []SavedAtMostOnce
  <1>1. OnceInv => SavedAtMostOnce
    BY DEF OnceInv
  <1>2. Spec => []OnceInv
    BY InitOnce, StepOnce, PTL DEF Spec
  <1> QED BY <1>1, <1>2, PTL
=============================================================================

--------------------------- MODULE AtomTurn_proofs ---------------------------
(***************************************************************************)
(* Proofs about AtomTurn and its session store, for every table size, ring *)
(* size, history limit, iteration limit and set of users.                  *)
(***************************************************************************)
EXTENDS AtomTurn, SequenceTheorems, FiniteSetTheorems, WellFoundedInduction, TLAPS

----------------------------------------------------------------------------
(* Ring arithmetic. *)

LEMMA WrapOnce ==
  ASSUME NEW x \in Nat, x < 2 * MaxMsgs
  PROVE  x % MaxMsgs = IF x < MaxMsgs THEN x ELSE x - MaxMsgs
  BY SessionAssumption

LEMMA RingIsClosed ==
  ASSUME NEW x \in Nat
  PROVE  x % MaxMsgs \in Ring
  BY SessionAssumption DEF Ring

----------------------------------------------------------------------------
(* The slots of the table. *)

LEMMA FirstIsIn ==
  ASSUME NEW S \in SUBSET Slots, S # {}
  PROVE  First(S) \in S
  <1>1. S \subseteq Nat
    BY DEF Slots
  <1>2. PICK n \in S : \A k \in S : <<k, n>> \notin OpToRel(<, Nat)
    BY <1>1, NatLessThanWellFounded, WFMin
  <1>3. ASSUME NEW k \in S PROVE n <= k
    <2>1. k \in Nat /\ n \in Nat
      BY <1>1, <1>2
    <2>2. <<k, n>> \in Nat \X Nat /\ <<k, n>>[1] = k /\ <<k, n>>[2] = n
      BY <2>1
    <2>3. ~ (k < n)
      BY <1>2, <1>3, <2>2 DEF OpToRel
    <2> QED BY <2>1, <2>3
  <1> QED BY <1>2, <1>3 DEF First

(* An entry of a ring in use: the slot has an owner and its messages are   *)
(* the owner's; as long as the ring has not wrapped, head is the count.    *)
GoodSlot(s) ==
    /\ s.in_use => s.user_id \in Users
    /\ s.count < MaxMsgs => s.head = s.count
    /\ \A k \in Ring : k < s.count => s.msgs[k] \in Messages /\ s.msgs[k].of = s.user_id

SessionInv == SessionTypeOK /\ OneSlotEach /\ \A i \in Slots : GoodSlot(sessions[i])

LEMMA MineAndFree ==
  ASSUME SessionTypeOK, NEW u
  PROVE  /\ Mine(u) \in SUBSET Slots /\ Free \in SUBSET Slots
         /\ Mine(u) # {} => First(Mine(u)) \in Mine(u)
         /\ Free # {} => First(Free) \in Free
  <1>1. Mine(u) \in SUBSET Slots /\ Free \in SUBSET Slots
    BY DEF Mine, Free
  <1> QED BY <1>1, FirstIsIn

LEMMA EmptySlotIsGood ==
  ASSUME NEW u \in Users \cup {Blank}, NEW used \in BOOLEAN, used => u \in Users
  PROVE  LET s == EmptySlot(u, used)
         IN  s \in Slot /\ GoodSlot(s) /\ s.in_use = used /\ s.user_id = u
                        /\ s.count = 0 /\ s.head = 0
  <1> DEFINE s == EmptySlot(u, used)
  <1>1. 0 \in Ring /\ 0 \in 0..MaxMsgs
    BY SessionAssumption DEF Ring
  <1>2. s \in Slot /\ s.in_use = used /\ s.user_id = u /\ s.count = 0 /\ s.head = 0
    BY <1>1 DEF EmptySlot, Slot
  <1> HIDE DEF s
  <1>3. GoodSlot(s)
    BY <1>2 DEF GoodSlot, Ring
  <1> QED BY <1>2, <1>3 DEF s

(* The slot an append starts from is good, and no other slot has its user. *)
LEMMA FoundSlot ==
  ASSUME SessionInv, NEW u \in Users, HasSlot(u)
  PROVE  LET f == FindOrAlloc(u)
         IN  /\ f.at \in Slots /\ f.slot \in Slot /\ GoodSlot(f.slot)
             /\ f.slot.in_use /\ f.slot.user_id = u
             /\ \A i \in Slots \ {f.at} : i \notin Mine(u)
  <1> DEFINE f == FindOrAlloc(u)
  <1>1. CASE Mine(u) # {}
    <2>1. f.at \in Mine(u) /\ f.slot = sessions[f.at]
      BY <1>1, MineAndFree DEF FindOrAlloc, SessionInv
    <2> HIDE DEF f
    <2>2. f.at \in Slots /\ f.slot \in Slot /\ GoodSlot(f.slot)
      BY <2>1 DEF SessionInv, SessionTypeOK, Mine
    <2> QED BY <2>1, <2>2 DEF SessionInv, OneSlotEach, Mine, f
  <1>2. CASE Mine(u) = {}
    <2>1. f.at \in Free /\ f.slot = EmptySlot(u, TRUE)
      BY <1>2, MineAndFree DEF FindOrAlloc, HasSlot, SessionInv
    <2>2. f.slot \in Slot /\ GoodSlot(f.slot) /\ f.slot.in_use /\ f.slot.user_id = u
      BY <2>1, EmptySlotIsGood
    <2> QED BY <1>2, <2>1, <2>2 DEF Free
  <1> QED BY <1>1, <1>2

LEMMA WrittenSlot ==
  ASSUME NEW s \in Slot, GoodSlot(s), s.in_use, NEW m \in Messages, m.of = s.user_id
  PROVE  /\ Written(s, m) \in Slot /\ GoodSlot(Written(s, m))
         /\ Written(s, m).in_use /\ Written(s, m).user_id = s.user_id
  <1> DEFINE w == Written(s, m)
  <1>1. /\ s.head \in Ring /\ s.count \in 0..MaxMsgs /\ s.msgs \in [Ring -> Messages \cup {Blank}]
        /\ MaxMsgs \in Nat \ {0}
    BY SessionAssumption DEF Slot
  <1>2. /\ w.msgs = [s.msgs EXCEPT ![s.head] = m]
        /\ w.head = (s.head + 1) % MaxMsgs
        /\ w.count = IF s.count < MaxMsgs THEN s.count + 1 ELSE s.count
        /\ w.in_use = s.in_use /\ w.user_id = s.user_id
    BY DEF Written, Updated
  <1>3. w \in Slot
    <2>1. w.head \in Ring /\ w.count \in 0..MaxMsgs
      <3> HIDE DEF w
      <3>1. s.head + 1 \in Nat
        BY <1>1 DEF Ring
      <3>2. w.head \in Ring
        BY <1>2, <3>1, RingIsClosed
      <3> QED BY <1>1, <1>2, <3>2
    <2>2. w.msgs \in [Ring -> Messages \cup {Blank}]
      BY <1>1, <1>2
    <2> QED BY <1>1, <1>2, <2>1, <2>2 DEF Written, Updated, Slot
  <1> HIDE DEF w
  <1>4. (s.head + 1) % MaxMsgs = IF s.head + 1 < MaxMsgs THEN s.head + 1 ELSE s.head + 1 - MaxMsgs
    BY <1>1, WrapOnce DEF Ring
  <1>5. GoodSlot(w)
    BY <1>1, <1>2, <1>4 DEF GoodSlot, Ring
  <1> QED BY <1>2, <1>3, <1>5 DEF w

(* What the three operations do to the table. *)
LEMMA AppendKeepsSessions ==
  ASSUME SessionInv, NEW u \in Users, NEW m \in Messages, m.of = u,
         SessionAppend(u, m) \/ SessionAppendFails(u)
  PROVE  SessionInv'
  <1>1. CASE SessionAppendFails(u)
    BY <1>1 DEF SessionAppendFails, SessionInv, SessionTypeOK, OneSlotEach
  <1>2. CASE SessionAppend(u, m)
    <2> DEFINE f == FindOrAlloc(u)
               w == Written(f.slot, m)
    <2>1. /\ f.at \in Slots /\ f.slot \in Slot /\ GoodSlot(f.slot) /\ f.slot.in_use
          /\ f.slot.user_id = u /\ \A i \in Slots \ {f.at} : i \notin Mine(u)
      BY <1>2, FoundSlot DEF SessionAppend
    <2>2. w \in Slot /\ GoodSlot(w) /\ w.in_use /\ w.user_id = u
      BY <2>1, WrittenSlot
    <2>3. sessions' = [sessions EXCEPT ![f.at] = w]
      BY <1>2 DEF SessionAppend
    <2> HIDE DEF f, w
    <2>4. \A i \in Slots : sessions'[i] = IF i = f.at THEN w ELSE sessions[i]
      BY <2>1, <2>3 DEF SessionInv, SessionTypeOK
    <2>5. SessionTypeOK'
      BY <2>1, <2>2, <2>3 DEF SessionInv, SessionTypeOK
    <2>6. OneSlotEach'
      BY <2>1, <2>2, <2>4 DEF SessionInv, OneSlotEach, Mine
    <2> QED BY <2>2, <2>4, <2>5, <2>6 DEF SessionInv
  <1> QED BY <1>1, <1>2

LEMMA ClearKeepsSessions ==
  ASSUME SessionInv, NEW u \in Users, SessionClear(u)
  PROVE  SessionInv'
  <1>1. CASE Mine(u) = {}
    BY <1>1 DEF SessionClear, SessionInv, SessionTypeOK, OneSlotEach
  <1>2. CASE Mine(u) # {}
    <2> DEFINE c == First(Mine(u))
    <2>1. c \in Slots /\ sessions' = [sessions EXCEPT ![c] = Zeroed]
      BY <1>2, MineAndFree DEF SessionClear, SessionInv
    <2>2. Zeroed \in Slot /\ GoodSlot(Zeroed) /\ Zeroed.in_use = FALSE
      BY EmptySlotIsGood DEF Zeroed
    <2> HIDE DEF c
    <2>3. \A i \in Slots : sessions'[i] = IF i = c THEN Zeroed ELSE sessions[i]
      BY <2>1 DEF SessionInv, SessionTypeOK
    <2>4. SessionTypeOK'
      BY <2>1, <2>2 DEF SessionInv, SessionTypeOK
    <2>5. OneSlotEach'
      BY <2>2, <2>3 DEF SessionInv, OneSlotEach
    <2> QED BY <2>2, <2>3, <2>4, <2>5 DEF SessionInv
  <1> QED BY <1>1, <1>2

LEMMA SessionsStartGood == SessionInit => SessionInv
  <1> SUFFICES ASSUME SessionInit PROVE SessionInv
    OBVIOUS
  <1>1. Zeroed \in Slot /\ GoodSlot(Zeroed) /\ Zeroed.in_use = FALSE
    BY EmptySlotIsGood DEF Zeroed
  <1> QED BY <1>1 DEF SessionInit, SessionInv, SessionTypeOK, OneSlotEach

(* Where the i-th of the n newest entries of a ring is found.              *)
Place(s, n, i) == IF s.head + i - 1 < n THEN s.head + MaxMsgs - n + i - 1
                  ELSE s.head - n + i - 1

LEMMA NewestEntry ==
  ASSUME NEW s, s.head \in Ring, NEW n \in 0..MaxMsgs, NEW i \in 1..n
  PROVE  Newest(s, n)[i] = s.msgs[Place(s, n, i)]
  <1> DEFINE start == (s.head + MaxMsgs - n) % MaxMsgs
             x == start + i - 1
             y == s.head + MaxMsgs - n
  <1>1. s.head \in Ring /\ n \in Nat /\ i \in Nat /\ MaxMsgs \in Nat \ {0}
    BY SessionAssumption DEF Ring
  <1>2. y \in Nat /\ y < 2 * MaxMsgs
    BY <1>1 DEF Ring
  <1>3. start = y % MaxMsgs
    OBVIOUS
  <1> HIDE DEF y, start
  <1>4. start = IF y < MaxMsgs THEN y ELSE y - MaxMsgs
    BY <1>2, <1>3, WrapOnce
  <1>5. x \in Nat /\ x < 2 * MaxMsgs
    BY <1>1, <1>2, <1>4 DEF y, Ring
  <1>6. Newest(s, n)[i] = s.msgs[x % MaxMsgs]
    BY DEF Newest, x, start, y
  <1> HIDE DEF x
  <1>7. x % MaxMsgs = IF x < MaxMsgs THEN x ELSE x - MaxMsgs
    BY <1>5, WrapOnce
  <1>8. x % MaxMsgs = Place(s, n, i)
    BY <1>1, <1>2, <1>4, <1>5, <1>7 DEF x, y, Place, Ring
  <1> QED BY <1>6, <1>8

(* What is read of a user's history is that user's, message by message.    *)
LEMMA NewestAreMessages ==
  ASSUME NEW s \in Slot, GoodSlot(s), NEW n \in 0..s.count
  PROVE  /\ Newest(s, n) \in Seq(Messages) /\ Len(Newest(s, n)) = n
         /\ \A i \in 1..n : Newest(s, n)[i].of = s.user_id
  <1>1. /\ s.head \in Ring /\ s.count \in 0..MaxMsgs /\ n \in 0..MaxMsgs
        /\ MaxMsgs \in Nat \ {0}
    BY SessionAssumption DEF Slot
  <1>2. ASSUME NEW i \in 1..n
        PROVE  Place(s, n, i) \in Ring /\ Place(s, n, i) < s.count
    BY <1>1, <1>2 DEF GoodSlot, Ring, Place
  <1>3. \A i \in 1..n : Newest(s, n)[i] \in Messages /\ Newest(s, n)[i].of = s.user_id
    BY <1>1, <1>2, NewestEntry DEF GoodSlot
  <1>4. DOMAIN Newest(s, n) = 1..n /\ Newest(s, n) = [i \in 1..n |-> Newest(s, n)[i]]
    BY DEF Newest
  <1>5. Newest(s, n) \in Seq(Messages) /\ Len(Newest(s, n)) = n
    BY <1>1, <1>3, <1>4, IsASeq
  <1> QED BY <1>3, <1>5

(* The heart of the refinement: writing into the ring is appending to the  *)
(* list and dropping what is too old.                                      *)
LEMMA RingKeepsTheLast ==
  ASSUME NEW s \in Slot, GoodSlot(s), s.in_use, NEW m \in Messages, m.of = s.user_id
  PROVE  Newest(Written(s, m), Written(s, m).count)
            = Store!LastOf(Append(Newest(s, s.count), m), MaxMsgs)
  <1> DEFINE w == Written(s, m)
             old == Newest(s, s.count)
             new == Newest(w, w.count)
             all == Append(old, m)
  <1>1. /\ s.head \in Ring /\ s.count \in 0..MaxMsgs /\ s.msgs \in [Ring -> Messages \cup {Blank}]
        /\ MaxMsgs \in Nat \ {0} /\ (s.count < MaxMsgs => s.head = s.count)
    BY SessionAssumption DEF Slot, GoodSlot
  <1>2. /\ w.msgs = [s.msgs EXCEPT ![s.head] = m]
        /\ w.head = (s.head + 1) % MaxMsgs
        /\ w.count = IF s.count < MaxMsgs THEN s.count + 1 ELSE s.count
    BY DEF Written, Updated
  <1>3. w \in Slot /\ GoodSlot(w)
    BY WrittenSlot
  <1>4. /\ old \in Seq(Messages) /\ Len(old) = s.count
        /\ new \in Seq(Messages) /\ Len(new) = w.count
    BY <1>1, <1>3, NewestAreMessages DEF Slot
  <1> HIDE DEF w
  <1>5. w.head = IF s.head + 1 < MaxMsgs THEN s.head + 1 ELSE s.head + 1 - MaxMsgs
    BY <1>1, <1>2, WrapOnce DEF Ring
  <1>6. \A i \in 1..s.count : old[i] = s.msgs[Place(s, s.count, i)]
    BY <1>1, NewestEntry
  <1>7. w.head \in Ring /\ w.count \in 0..MaxMsgs
    BY <1>3 DEF Slot
  <1>8. \A i \in 1..w.count : new[i] = w.msgs[Place(w, w.count, i)]
    BY <1>7, NewestEntry
  <1> HIDE DEF old, new
  <1>9. /\ all \in Seq(Messages) /\ Len(all) = s.count + 1
        /\ \A i \in 1..(s.count + 1) : all[i] = IF i = s.count + 1 THEN m ELSE old[i]
    BY <1>1, <1>4
  <1> HIDE DEF all
  <1>10. \A k \in Ring : w.msgs[k] = IF k = s.head THEN m ELSE s.msgs[k]
    BY <1>1, <1>2
  <1>11. CASE s.count < MaxMsgs
    <2>1. w.count = s.count + 1 /\ s.head = s.count
      BY <1>1, <1>2, <1>11
    <2>2. ASSUME NEW i \in 1..w.count
          PROVE  Place(w, w.count, i) = i - 1 /\ i - 1 \in Ring
      BY <1>1, <1>5, <1>11, <2>1 DEF Place, Ring
    <2>3. ASSUME NEW i \in 1..s.count
          PROVE  Place(s, s.count, i) = i - 1
      BY <1>1, <2>1 DEF Place, Ring
    <2>4. ASSUME NEW i \in 1..w.count PROVE new[i] = all[i]
      <3>1. new[i] = w.msgs[i - 1] /\ i - 1 \in Ring
        BY <1>8, <2>2
      <3>2. CASE i = s.count + 1
        BY <1>1, <1>9, <1>10, <2>1, <3>1, <3>2
      <3>3. CASE i \in 1..s.count
        <4>1. all[i] = s.msgs[i - 1]
          BY <1>1, <1>6, <1>9, <2>3, <3>3
        <4> QED BY <1>1, <1>10, <2>1, <3>1, <3>3, <4>1
      <3> QED BY <1>1, <2>1, <3>2, <3>3
    <2>5. new = all
      BY <1>4, <1>9, <2>1, <2>4, SeqEqual
    <2>6. Len(all) <= MaxMsgs
      BY <1>1, <1>9, <1>11
    <2> QED BY <2>5, <2>6 DEF Store!LastOf, all, old, new, w
  <1>12. CASE s.count = MaxMsgs
    <2> DEFINE last == SubSeq(all, Len(all) - MaxMsgs + 1, Len(all))
    <2>1. w.count = MaxMsgs /\ Len(all) = MaxMsgs + 1
      BY <1>1, <1>2, <1>9, <1>12
    <2>2. last \in Seq(Messages) /\ Len(last) = MaxMsgs
          /\ \A i \in 1..MaxMsgs : last[i] = all[i + 1]
      <3>1. last = SubSeq(all, 2, MaxMsgs + 1)
        BY <1>1, <2>1
      <3>2. 2 \in 1..(Len(all) + 1) /\ MaxMsgs + 1 \in 1..Len(all)
        BY <1>1, <2>1
      <3> HIDE DEF last
      <3> QED BY <1>1, <1>9, <2>1, <3>1, <3>2, SubSeqProperties
    <2> HIDE DEF last
    <2>3. ASSUME NEW i \in 1..MaxMsgs PROVE new[i] = last[i]
      <3> DEFINE k == Place(w, w.count, i)
      <3>1. k \in Ring /\ (k = s.head <=> i = MaxMsgs)
        <4>1. k = IF w.head + i - 1 < MaxMsgs THEN w.head + i - 1 ELSE w.head + i - 1 - MaxMsgs
          BY <1>1, <1>7, <2>1 DEF Place, Ring
        <4> HIDE DEF k
        <4> QED BY <1>1, <1>5, <1>7, <4>1 DEF Ring
      <3>2. ASSUME i # MaxMsgs
            PROVE  i + 1 \in 1..s.count /\ k = Place(s, s.count, i + 1)
        <4>1. i + 1 \in 1..s.count
          BY <1>1, <1>12, <3>2
        <4>2. k = IF w.head + i - 1 < MaxMsgs THEN w.head + i - 1 ELSE w.head + i - 1 - MaxMsgs
          BY <1>1, <1>7, <2>1 DEF Place, Ring
        <4>3. Place(s, s.count, i + 1)
                = IF s.head + i < MaxMsgs THEN s.head + i ELSE s.head + i - MaxMsgs
          BY <1>1, <1>12 DEF Place, Ring
        <4> HIDE DEF k
        <4>4. s.head \in 0..(MaxMsgs - 1) /\ i \in 1..(MaxMsgs - 1) /\ MaxMsgs \in Nat
          BY <1>1, <3>2 DEF Ring
        <4>5. k = IF s.head + i < MaxMsgs THEN s.head + i ELSE s.head + i - MaxMsgs
          <5>1. CASE s.head + 1 < MaxMsgs
            BY <1>5, <4>2, <4>4, <5>1
          <5>2. CASE ~ (s.head + 1 < MaxMsgs)
            <6>1. s.head + 1 = MaxMsgs /\ w.head = 0
              BY <1>5, <4>4, <5>2
            <6> QED BY <4>2, <4>4, <6>1
          <5> QED BY <5>1, <5>2
        <4> QED BY <4>1, <4>3, <4>5
      <3>3. new[i] = w.msgs[k]
        BY <1>8, <2>1
      <3> HIDE DEF k
      <3>4. CASE i = MaxMsgs
        BY <1>1, <1>9, <1>10, <1>12, <2>2, <3>1, <3>3, <3>4
      <3>5. CASE i # MaxMsgs
        <4>1. last[i] = old[i + 1]
          BY <1>1, <1>9, <1>12, <2>2, <3>5
        <4> QED BY <1>6, <1>10, <3>1, <3>2, <3>3, <3>5, <4>1
      <3> QED BY <3>4, <3>5
    <2>4. new = last
      BY <1>4, <2>1, <2>2, <2>3, SeqEqual
    <2>5. ~ (Len(all) <= MaxMsgs)
      BY <1>1, <2>1
    <2> QED BY <2>4, <2>5 DEF Store!LastOf, last, all, old, new, w
  <1> QED BY <1>1, <1>11, <1>12
----------------------------------------------------------------------------
(* The turn. *)

(* What holds of a turn between two steps: its locals are set while it     *)
(* lasts, a tool round is only entered below the limit, and the            *)
(* conversation exists only while the model is called and is the user's    *)
(* throughout.                                                             *)
TurnInv ==
    /\ TypeOK /\ SessionInv
    /\ pc # "idle" => question \in Texts
    /\ pc \in {"save user", "save assistant", "due", "summarise"} => response \in Texts
    /\ pc = "tools" => iteration < MaxIter
    /\ pc \notin {"ask", "tools", "summarise"} => messages = <<>>
    /\ NoOtherUsersWords

LEMMA HistoryIsTheUsers ==
  ASSUME SessionInv, NEW u \in Users, NEW limit \in Nat
  PROVE  /\ HistoryOf(u, limit) \in Seq(Messages)
         /\ \A i \in 1..Len(HistoryOf(u, limit)) : HistoryOf(u, limit)[i].of = u
  <1>1. CASE Mine(u) = {}
    <2>1. HistoryOf(u, limit) = <<>>
      BY <1>1 DEF HistoryOf
    <2>2. Len(HistoryOf(u, limit)) = 0
      BY <2>1
    <2> QED BY <2>1, <2>2
  <1>2. CASE Mine(u) # {}
    <2> DEFINE s == sessions[First(Mine(u))]
               n == IF limit > 0 /\ limit < s.count THEN limit ELSE s.count
    <2>1. s \in Slot /\ GoodSlot(s) /\ s.user_id = u
      BY <1>2, MineAndFree DEF SessionInv, SessionTypeOK, Mine
    <2>2. HistoryOf(u, limit) = Newest(s, n)
      BY <1>2 DEF HistoryOf
    <2> HIDE DEF s
    <2>3. n \in 0..s.count
      BY <2>1 DEF Slot
    <2> HIDE DEF n
    <2> QED BY <2>1, <2>2, <2>3, NewestAreMessages
  <1> QED BY <1>1, <1>2

LEMMA SaveKeepsSessions ==
  ASSUME SessionInv, user \in Users, NEW m \in Messages, m.of = user, Save(m)
  PROVE  SessionInv'
  BY AppendKeepsSessions DEF Save

LEMMA NoConversation ==
  ASSUME NEW c, c = <<>>
  PROVE  c \in Seq(Messages \cup ToolMessages) /\ 1..Len(c) = {}
  OBVIOUS

LEMMA InitTurn == Init => TurnInv
  <1> SUFFICES ASSUME Init PROVE TurnInv
    OBVIOUS
  <1>1. SessionInv
    BY SessionsStartGood DEF Init
  <1>2. /\ 0 \in 0..MaxIter /\ 0 \in 0..MaxCalls
    BY TurnAssumption
  <1>3. messages \in Seq(Messages \cup ToolMessages) /\ NoOtherUsersWords
    BY NoConversation DEF Init, NoOtherUsersWords
  <1>4. TypeOK
    BY <1>1, <1>2, <1>3 DEF Init, TypeOK, SessionInv
  <1> QED BY <1>1, <1>3, <1>4 DEF Init, TurnInv

LEMMA ToolRoundTyped ==
  ASSUME NEW n \in 0..MaxCalls, user \in Users
  PROVE  /\ ToolUse(n) \in ToolMessages /\ ToolResult(n) \in ToolMessages
         /\ ToolUse(n).of = user /\ ToolResult(n).of = user
  BY DEF ToolUse, ToolResult, ToolMessages

LEMMA SaidTyped ==
  ASSUME user \in Users, NEW role \in {"user", "assistant"}, NEW text \in Texts
  PROVE  Said(role, text) \in Messages /\ Said(role, text).of = user
  BY DEF Said, Messages

(* The conversation of a turn when it is read and when tools have run. *)
LEMMA ConversationStarts ==
  ASSUME TurnInv, ReadHistory
  PROVE  /\ messages' \in Seq(Messages \cup ToolMessages)
         /\ \A i \in 1..Len(messages') : messages'[i].of = user
  <1>1. user \in Users /\ question \in Texts
    BY DEF TurnInv, TypeOK, ReadHistory
  <1>2. Limit \in Nat
    BY TurnAssumption DEF Limit
  <1>3. PICK h \in {HistoryOf(user, Limit), <<>>} : messages' = Append(h, Said("user", question))
    BY DEF ReadHistory
  <1>4. h \in Seq(Messages) /\ \A i \in 1..Len(h) : h[i].of = user
    <2>1. CASE h = HistoryOf(user, Limit)
      BY <1>1, <1>2, <2>1, HistoryIsTheUsers DEF TurnInv
    <2>2. CASE h = <<>>
      BY <2>2
    <2> QED BY <2>1, <2>2
  <1>5. Said("user", question) \in Messages /\ Said("user", question).of = user
    BY <1>1, SaidTyped
  <1>6. h \in Seq(Messages \cup ToolMessages)
    BY <1>4
  <1> QED BY <1>3, <1>4, <1>5, <1>6

LEMMA ConversationGrows ==
  ASSUME TurnInv, RunTools
  PROVE  /\ messages' \in Seq(Messages \cup ToolMessages)
         /\ \A i \in 1..Len(messages') : messages'[i].of = user
  <1> DEFINE round == <<ToolUse(calls), ToolResult(calls)>>
  <1>1. user \in Users /\ calls \in 0..MaxCalls /\ messages \in Seq(Messages \cup ToolMessages)
    BY DEF TurnInv, TypeOK, RunTools
  <1>2. /\ ToolUse(calls) \in ToolMessages /\ ToolResult(calls) \in ToolMessages
        /\ ToolUse(calls).of = user /\ ToolResult(calls).of = user
    BY <1>1, ToolRoundTyped
  <1>3. /\ round \in Seq(Messages \cup ToolMessages) /\ Len(round) = 2
        /\ round[1].of = user /\ round[2].of = user
    BY <1>2
  <1>4. messages' = messages \o round
    BY DEF RunTools
  <1> HIDE DEF round
  <1>5. messages' \in Seq(Messages \cup ToolMessages) /\ Len(messages') = Len(messages) + 2
    <2> DEFINE S == Messages \cup ToolMessages
    <2>1. messages \in Seq(S) /\ round \in Seq(S)
      BY <1>1, <1>3
    <2> HIDE DEF S
    <2>2. messages \o round \in Seq(S) /\ Len(messages \o round) = Len(messages) + Len(round)
      BY <2>1, ConcatProperties
    <2> QED BY <1>3, <1>4, <2>2 DEF S
  <1>6. ASSUME NEW i \in 1..Len(messages') PROVE messages'[i].of = user
    <2>1. CASE i \in 1..Len(messages)
      <3>1. messages'[i] = messages[i]
        BY <1>1, <1>3, <1>4, <2>1
      <3> QED BY <2>1, <3>1 DEF TurnInv, NoOtherUsersWords
    <2>2. CASE i = Len(messages) + 1
      BY <1>1, <1>3, <1>4, <2>2
    <2>3. CASE i = Len(messages) + 2
      BY <1>1, <1>3, <1>4, <2>3
    <2>4. Len(messages) \in Nat
      BY <1>1
    <2> QED BY <1>5, <2>1, <2>2, <2>3, <2>4
  <1> QED BY <1>5, <1>6

LEMMA StepTurn == TurnInv /\ [Next]_vars => TurnInv'
  <1> SUFFICES ASSUME TurnInv, [Next]_vars PROVE TurnInv'
    OBVIOUS
  <1> USE DEF TypeOK
  <1> DEFINE Words == messages \in Seq(Messages \cup ToolMessages) /\ NoOtherUsersWords
  <1>0. /\ Blank \notin Users /\ Blank \notin Texts /\ Apology \in Texts
        /\ 0 \in 0..MaxIter /\ 0 \in 0..MaxCalls
    BY SessionAssumption, TurnAssumption
  <1>1. UNCHANGED sessions => SessionInv'
    BY DEF TurnInv, SessionInv, SessionTypeOK, OneSlotEach
  <1>2. SessionInv' => SessionTypeOK'
    BY DEF SessionInv
  <1>3. messages' = <<>> => Words'
    BY NoConversation DEF NoOtherUsersWords
  <1>4. UNCHANGED <<messages, user>> => Words'
    BY DEF TurnInv, NoOtherUsersWords
  <1>5. Words' => messages' \in Seq(Messages \cup ToolMessages) /\ NoOtherUsersWords'
    OBVIOUS
  <1> HIDE DEF Words
  <1>6. ASSUME NEW u \in Users, NEW q \in Texts \ {Apology}, NEW cf \in BOOLEAN, Begin(u, q, cf)
        PROVE  TurnInv'
    BY <1>0, <1>1, <1>2, <1>3, <1>5, <1>6 DEF Begin, TurnInv
  <1>7. CASE ReadHistory
    <2>1. Words'
      BY <1>7, ConversationStarts DEF ReadHistory, NoOtherUsersWords, Words
    <2> QED BY <1>0, <1>1, <1>2, <1>5, <1>7, <2>1 DEF ReadHistory, TurnInv
  <1>8. CASE ModelAnswers
    BY <1>0, <1>1, <1>2, <1>3, <1>5, <1>8 DEF ModelAnswers, EndLoop, TurnInv
  <1>9. CASE ModelAsksForTools
    BY <1>0, <1>1, <1>2, <1>4, <1>5, <1>9 DEF ModelAsksForTools, TurnInv
  <1>10. CASE RunTools
    <2>1. Words'
      BY <1>10, ConversationGrows DEF RunTools, NoOtherUsersWords, Words
    <2>2. iteration' \in 0..MaxIter
      BY <1>10, TurnAssumption DEF RunTools, TurnInv
    <2> QED BY <1>0, <1>1, <1>2, <1>5, <1>10, <2>1, <2>2 DEF RunTools, TurnInv
  <1>11. CASE GiveUp
    BY <1>0, <1>1, <1>2, <1>3, <1>5, <1>11 DEF GiveUp, EndLoop, TurnInv
  <1>12. CASE SaveQuestion
    <2>1. SessionInv'
      BY <1>12, SaidTyped, SaveKeepsSessions DEF SaveQuestion, TurnInv
    <2> QED BY <1>0, <1>2, <1>4, <1>5, <1>12, <2>1 DEF SaveQuestion, TurnInv
  <1>13. CASE SaveAnswer
    <2>1. SessionInv'
      BY <1>0, <1>13, SaidTyped, SaveKeepsSessions DEF SaveAnswer, TurnInv
    <2>2. messages' = <<>>
      BY <1>13 DEF SaveAnswer, TurnEnds, TurnInv
    <2> QED BY <1>0, <1>2, <1>3, <1>5, <1>13, <2>1, <2>2 DEF SaveAnswer, TurnEnds, TurnInv
  <1>14. ASSUME NEW u \in Users, CliClear(u) PROVE TurnInv'
    <2>1. SessionInv'
      BY <1>14, ClearKeepsSessions DEF CliClear, TurnInv
    <2> QED BY <1>2, <1>4, <1>5, <1>14, <2>1 DEF CliClear, turnVars, TurnInv
  <1>15. CASE UNCHANGED vars
    BY <1>1, <1>2, <1>4, <1>5, <1>15 DEF vars, turnVars, TurnInv
  <1>16. CASE ReadForSummary
    <2>1. CASE TurnEnds
      BY <1>0, <1>1, <1>2, <1>3, <1>5, <1>16, <2>1 DEF ReadForSummary, TurnEnds, TurnInv
    <2>2. CASE pc' = "summarise"
      <3>1. user \in Users /\ 0 \in Nat
        BY <1>16 DEF ReadForSummary, TurnInv
      <3>2. PICK h \in {HistoryOf(user, 0), <<>>} : messages' = h /\ user' = user
        BY <1>16, <2>2 DEF ReadForSummary, TurnEnds
      <3>3. h \in Seq(Messages) /\ \A i \in 1..Len(h) : h[i].of = user
        <4>1. CASE h = HistoryOf(user, 0)
          BY <3>1, <4>1, HistoryIsTheUsers DEF TurnInv
        <4>2. CASE h = <<>>
          BY <4>2
        <4> QED BY <4>1, <4>2
      <3>4. Words'
        BY <3>2, <3>3 DEF Words, NoOtherUsersWords
      <3> QED BY <1>0, <1>1, <1>2, <1>5, <1>16, <2>2, <3>4 DEF ReadForSummary, TurnEnds, TurnInv
    <2> QED BY <1>16, <2>1, <2>2 DEF ReadForSummary
  <1>17. CASE Summarise
    BY <1>0, <1>1, <1>2, <1>3, <1>5, <1>17 DEF Summarise, TurnEnds, TurnInv
  <1> QED
    BY <1>6, <1>7, <1>8, <1>9, <1>10, <1>11, <1>12, <1>13, <1>14, <1>15, <1>16, <1>17
    DEF Next, Calls, Rest

LEMMA TurnAlways == Spec => []TurnInv
  BY InitTurn, StepTurn, PTL DEF Spec

(* Every variable keeps its type: the ring indices and counts stay within  *)
(* the ring, the loop within its limits.                                   *)
THEOREM TurnTypeCorrect == Spec => []TypeOK
  <1>1. TurnInv => TypeOK
    BY DEF TurnInv
  <1> QED BY TurnAlways, <1>1, PTL

(* No user ever has two slots. *)
THEOREM EachUserHasOneSlot == Spec => []OneSlotEach
  <1>1. TurnInv => OneSlotEach
    BY DEF TurnInv, SessionInv
  <1> QED BY TurnAlways, <1>1, PTL

(* The model is never sent, in one user's turn, what another user said or  *)
(* was told.                                                               *)
THEOREM ConversationsStayApart == Spec => []NoOtherUsersWords
  <1>1. TurnInv => NoOtherUsersWords
    BY DEF TurnInv
  <1> QED BY TurnAlways, <1>1, PTL
----------------------------------------------------------------------------
(* The store implements BoundedHistory. *)

Known   == {u \in Users : Mine(u) # {}}
History == [u \in Users |-> HistoryOf(u, 0)]

(* A user's history is read from the one slot that is the user's.          *)
HistoryIsIn(u, i) == i \in Mine(u) => HistoryOf(u, 0) = Newest(sessions[i], sessions[i].count)
HistoryIsRead == SessionInv => \A u \in Users :
                    /\ \A i \in Slots : HistoryIsIn(u, i)
                    /\ Mine(u) = {} => HistoryOf(u, 0) = <<>>

LEMMA HistoryRead == HistoryIsRead
  <1> SUFFICES ASSUME SessionInv, NEW u \in Users
               PROVE  /\ \A i \in Slots : HistoryIsIn(u, i)
                      /\ Mine(u) = {} => HistoryOf(u, 0) = <<>>
    BY DEF HistoryIsRead
  <1>1. ASSUME NEW i \in Slots, i \in Mine(u) PROVE First(Mine(u)) = i
    <2>1. First(Mine(u)) \in Mine(u)
      BY <1>1, MineAndFree DEF SessionInv
    <2> QED BY <1>1, <2>1 DEF SessionInv, OneSlotEach, Mine
  <1>2. ASSUME Mine(u) = {} PROVE HistoryOf(u, 0) = <<>>
    BY <1>2 DEF HistoryOf
  <1> QED BY <1>1, <1>2 DEF HistoryOf, HistoryIsIn

LEMMA NothingIsEmpty ==
  ASSUME NEW s
  PROVE  Newest(s, 0) = <<>>
  BY DEF Newest

(* A user without a slot finds a free one only while fewer than MaxUsers   *)
(* users have a slot.                                                      *)
LEMMA FreeSlotMeansRoom ==
  ASSUME SessionInv, Free # {}
  PROVE  Cardinality(Known) < MaxUsers
  <1> DEFINE Used == Slots \ {First(Free)}
             place == [u \in Known |-> First(Mine(u))]
  <1>1. First(Free) \in Slots /\ ~sessions[First(Free)].in_use
    BY MineAndFree DEF SessionInv, Free
  <1>2. IsFiniteSet(Used) /\ Cardinality(Used) = MaxUsers - 1
    <2>1. IsFiniteSet(Slots) /\ Cardinality(Slots) = MaxUsers
      BY FS_Interval, SessionAssumption DEF Slots
    <2> QED BY <1>1, <2>1, FS_RemoveElement
  <1>3. \A u \in Known : First(Mine(u)) \in Mine(u) /\ Mine(u) \in SUBSET Slots
    BY MineAndFree DEF SessionInv, Known
  <1>4. place \in [Known -> Used]
    BY <1>1, <1>3 DEF Mine
  <1>5. ASSUME NEW u \in Known, NEW v \in Known, place[u] = place[v] PROVE u = v
    BY <1>3, <1>5 DEF Mine
  <1>6. place \in Injection(Known, Used)
    BY <1>4, <1>5 DEF Injection, IsInjective
  <1> HIDE DEF Used, place
  <1>7. IsFiniteSet(Known) /\ Cardinality(Known) <= Cardinality(Used)
    BY <1>2, <1>6, FS_Injection
  <1>8. Cardinality(Known) \in Nat
    BY <1>7, FS_CardinalityType
  <1> QED BY <1>2, <1>7, <1>8, SessionAssumption

LEMMA SameCardinality ==
  ASSUME NEW S
  PROVE  Store!Cardinality(S) = Cardinality(S)
  BY DEF Store!Cardinality, Cardinality

LEMMA AppendIsRecord ==
  ASSUME SessionInv, SessionInv', HistoryIsRead', NEW u \in Users, NEW m \in Messages, m.of = u,
         SessionAppend(u, m)
  PROVE  Store!Record(u, m)
  <1> DEFINE f == FindOrAlloc(u)
             w == Written(f.slot, m)
  <1>1. /\ f.at \in Slots /\ f.slot \in Slot /\ GoodSlot(f.slot) /\ f.slot.in_use
        /\ f.slot.user_id = u /\ \A i \in Slots \ {f.at} : i \notin Mine(u)
    BY FoundSlot DEF SessionAppend
  <1>2. w.in_use /\ w.user_id = u
    BY <1>1, WrittenSlot
  <1>3. Newest(w, w.count) = Store!LastOf(Append(Newest(f.slot, f.slot.count), m), MaxMsgs)
    BY <1>1, RingKeepsTheLast
  <1>4. sessions' = [sessions EXCEPT ![f.at] = w]
    BY DEF SessionAppend
  <1>5. HistoryOf(u, 0) = Newest(f.slot, f.slot.count)
    <2>1. CASE Mine(u) # {}
      <3>1. f.at \in Mine(u) /\ f.slot = sessions[f.at]
        BY <2>1, MineAndFree DEF FindOrAlloc, SessionInv
      <3> HIDE DEF f
      <3> QED BY <1>1, <3>1, HistoryRead DEF HistoryIsRead, HistoryIsIn
    <2>2. CASE Mine(u) = {}
      <3>1. f.slot.count = 0
        BY <2>2 DEF FindOrAlloc, EmptySlot
      <3> HIDE DEF f
      <3> QED BY <2>2, <3>1, NothingIsEmpty, HistoryRead DEF HistoryIsRead
    <2> QED BY <2>1, <2>2
  <1>6. u \in Known \/ Cardinality(Known) < MaxUsers
    BY FreeSlotMeansRoom DEF SessionAppend, HasSlot, Known
  <1>7. f.at \in Mine(u) \/ f.at \in Free
    BY MineAndFree DEF FindOrAlloc, SessionAppend, HasSlot, SessionInv
  <1> HIDE DEF f, w
  <1>8. \A i \in Slots : sessions'[i] = IF i = f.at THEN w ELSE sessions[i]
    BY <1>1, <1>4 DEF SessionInv, SessionTypeOK
  <1>9. f.at \in Mine(u)' /\ Mine(u)' # {}
    BY <1>1, <1>2, <1>8 DEF Mine
  <1>10. HistoryOf(u, 0)' = Store!LastOf(Append(HistoryOf(u, 0), m), MaxMsgs)
    <2>1. HistoryOf(u, 0)' = Newest(sessions'[f.at], sessions'[f.at].count)
      BY <1>1, <1>9 DEF HistoryIsRead, HistoryIsIn
    <2> QED BY <1>1, <1>3, <1>5, <1>8, <2>1
  <1>11. ASSUME NEW v \in Users, v # u
         PROVE  Mine(v)' = Mine(v) /\ HistoryOf(v, 0)' = HistoryOf(v, 0)
    <2>1. f.at \notin Mine(v)
      BY <1>7, <1>11 DEF Mine, Free
    <2>2. f.at \notin Mine(v)'
      BY <1>1, <1>2, <1>8, <1>11 DEF Mine
    <2>3. Mine(v)' = Mine(v)
      BY <1>8, <2>1, <2>2 DEF Mine
    <2>4. CASE Mine(v) = {}
      BY <2>3, <2>4, HistoryRead DEF HistoryIsRead
    <2>5. CASE Mine(v) # {}
      <3>1. PICK i \in Slots : i \in Mine(v)
        BY <2>5 DEF Mine
      <3>2. sessions'[i] = sessions[i] /\ i \in Mine(v)'
        BY <1>8, <2>1, <2>3, <3>1
      <3>3. HistoryOf(v, 0) = Newest(sessions[i], sessions[i].count)
        BY <3>1, HistoryRead DEF HistoryIsRead, HistoryIsIn
      <3>4. HistoryOf(v, 0)' = Newest(sessions'[i], sessions'[i].count)
        BY <3>2 DEF HistoryIsRead, HistoryIsIn
      <3> QED BY <2>3, <3>2, <3>3, <3>4
    <2> QED BY <2>3, <2>4, <2>5
  <1>12. Known' = Known \cup {u}
    BY <1>9, <1>11 DEF Known
  <1>13. History' = [History EXCEPT ![u] = Store!LastOf(Append(History[u], m), MaxMsgs)]
    BY <1>10, <1>11 DEF History
  <1> QED BY <1>6, <1>12, <1>13, SameCardinality DEF Store!Record, Known, History

LEMMA ClearIsForget ==
  ASSUME SessionInv, SessionInv', HistoryIsRead', NEW u \in Users, SessionClear(u)
  PROVE  Store!Forget(u)
  <1>1. Mine(u)' = {}
    <2>1. CASE Mine(u) = {}
      BY <2>1 DEF SessionClear, Mine
    <2>2. CASE Mine(u) # {}
      <3> DEFINE c == First(Mine(u))
      <3>1. /\ c \in Slots /\ c \in Mine(u) /\ sessions' = [sessions EXCEPT ![c] = Zeroed]
        BY <2>2, MineAndFree DEF SessionClear, SessionInv
      <3>2. Zeroed.in_use = FALSE
        BY EmptySlotIsGood DEF Zeroed
      <3> HIDE DEF c
      <3>3. \A i \in Slots : sessions'[i] = IF i = c THEN Zeroed ELSE sessions[i]
        BY <3>1 DEF SessionInv, SessionTypeOK
      <3> QED BY <3>1, <3>2, <3>3 DEF SessionInv, OneSlotEach, Mine
    <2> QED BY <2>1, <2>2
  <1>2. HistoryOf(u, 0)' = <<>>
    BY <1>1 DEF HistoryIsRead
  <1>3. ASSUME NEW v \in Users, v # u
        PROVE  Mine(v)' = Mine(v) /\ HistoryOf(v, 0)' = HistoryOf(v, 0)
    <2>1. CASE Mine(u) = {}
      BY <2>1 DEF SessionClear, Mine, HistoryOf
    <2>2. CASE Mine(u) # {}
      <3> DEFINE c == First(Mine(u))
      <3>1. /\ c \in Slots /\ c \in Mine(u) /\ sessions' = [sessions EXCEPT ![c] = Zeroed]
        BY <2>2, MineAndFree DEF SessionClear, SessionInv
      <3>2. Zeroed.in_use = FALSE
        BY EmptySlotIsGood DEF Zeroed
      <3> HIDE DEF c
      <3>3. \A i \in Slots : sessions'[i] = IF i = c THEN Zeroed ELSE sessions[i]
        BY <3>1 DEF SessionInv, SessionTypeOK
      <3>4. c \notin Mine(v)
        BY <1>3, <3>1 DEF Mine
      <3>5. Mine(v)' = Mine(v)
        BY <3>2, <3>3, <3>4 DEF Mine
      <3>6. CASE Mine(v) = {}
        BY <3>5, <3>6, HistoryRead DEF HistoryIsRead
      <3>7. CASE Mine(v) # {}
        <4>1. PICK i \in Slots : i \in Mine(v)
          BY <3>7 DEF Mine
        <4>2. sessions'[i] = sessions[i] /\ i \in Mine(v)'
          BY <3>3, <3>4, <3>5, <4>1
        <4>3. HistoryOf(v, 0) = Newest(sessions[i], sessions[i].count)
          BY <4>1, HistoryRead DEF HistoryIsRead, HistoryIsIn
        <4>4. HistoryOf(v, 0)' = Newest(sessions'[i], sessions'[i].count)
          BY <4>2 DEF HistoryIsRead, HistoryIsIn
        <4> QED BY <3>5, <4>2, <4>3, <4>4
      <3> QED BY <3>5, <3>6, <3>7
    <2> QED BY <2>1, <2>2
  <1>4. Known' = Known \ {u}
    BY <1>1, <1>3 DEF Known
  <1>5. History' = [History EXCEPT ![u] = <<>>]
    BY <1>2, <1>3 DEF History
  <1> QED BY <1>4, <1>5 DEF Store!Forget, Known, History

LEMMA QuietSteps ==
  ASSUME UNCHANGED sessions
  PROVE  UNCHANGED <<Known, History>>
  <1>1. \A u \in Users : Mine(u)' = Mine(u)
    BY DEF Mine
  <1>2. \A u \in Users : HistoryOf(u, 0)' = HistoryOf(u, 0)
    BY <1>1 DEF HistoryOf
  <1> QED BY <1>1, <1>2 DEF Known, History

LEMMA StartsEmpty == Init => Store!HInit
  <1> SUFFICES ASSUME Init PROVE Store!HInit
    OBVIOUS
  <1>1. SessionInv
    BY SessionsStartGood DEF Init
  <1>2. \A u \in Users : Mine(u) = {}
    BY DEF Init, SessionInit, Zeroed, EmptySlot, Mine
  <1>3. \A u \in Users : HistoryOf(u, 0) = <<>>
    BY <1>2 DEF HistoryOf
  <1> QED BY <1>2, <1>3 DEF Store!HInit

LEMMA SaveIsRecord ==
  ASSUME TurnInv, TurnInv', HistoryIsRead', user \in Users, NEW m \in Messages, m.of = user, Save(m)
  PROVE  Store!HNext \/ UNCHANGED <<Known, History>>
  <1>1. CASE SessionAppend(user, m)
    <2>1. Store!Record(user, m)
      BY <1>1, AppendIsRecord DEF TurnInv
    <2> QED BY <2>1 DEF Store!HNext
  <1>2. CASE SessionAppendFails(user)
    BY <1>2, QuietSteps DEF SessionAppendFails
  <1> QED BY <1>1, <1>2 DEF Save

LEMMA StepIsHistoryStep ==
  ASSUME TurnInv, TurnInv', HistoryIsRead', [Next]_vars
  PROVE  Store!HNext \/ UNCHANGED <<Known, History>>
  <1>1. ASSUME NEW u \in Users, CliClear(u)
        PROVE  Store!HNext
    <2>1. Store!Forget(u)
      BY <1>1, ClearIsForget DEF CliClear, TurnInv
    <2> QED BY <2>1 DEF Store!HNext
  <1>2. CASE SaveQuestion
    <2>1. user \in Users /\ question \in Texts
      BY <1>2 DEF SaveQuestion, TurnInv, TypeOK
    <2> QED BY <1>2, <2>1, SaidTyped, SaveIsRecord DEF SaveQuestion
  <1>3. CASE SaveAnswer
    <2>1. user \in Users /\ response \in Texts
      BY <1>3 DEF SaveAnswer, TurnInv, TypeOK
    <2> QED BY <1>3, <2>1, SaidTyped, SaveIsRecord DEF SaveAnswer
  <1>4. \/ UNCHANGED sessions \/ SaveQuestion \/ SaveAnswer
        \/ \E u \in Users : CliClear(u)
    BY DEF Next, Calls, Rest, Begin, ReadHistory, ModelAnswers, ModelAsksForTools, RunTools, GiveUp,
           EndLoop, ReadForSummary, Summarise, vars
  <1> QED BY <1>1, <1>2, <1>3, <1>4, QuietSteps

(* The table of rings keeps, for each of at most MaxUsers users, exactly   *)
(* the last MaxMsgs messages in order: through wrap-around, clears and     *)
(* slots that change hands.                                                *)
THEOREM StoreKeepsTheLast == Spec => KeepsLastMessages
  <1>1. TurnInv /\ TurnInv' /\ HistoryIsRead' /\ [Next]_vars => [Store!HNext]_(Store!hvars)
    BY StepIsHistoryStep DEF Store!hvars, Known, History
  <1> QED BY StartsEmpty, HistoryRead, TurnAlways, <1>1, PTL DEF Spec, KeepsLastMessages, Store!Spec
----------------------------------------------------------------------------
(* What the model is sent. *)

Speaks(s, role) == s = <<>> \/ s[Len(s)].role = role

(* Every stored conversation alternates, and the assistant had the last    *)
(* word, except of the user whose answer is about to be stored.            *)
StoreAlternates ==
    \A u \in Users :
        /\ Alternates(HistoryOf(u, 0))
        /\ Speaks(HistoryOf(u, 0), IF pc = "save assistant" /\ u = user THEN "user" ELSE "assistant")

(* The conversation of the loop, which is well formed while tools run too. *)
Answered(c) ==
    \A i \in 1..Len(c) : "tool_use" \in DOMAIN c[i] =>
        /\ "tool_result" \in DOMAIN c[i + 1]
        /\ c[i + 1].tool_result = c[i].tool_use

Conversation(c) == Alternates(c) /\ c # <<>> /\ Speaks(c, "user") /\ Answered(c)

(* A history ends with the answer that was stored last, unless it was      *)
(* cleared or never stored.                                                *)
EndsWith(s, m) == s = <<>> \/ s[Len(s)] = m

Heard ==
    /\ pc \in {"ask", "tools"} => Conversation(messages)
    /\ pc = "due" => EndsWith(HistoryOf(user, 0), Said("assistant", response))
    /\ pc = "summarise" => Alternates(messages) /\ EndsWith(messages, Said("assistant", response))

WordsInv == TurnInv /\ StoreAlternates /\ Heard

LEMMA StoringAlternates ==
  ASSUME NEW h \in Seq(Messages), Alternates(h), NEW m \in Messages,
         h = <<>> \/ h[Len(h)].role # m.role
  PROVE  LET new == Store!LastOf(Append(h, m), MaxMsgs)
         IN  Alternates(new) /\ Speaks(new, m.role) /\ EndsWith(new, m)
  <1> DEFINE all == Append(h, m)
             new == Store!LastOf(all, MaxMsgs)
             from == Len(all) - MaxMsgs + 1
  <1>1. /\ all \in Seq(Messages) /\ Len(all) = Len(h) + 1 /\ Len(h) \in Nat
        /\ all[Len(all)] = m /\ MaxMsgs \in Nat \ {0}
    BY SessionAssumption
  <1>2. \A i \in 1..Len(h) : all[i] = h[i]
    OBVIOUS
  <1> HIDE DEF all
  <1>3. ASSUME NEW i \in 1..(Len(all) - 1) PROVE all[i].role # all[i + 1].role
    <2>1. CASE i = Len(h)
      <3>1. h # <<>>
        BY <1>1, <1>3, <2>1
      <3> QED BY <1>1, <1>2, <1>3, <2>1, <3>1
    <2>2. CASE i # Len(h)
      <3>1. i \in 1..(Len(h) - 1) /\ i + 1 \in 1..Len(h) /\ i \in 1..Len(h)
        BY <1>1, <1>3, <2>2
      <3> QED BY <1>2, <3>1 DEF Alternates
    <2> QED BY <2>1, <2>2
  <1>4. CASE Len(all) <= MaxMsgs
    <2>1. new = all
      BY <1>4 DEF Store!LastOf
    <2> HIDE DEF new
    <2> QED BY <1>1, <1>3, <2>1 DEF Alternates, Speaks, EndsWith, all, new
  <1>5. CASE ~ (Len(all) <= MaxMsgs)
    <2>1. new = SubSeq(all, from, Len(all))
      BY <1>5 DEF Store!LastOf
    <2>2. from \in Nat \ {0} /\ Len(all) - from + 1 = MaxMsgs /\ Len(all) \in Nat
      BY <1>1, <1>5
    <2> HIDE DEF new, from
    <2>3. /\ new \in Seq(Messages) /\ Len(new) = MaxMsgs
          /\ \A i \in 1..MaxMsgs : new[i] = all[from + i - 1]
      <3>1. from \in Int /\ Len(all) \in Int /\ from <= Len(all)
        BY <1>1, <2>2
      <3>2. \A i \in from..Len(all) : all[i] \in Messages
        BY <1>1, <2>2
      <3>3. /\ SubSeq(all, from, Len(all)) \in Seq(Messages)
            /\ Len(SubSeq(all, from, Len(all))) = Len(all) - from + 1
            /\ \A i \in 1..(Len(all) - from + 1) : SubSeq(all, from, Len(all))[i] = all[from + i - 1]
        BY <3>1, <3>2, SubSeqProperties
      <3> QED BY <2>1, <2>2, <3>3
    <2>4. ASSUME NEW i \in 1..(Len(new) - 1) PROVE new[i].role # new[i + 1].role
      <3>1. from + i - 1 \in 1..(Len(all) - 1) /\ from + (i + 1) - 1 = from + i - 1 + 1
        BY <1>1, <2>2, <2>3, <2>4
      <3>2. new[i] = all[from + i - 1] /\ new[i + 1] = all[from + (i + 1) - 1]
        BY <1>1, <2>3, <2>4
      <3> QED BY <1>3, <3>1, <3>2
    <2>5. new[Len(new)] = m
      BY <1>1, <2>2, <2>3
    <2> QED BY <2>4, <2>5 DEF Alternates, Speaks, EndsWith, new, all
  <1> QED BY <1>4, <1>5

(* The end of an alternating conversation alternates. *)
LEMMA NewestAlternates ==
  ASSUME NEW s \in Slot, GoodSlot(s), NEW n \in 0..s.count, s.count # 0 => n # 0,
         NEW role, Alternates(Newest(s, s.count)), Speaks(Newest(s, s.count), role)
  PROVE  Alternates(Newest(s, n)) /\ Speaks(Newest(s, n), role)
  <1> DEFINE whole == Newest(s, s.count)
             part == Newest(s, n)
             skip == s.count - n
  <1>1. /\ s.head \in Ring /\ s.count \in 0..MaxMsgs /\ MaxMsgs \in Nat \ {0}
        /\ n \in 0..MaxMsgs /\ s.count \in 0..s.count
    BY SessionAssumption DEF Slot
  <1>2. ASSUME NEW i \in 1..n PROVE skip + i \in 1..s.count /\ part[i] = whole[skip + i]
    <2>1. skip + i \in 1..s.count
      BY <1>1, <1>2
    <2>2. Place(s, n, i) = Place(s, s.count, skip + i)
      BY <1>1, <1>2 DEF Place, Ring
    <2> HIDE DEF skip
    <2>3. part[i] = s.msgs[Place(s, n, i)]
      BY <1>1, NewestEntry
    <2>4. whole[skip + i] = s.msgs[Place(s, s.count, skip + i)]
      BY <1>1, <2>1, NewestEntry
    <2> QED BY <2>1, <2>2, <2>3, <2>4
  <1>3. Len(part) = n /\ part \in Seq(Messages)
    BY NewestAreMessages
  <1>4. Len(whole) = s.count /\ whole \in Seq(Messages)
    BY <1>1, NewestAreMessages
  <1> HIDE DEF whole, part
  <1>5. ASSUME NEW i \in 1..(Len(part) - 1) PROVE part[i].role # part[i + 1].role
    <2>1. i \in 1..n /\ i + 1 \in 1..n
      BY <1>1, <1>3, <1>5
    <2>2. skip + i \in 1..(Len(whole) - 1) /\ skip + (i + 1) = skip + i + 1
      BY <1>1, <1>3, <1>4, <1>5
    <2> HIDE DEF skip
    <2> QED BY <1>2, <2>1, <2>2 DEF Alternates, whole
  <1>6. Speaks(part, role)
    <2>1. CASE n = 0
      BY <1>3, <2>1, EmptySeq DEF Speaks
    <2>2. CASE n # 0
      <3>1. n \in 1..n /\ skip + n = Len(whole) /\ whole # <<>>
        BY <1>1, <1>4, <2>2
      <3> HIDE DEF skip
      <3> QED BY <1>2, <1>3, <3>1 DEF Speaks, whole
    <2> QED BY <2>1, <2>2
  <1> QED BY <1>5, <1>6 DEF Alternates, part

LEMMA LimitedNewest ==
  ASSUME NEW s \in Slot, GoodSlot(s), NEW limit \in Nat, NEW role,
         Alternates(Newest(s, s.count)), Speaks(Newest(s, s.count), role)
  PROVE  LET n == IF limit > 0 /\ limit < s.count THEN limit ELSE s.count
         IN  Alternates(Newest(s, n)) /\ Speaks(Newest(s, n), role)
  <1> DEFINE n == IF limit > 0 /\ limit < s.count THEN limit ELSE s.count
  <1>1. s.count \in 0..MaxMsgs
    BY DEF Slot
  <1>2. s.count \in Nat
    BY <1>1, SessionAssumption
  <1>3. n \in 0..s.count /\ (s.count # 0 => n # 0)
    BY <1>2
  <1> HIDE DEF n
  <1>4. Alternates(Newest(s, n)) /\ Speaks(Newest(s, n), role)
    BY <1>3, NewestAlternates
  <1> QED BY <1>4 DEF n

LEMMA LimitedHistory ==
  ASSUME SessionInv, NEW u \in Users, NEW limit \in Nat, StoreAlternates,
         pc # "save assistant"
  PROVE  Alternates(HistoryOf(u, limit)) /\ Speaks(HistoryOf(u, limit), "assistant")
  <1>1. Alternates(HistoryOf(u, 0)) /\ Speaks(HistoryOf(u, 0), "assistant")
    BY DEF StoreAlternates
  <1>2. CASE Mine(u) = {}
    <2>1. HistoryOf(u, limit) = HistoryOf(u, 0)
      BY <1>2 DEF HistoryOf
    <2> QED BY <1>1, <2>1
  <1>3. CASE Mine(u) # {}
    <2>1. First(Mine(u)) \in Mine(u) /\ First(Mine(u)) \in Slots
      BY <1>3, MineAndFree DEF SessionInv
    <2>2. /\ sessions[First(Mine(u))] \in Slot /\ GoodSlot(sessions[First(Mine(u))])
          /\ HistoryOf(u, 0) = Newest(sessions[First(Mine(u))], sessions[First(Mine(u))].count)
      BY <2>1, HistoryRead DEF SessionInv, SessionTypeOK, HistoryIsRead, HistoryIsIn
    <2> QED BY <1>1, <1>3, <2>2, LimitedNewest DEF HistoryOf
  <1> QED BY <1>2, <1>3

(* Storing a message that answers the last one, or that the store refuses  *)
(* because the user has no slot and none is free.                          *)
LEMMA SaveAlternates ==
  ASSUME WordsInv, TurnInv', HistoryIsRead', NEW u \in Users, u = user, NEW m \in Messages,
         m.of = u, Save(m), NEW last, Speaks(HistoryOf(u, 0), last), last # m.role
  PROVE  /\ Alternates(HistoryOf(u, 0)') /\ Speaks(HistoryOf(u, 0)', m.role)
         /\ EndsWith(HistoryOf(u, 0)', m)
         /\ \A v \in Users \ {u} : HistoryOf(v, 0)' = HistoryOf(v, 0)
  <1>1. CASE SessionAppend(user, m)
    <2>1. Store!Record(u, m)
      BY <1>1, AppendIsRecord DEF WordsInv, TurnInv
    <2>2. History' = [History EXCEPT ![u] = Store!LastOf(Append(History[u], m), MaxMsgs)]
      BY <2>1 DEF Store!Record, History
    <2>3. /\ HistoryOf(u, 0)' = Store!LastOf(Append(HistoryOf(u, 0), m), MaxMsgs)
          /\ \A v \in Users \ {u} : HistoryOf(v, 0)' = HistoryOf(v, 0)
      BY <2>2 DEF History
    <2>4. HistoryOf(u, 0) \in Seq(Messages) /\ Alternates(HistoryOf(u, 0))
      BY HistoryIsTheUsers DEF WordsInv, TurnInv, StoreAlternates
    <2>5. HistoryOf(u, 0) = <<>> \/ HistoryOf(u, 0)[Len(HistoryOf(u, 0))].role # m.role
      BY DEF Speaks
    <2> QED BY <2>3, <2>4, <2>5, StoringAlternates
  <1>2. CASE SessionAppendFails(user)
    <2>1. \A v \in Users : Mine(v)' = Mine(v) /\ HistoryOf(v, 0)' = HistoryOf(v, 0)
      BY <1>2 DEF SessionAppendFails, Mine, HistoryOf
    <2>2. HistoryOf(u, 0) = <<>>
      BY <1>2 DEF SessionAppendFails, HasSlot, HistoryOf
    <2>3. Alternates(HistoryOf(u, 0)) /\ HistoryOf(u, 0)' = <<>>
      BY <2>1, <2>2 DEF WordsInv, StoreAlternates
    <2> QED BY <2>1, <2>2, <2>3 DEF Speaks, EndsWith
  <1> QED BY <1>1, <1>2 DEF Save

LEMMA ClearAlternates ==
  ASSUME WordsInv, TurnInv', HistoryIsRead', NEW u \in Users, CliClear(u)
  PROVE  StoreAlternates' /\ Heard'
  <1>1. Store!Forget(u)
    BY ClearIsForget DEF CliClear, WordsInv, TurnInv
  <1>2. History' = [History EXCEPT ![u] = <<>>]
    BY <1>1 DEF Store!Forget, History
  <1>3. \A v \in Users : HistoryOf(v, 0)' = IF v = u THEN <<>> ELSE HistoryOf(v, 0)
    BY <1>2 DEF History
  <1>4. \A role : Alternates(<<>>) /\ Speaks(<<>>, role)
    BY DEF Alternates, Speaks
  <1>5. StoreAlternates'
    BY <1>3, <1>4 DEF WordsInv, StoreAlternates, CliClear, turnVars
  <1>6. pc # "idle" => user \in Users
    BY DEF WordsInv, TurnInv, TypeOK
  <1>7. UNCHANGED turnVars /\ Said("assistant", response)' = Said("assistant", response)
    BY DEF CliClear, turnVars, Said
  <1>8. pc = "due" => EndsWith(HistoryOf(user, 0)', Said("assistant", response))
    BY <1>3, <1>6, <1>7 DEF WordsInv, Heard, EndsWith, turnVars
  <1> QED BY <1>5, <1>7, <1>8 DEF WordsInv, Heard, turnVars

(* The conversation a turn starts with, and what a round of tools adds.    *)
LEMMA AskedConversation ==
  ASSUME NEW h \in Seq(Messages), Alternates(h), Speaks(h, "assistant"),
         NEW m \in Messages, m.role = "user"
  PROVE  Conversation(Append(h, m))
  <1> DEFINE c == Append(h, m)
  <1>1. /\ c \in Seq(Messages) /\ Len(c) = Len(h) + 1 /\ Len(h) \in Nat /\ c[Len(c)] = m
        /\ \A i \in 1..Len(h) : c[i] = h[i]
    OBVIOUS
  <1> HIDE DEF c
  <1>2. ASSUME NEW i \in 1..(Len(c) - 1) PROVE c[i].role # c[i + 1].role
    <2>1. CASE i = Len(h)
      <3>1. h # <<>>
        BY <1>1, <1>2, <2>1
      <3> QED BY <1>1, <1>2, <2>1, <3>1 DEF Speaks
    <2>2. CASE i # Len(h)
      <3>1. i \in 1..(Len(h) - 1) /\ i + 1 \in 1..Len(h) /\ i \in 1..Len(h)
        BY <1>1, <1>2, <2>2
      <3> QED BY <1>1, <3>1 DEF Alternates
    <2> QED BY <2>1, <2>2
  <1>3. \A i \in 1..Len(c) : c[i] \in Messages
    BY <1>1
  <1>4. \A x \in Messages : "tool_use" \notin DOMAIN x
    BY DEF Messages
  <1>5. c # <<>>
    BY <1>1
  <1> QED BY <1>1, <1>2, <1>3, <1>4, <1>5 DEF Conversation, Alternates, Speaks, Answered, c

LEMMA ToolRound ==
  ASSUME NEW c \in Seq(Messages \cup ToolMessages), Conversation(c), NEW n
  PROVE  Conversation(c \o <<ToolUse(n), ToolResult(n)>>)
  <1> DEFINE S == Messages \cup ToolMessages
             d == c \o <<ToolUse(n), ToolResult(n)>>
  <1>1. /\ ToolUse(n).role = "assistant" /\ ToolResult(n).role = "user"
        /\ "tool_result" \in DOMAIN ToolResult(n) /\ "tool_use" \notin DOMAIN ToolResult(n)
        /\ ToolResult(n).tool_result = ToolUse(n).tool_use
    BY DEF ToolUse, ToolResult
  <1>2. \A x \in S : "tool_use" \in DOMAIN x => x.role = "assistant"
    <2>1. \A x \in Messages : "tool_use" \notin DOMAIN x
      BY DEF Messages
    <2>2. \A x \in ToolMessages : "tool_use" \in DOMAIN x => x.role = "assistant"
      BY DEF ToolMessages
    <2> QED BY <2>1, <2>2
  <1>3. c \in Seq(S)
    OBVIOUS
  <1> HIDE DEF S
  <1>4. Len(c) \in Nat \ {0}
    BY <1>3, EmptySeq DEF Conversation
  <1>5. c[Len(c)].role = "user" /\ c[Len(c)] \in S
    BY <1>3, <1>4 DEF Conversation, Speaks
  <1>6. "tool_use" \notin DOMAIN c[Len(c)]
    BY <1>2, <1>5
  <1>7. /\ Len(d) = Len(c) + 2 /\ \A i \in 1..Len(c) : d[i] = c[i]
        /\ d[Len(c) + 1] = ToolUse(n) /\ d[Len(c) + 2] = ToolResult(n)
        /\ d # <<>>
    BY <1>3, <1>4
  <1> HIDE DEF d
  <1>8. ASSUME NEW i \in 1..Len(c), i # Len(c)
        PROVE  /\ i \in 1..(Len(c) - 1) /\ i + 1 \in 1..Len(c)
               /\ d[i] = c[i] /\ d[i + 1] = c[i + 1]
    BY <1>4, <1>7, <1>8
  <1>9. ASSUME NEW i \in 1..(Len(d) - 1) PROVE d[i].role # d[i + 1].role
    <2>1. CASE i \in 1..Len(c) /\ i # Len(c)
      BY <1>8, <2>1 DEF Conversation, Alternates
    <2>2. CASE i = Len(c)
      BY <1>1, <1>4, <1>5, <1>7, <2>2
    <2>3. CASE i = Len(c) + 1
      <3>1. d[i] = ToolUse(n) /\ d[i + 1] = ToolResult(n)
        BY <1>4, <1>7, <2>3
      <3> QED BY <1>1, <3>1
    <2> QED BY <1>4, <1>7, <2>1, <2>2, <2>3
  <1>10. ASSUME NEW i \in 1..Len(d), "tool_use" \in DOMAIN d[i]
         PROVE  /\ "tool_result" \in DOMAIN d[i + 1]
                /\ d[i + 1].tool_result = d[i].tool_use
    <2>1. CASE i \in 1..Len(c) /\ i # Len(c)
      BY <1>8, <1>10, <2>1 DEF Conversation, Answered
    <2>2. CASE i = Len(c)
      BY <1>4, <1>6, <1>7, <1>10, <2>2
    <2>3. CASE i = Len(c) + 1
      <3>1. d[i] = ToolUse(n) /\ d[i + 1] = ToolResult(n)
        BY <1>4, <1>7, <2>3
      <3> QED BY <1>1, <3>1
    <2>4. CASE i = Len(c) + 2
      BY <1>1, <1>7, <1>10, <2>4
    <2> QED BY <1>4, <1>7, <2>1, <2>2, <2>3, <2>4
  <1>11. d[Len(d)].role = "user"
    BY <1>1, <1>7
  <1> QED BY <1>7, <1>9, <1>10, <1>11 DEF Conversation, Alternates, Speaks, Answered, d

LEMMA InitWords == Init => WordsInv
  <1> SUFFICES ASSUME Init PROVE WordsInv
    OBVIOUS
  <1>1. \A u \in Users : Mine(u) = {}
    BY DEF Init, SessionInit, Zeroed, EmptySlot, Mine
  <1>2. \A u \in Users : HistoryOf(u, 0) = <<>>
    BY <1>1 DEF HistoryOf
  <1>3. \A role : Alternates(<<>>) /\ Speaks(<<>>, role)
    BY DEF Alternates, Speaks
  <1> QED BY <1>2, <1>3, InitTurn DEF Init, WordsInv, StoreAlternates, Heard

LEMMA StepWords == WordsInv /\ TurnInv' /\ HistoryIsRead' /\ [Next]_vars => WordsInv'
  <1> SUFFICES ASSUME WordsInv, TurnInv', HistoryIsRead', [Next]_vars PROVE WordsInv'
    OBVIOUS
  <1>0. Blank \notin Users
    BY SessionAssumption
  <1>1. UNCHANGED sessions => \A u \in Users : HistoryOf(u, 0)' = HistoryOf(u, 0)
    BY DEF HistoryOf, Mine
  <1>2. ASSUME UNCHANGED sessions, pc # "save assistant", pc' # "save assistant"
        PROVE  StoreAlternates'
    BY <1>1, <1>2 DEF WordsInv, StoreAlternates
  <1>3. StoreAlternates' /\ Heard' => WordsInv'
    BY DEF WordsInv
  <1>4. ASSUME NEW u \in Users, NEW q \in Texts \ {Apology}, NEW cf \in BOOLEAN, Begin(u, q, cf)
        PROVE  WordsInv'
    BY <1>2, <1>3, <1>4 DEF Begin, Heard
  <1>5. CASE ReadHistory
    <2>1. user \in Users /\ question \in Texts /\ Limit \in Nat
      BY <1>5, TurnAssumption DEF ReadHistory, WordsInv, TurnInv, TypeOK, Limit
    <2>2. PICK h \in {HistoryOf(user, Limit), <<>>} : messages' = Append(h, Said("user", question))
      BY <1>5 DEF ReadHistory
    <2>3. h \in Seq(Messages) /\ Alternates(h) /\ Speaks(h, "assistant")
      <3>1. CASE h = HistoryOf(user, Limit)
        BY <1>5, <2>1, <3>1, HistoryIsTheUsers, LimitedHistory DEF ReadHistory, WordsInv, TurnInv
      <3>2. CASE h = <<>>
        BY <3>2 DEF Alternates, Speaks
      <3> QED BY <3>1, <3>2
    <2>4. Said("user", question) \in Messages /\ Said("user", question).role = "user"
      BY <2>1, SaidTyped DEF Said
    <2>5. Conversation(messages')
      BY <2>2, <2>3, <2>4, AskedConversation
    <2> QED BY <1>2, <1>3, <1>5, <2>5 DEF ReadHistory, Heard
  <1>6. CASE ModelAnswers
    BY <1>2, <1>3, <1>6 DEF ModelAnswers, EndLoop, Heard
  <1>7. CASE ModelAsksForTools
    BY <1>2, <1>3, <1>7 DEF ModelAsksForTools, Heard, WordsInv
  <1>8. CASE RunTools
    <2>1. messages \in Seq(Messages \cup ToolMessages) /\ Conversation(messages)
      BY <1>8 DEF RunTools, WordsInv, Heard, TurnInv, TypeOK
    <2>2. Conversation(messages')
      BY <1>8, <2>1, ToolRound DEF RunTools
    <2> QED BY <1>2, <1>3, <1>8, <2>2 DEF RunTools, Heard
  <1>9. CASE GiveUp
    BY <1>2, <1>3, <1>9 DEF GiveUp, EndLoop, Heard
  <1>10. CASE SaveQuestion
    <2>1. user \in Users /\ question \in Texts
      BY <1>10 DEF SaveQuestion, WordsInv, TurnInv, TypeOK
    <2>2. PICK u \in Users : u = user
      BY <2>1
    <2>3. Speaks(HistoryOf(u, 0), "assistant")
      BY <1>10, <2>2 DEF SaveQuestion, WordsInv, StoreAlternates
    <2>4. Said("user", question) \in Messages /\ Said("user", question).of = u
          /\ Said("user", question).role = "user"
      BY <2>1, <2>2, SaidTyped DEF Said
    <2>5. PICK m \in Messages : m = Said("user", question)
      BY <2>4
    <2>6. Save(m) /\ m.of = u /\ m.role = "user"
      BY <1>10, <2>4, <2>5 DEF SaveQuestion
    <2>7. /\ Alternates(HistoryOf(u, 0)') /\ Speaks(HistoryOf(u, 0)', "user")
          /\ \A v \in Users \ {u} : HistoryOf(v, 0)' = HistoryOf(v, 0)
      BY <2>2, <2>3, <2>6, SaveAlternates
    <2>8. StoreAlternates'
      BY <1>0, <1>10, <2>2, <2>7 DEF SaveQuestion, WordsInv, StoreAlternates
    <2> QED BY <1>3, <1>10, <2>8 DEF SaveQuestion, Heard
  <1>11. CASE SaveAnswer
    <2>1. user \in Users /\ response \in Texts
      BY <1>11 DEF SaveAnswer, WordsInv, TurnInv, TypeOK
    <2>2. PICK u \in Users : u = user
      BY <2>1
    <2>3. Speaks(HistoryOf(u, 0), "user")
      BY <1>11, <2>2 DEF SaveAnswer, WordsInv, StoreAlternates
    <2>4. Said("assistant", response) \in Messages /\ Said("assistant", response).of = u
          /\ Said("assistant", response).role = "assistant"
      BY <2>1, <2>2, SaidTyped DEF Said
    <2>5. PICK m \in Messages : m = Said("assistant", response)
      BY <2>4
    <2>6. Save(m) /\ m.of = u /\ m.role = "assistant"
      BY <1>11, <2>4, <2>5 DEF SaveAnswer
    <2>7. /\ Alternates(HistoryOf(u, 0)') /\ Speaks(HistoryOf(u, 0)', "assistant")
          /\ \A v \in Users \ {u} : HistoryOf(v, 0)' = HistoryOf(v, 0)
          /\ EndsWith(HistoryOf(u, 0)', m)
      BY <2>2, <2>3, <2>6, SaveAlternates
    <2>8. StoreAlternates'
      BY <1>0, <1>11, <2>2, <2>7 DEF SaveAnswer, TurnEnds, WordsInv, StoreAlternates
    <2>9. CASE TurnEnds
      BY <1>3, <2>8, <2>9 DEF TurnEnds, Heard
    <2>10. CASE pc' = "due" /\ UNCHANGED <<user, response>>
      <3>1. Said("assistant", response)' = m /\ EndsWith(HistoryOf(user, 0)', m)
        BY <2>2, <2>5, <2>7, <2>10 DEF Said
      <3> QED BY <1>3, <2>8, <2>10, <3>1 DEF Heard
    <2> QED BY <1>11, <2>9, <2>10 DEF SaveAnswer
  <1>12. ASSUME NEW u \in Users, CliClear(u) PROVE WordsInv'
    BY <1>3, <1>12, ClearAlternates
  <1>13. CASE UNCHANGED vars
    <2>1. HistoryOf(user, 0)' = HistoryOf(user, 0)
          /\ Said("assistant", response)' = Said("assistant", response)
      BY <1>13 DEF vars, turnVars, HistoryOf, Mine, Said
    <2> QED BY <1>1, <1>3, <1>13, <2>1 DEF vars, turnVars, Heard, WordsInv, StoreAlternates
  <1>14. CASE ReadForSummary
    <2>1. StoreAlternates'
      BY <1>2, <1>14 DEF ReadForSummary, TurnEnds
    <2>2. CASE TurnEnds
      BY <1>3, <2>1, <2>2 DEF TurnEnds, Heard
    <2>3. CASE pc' = "summarise" /\ ~TurnEnds
      <3>1. PICK u \in Users : u = user
        BY <1>14 DEF ReadForSummary, WordsInv, TurnInv, TypeOK
      <3>2. PICK h \in {HistoryOf(u, 0), <<>>} : messages' = h
        BY <1>14, <2>3, <3>1 DEF ReadForSummary
      <3>3. Alternates(h) /\ EndsWith(h, Said("assistant", response))
        BY <1>14, <3>1 DEF ReadForSummary, WordsInv, StoreAlternates, Heard, EndsWith, Alternates
      <3>4. Said("assistant", response)' = Said("assistant", response)
        BY <1>14, <2>3 DEF ReadForSummary, Said
      <3> QED BY <1>3, <2>1, <2>3, <3>2, <3>3, <3>4 DEF Heard
    <2> QED BY <1>14, <2>2, <2>3 DEF ReadForSummary
  <1>15. CASE Summarise
    BY <1>2, <1>3, <1>15 DEF Summarise, TurnEnds, Heard
  <1> QED
    BY <1>4, <1>5, <1>6, <1>7, <1>8, <1>9, <1>10, <1>11, <1>12, <1>13, <1>14, <1>15
    DEF Next, Calls, Rest

(* Whatever was stored, cut off, cleared or refused before, and however    *)
(* many rounds of tools there were: the model is sent alternating roles,   *)
(* the user's word last, and every tool call with its result; for the      *)
(* summary, the user's stored history ending with the answer just given,   *)
(* or nothing.                                                             *)
THEOREM ModelGetsAConversation == Spec => []ConversationWellFormed
  <1>1. WordsInv => ConversationWellFormed
    BY DEF WordsInv, Heard, EndsWith, ConversationWellFormed, Conversation, Answered, Speaks
  <1>2. Spec => []WordsInv
    BY InitWords, StepWords, TurnAlways, HistoryRead, PTL DEF Spec
  <1> QED BY <1>1, <1>2, PTL
=============================================================================

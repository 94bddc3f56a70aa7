-------------------------- MODULE MimiFiles_proofs --------------------------
(***************************************************************************)
(* Proofs about MimiFiles, for every number of turns, commands, resets     *)
(* and lines cut short, every file and every size of the ring.              *)
(***************************************************************************)
EXTENDS MimiFiles, SequenceTheorems, FiniteSetTheorems, WellFoundedInduction, TLAPS

----------------------------------------------------------------------------
(* Induction over the natural numbers, about a set instead of a predicate: *)
(* the order of the natural numbers has no endless descent.                *)

LEMMA LeastElement ==
  ASSUME NEW T \in SUBSET Nat, T # {}
  PROVE  \E n \in T : \A m \in T : n <= m
  <1> DEFINE R == OpToRel(<, Nat)
  <1>1. IsWellFoundedOn(R, Nat)
    BY NatLessThanWellFounded, Zenon
  <1>2. \A m, n \in Nat : m < n => <<m, n>> \in R
    BY DEF OpToRel
  <1> HIDE DEF R
  <1>3. PICK n \in T : \A m \in T : <<m, n>> \notin R
    BY <1>1, WFMin
  <1>4. \A m \in T : m \in Nat /\ n \in Nat /\ ~(m < n)
    BY <1>2, <1>3
  <1>5. \A m \in T : n <= m
    BY <1>4
  <1> QED BY <1>5

LEMMA SetInduction ==
  ASSUME NEW S, 0 \in S, \A n \in Nat : n \in S => n + 1 \in S
  PROVE  Nat \subseteq S
  <1> SUFFICES ASSUME Nat \ S # {} PROVE FALSE
    OBVIOUS
  <1>1. PICK n \in Nat \ S : \A m \in Nat \ S : n <= m
    BY LeastElement
  <1>2. n - 1 \in Nat /\ n - 1 \notin Nat \ S
    BY <1>1
  <1> QED BY <1>1, <1>2

----------------------------------------------------------------------------
(* FlattenSeq, unrolled from its end. *)

Flattens(f, ss, n) == f = [i \in 1..n |-> IF i = 1 THEN ss[i] ELSE f[i - 1] \o ss[i]]

LEMMA FlatteningExists ==
  ASSUME NEW ss, NEW n \in Nat
  PROVE  \E f : Flattens(f, ss, n)
  <1> DEFINE N == {k \in Nat : \E f : Flattens(f, ss, k)}
  <1>1. 0 \in N
    <2> DEFINE f == [i \in 1..0 |-> <<>>]
    <2>1. Flattens(f, ss, 0)
      BY DEF Flattens
    <2> QED BY <2>1
  <1>2. ASSUME NEW k \in Nat, k \in N
        PROVE  k + 1 \in N
    <2>1. PICK f : Flattens(f, ss, k)
      BY <1>2
    <2> DEFINE g == [i \in 1..(k + 1) |-> IF i <= k THEN f[i]
                                          ELSE IF i = 1 THEN ss[i] ELSE f[i - 1] \o ss[i]]
    <2>2. \A i \in 1..k : f[i] = IF i = 1 THEN ss[i] ELSE f[i - 1] \o ss[i]
      <3> HIDE DEF g
      <3> QED BY <2>1 DEF Flattens
    <2>3. \A i \in 1..(k + 1) : g[i] = IF i <= k THEN f[i]
                                       ELSE IF i = 1 THEN ss[i] ELSE f[i - 1] \o ss[i]
      OBVIOUS
    <2>4. \A i \in 1..(k + 1) : g[i] = IF i = 1 THEN ss[i] ELSE g[i - 1] \o ss[i]
      <3> SUFFICES ASSUME NEW i \in 1..(k + 1)
                   PROVE  g[i] = IF i = 1 THEN ss[i] ELSE g[i - 1] \o ss[i]
        OBVIOUS
      <3> HIDE DEF g
      <3>1. i # 1 => i - 1 \in 1..k /\ g[i - 1] = f[i - 1]
        <4>1. i # 1 => i - 1 \in 1..k /\ i - 1 \in 1..(k + 1) /\ i - 1 <= k
          OBVIOUS
        <4> QED BY <2>3, <4>1
      <3>2. CASE i <= k
        <4>1. g[i] = f[i] /\ f[i] = IF i = 1 THEN ss[i] ELSE f[i - 1] \o ss[i]
          BY <2>2, <2>3, <3>2
        <4> QED BY <3>1, <4>1
      <3>3. CASE i = k + 1
        <4>1. g[i] = IF i = 1 THEN ss[i] ELSE f[i - 1] \o ss[i]
          BY <2>3, <3>3
        <4> QED BY <3>1, <4>1
      <3> QED BY <3>2, <3>3
    <2>5. Flattens(g, ss, k + 1)
      <3>1. g = [i \in 1..(k + 1) |-> g[i]]
        OBVIOUS
      <3> HIDE DEF g
      <3>2. g = [i \in 1..(k + 1) |-> IF i = 1 THEN ss[i] ELSE g[i - 1] \o ss[i]]
        BY <2>4, <3>1
      <3> QED BY <3>2 DEF Flattens
    <2> QED BY <2>5
  <1> HIDE DEF N
  <1>3. Nat \subseteq N
    BY <1>1, <1>2, SetInduction
  <1> QED BY <1>3 DEF N

Agree(f, g, n) == \A i \in 1..n : f[i] = g[i]

LEMMA FlatteningsAgree ==
  ASSUME NEW ss, NEW n \in Nat, NEW f, Flattens(f, ss, n),
         NEW tt, NEW m \in Nat, NEW g, Flattens(g, tt, m),
         n <= m, Agree(ss, tt, n)
  PROVE  Agree(f, g, n)
  <1> SUFFICES ASSUME {i \in 1..n : f[i] # g[i]} # {} PROVE FALSE
    BY DEF Agree
  <1> DEFINE T == {i \in 1..n : f[i] # g[i]}
  <1>1. T \in SUBSET Nat
    OBVIOUS
  <1>2. PICK k \in T : \A j \in T : k <= j
    BY <1>1, LeastElement
  <1>3. k \in 1..n /\ k \in 1..m /\ f[k] # g[k]
    BY <1>2
  <1>4. /\ f[k] = IF k = 1 THEN ss[k] ELSE f[k - 1] \o ss[k]
        /\ g[k] = IF k = 1 THEN tt[k] ELSE g[k - 1] \o tt[k]
    BY <1>3 DEF Flattens
  <1>5. k # 1 => k - 1 \in 1..n /\ f[k - 1] = g[k - 1]
    BY <1>2, <1>3
  <1> QED BY <1>3, <1>4, <1>5 DEF Agree

LEMMA FlatteningType ==
  ASSUME NEW S, NEW ss \in Seq(Seq(S)), NEW f, Flattens(f, ss, Len(ss))
  PROVE  \A i \in 1..Len(ss) : f[i] \in Seq(S)
  <1> DEFINE T == {i \in 1..Len(ss) : f[i] \notin Seq(S)}
  <1> SUFFICES ASSUME T # {} PROVE FALSE
    OBVIOUS
  <1>1. Len(ss) \in Nat /\ T \in SUBSET Nat
    BY LenProperties
  <1>2. PICK k \in T : \A j \in T : k <= j
    BY <1>1, LeastElement
  <1>3. k \in 1..Len(ss) /\ f[k] \notin Seq(S) /\ ss[k] \in Seq(S)
    BY <1>2, ElementOfSeq
  <1>4. f[k] = IF k = 1 THEN ss[k] ELSE f[k - 1] \o ss[k]
    BY <1>3 DEF Flattens
  <1>5. k # 1 => f[k - 1] \in Seq(S)
    BY <1>1, <1>2, <1>3
  <1> QED BY <1>3, <1>4, <1>5, ConcatProperties

LEMMA FlattenIsFlattening ==
  ASSUME NEW ss, Len(ss) \in Nat \ {0}
  PROVE  \E f : Flattens(f, ss, Len(ss)) /\ FlattenSeq(ss) = f[Len(ss)]
  <1> DEFINE f == CHOOSE h : Flattens(h, ss, Len(ss))
  <1>1. Flattens(f, ss, Len(ss))
    BY FlatteningExists
  <1>2. FlattenSeq(ss) = f[Len(ss)]
    BY DEF FlattenSeq, Flattens
  <1> QED BY <1>1, <1>2

LEMMA FlattenAppend ==
  ASSUME NEW S, NEW ss \in Seq(Seq(S)), NEW x \in Seq(S)
  PROVE  /\ FlattenSeq(ss) \in Seq(S)
         /\ FlattenSeq(Append(ss, x)) = FlattenSeq(ss) \o x
  <1> DEFINE tt == Append(ss, x)
             n == Len(ss)
  <1>1. /\ n \in Nat /\ tt \in Seq(Seq(S)) /\ Len(tt) = n + 1 /\ tt[n + 1] = x
        /\ \A i \in 1..n : tt[i] = ss[i]
    BY LenProperties, AppendProperties
  <1> HIDE DEF tt
  <1>2. PICK g : Flattens(g, tt, n + 1) /\ FlattenSeq(tt) = g[n + 1]
    BY <1>1, FlattenIsFlattening
  <1>3. g[n + 1] = IF n + 1 = 1 THEN x ELSE g[n] \o x
    <2>1. n + 1 \in 1..(n + 1) /\ (n + 1) - 1 = n
      BY <1>1
    <2> HIDE DEF n
    <2> QED BY <1>1, <1>2, <2>1 DEF Flattens
  <1>4. CASE n = 0
    <2>1. ss = <<>> /\ FlattenSeq(ss) = ss
      BY <1>4, EmptySeq DEF FlattenSeq
    <2>2. <<>> \o x = x /\ <<>> \in Seq(S)
      BY ConcatEmptySeq, EmptySeq
    <2>3. FlattenSeq(tt) = x
      BY <1>2, <1>3, <1>4
    <2> QED BY <2>1, <2>2, <2>3 DEF tt
  <1>5. CASE n # 0
    <2>1. PICK f : Flattens(f, ss, n) /\ FlattenSeq(ss) = f[n]
      BY <1>1, <1>5, FlattenIsFlattening
    <2>2. f[n] = g[n]
      <3> DEFINE m == n + 1
      <3>1. /\ n \in 1..n /\ n \in Nat /\ n <= m /\ m \in Nat
            /\ Agree(ss, tt, n) /\ Flattens(f, ss, n) /\ Flattens(g, tt, m)
        BY <1>1, <1>2, <1>5, <2>1 DEF Agree
      <3> HIDE DEF n, m
      <3>2. Agree(f, g, n)
        BY <3>1, FlatteningsAgree
      <3> QED BY <3>1, <3>2 DEF Agree
    <2>3. f[n] \in Seq(S)
      BY <1>1, <1>5, <2>1, FlatteningType
    <2> QED BY <1>1, <1>2, <1>3, <1>5, <2>1, <2>2, <2>3 DEF tt
  <1> QED BY <1>4, <1>5

----------------------------------------------------------------------------
(* What a file holds, line by line. *)

Piece == [msg : Message, whole : BOOLEAN]
Pieces == Seq(Piece) \ {<<>>}   \* a line
Entry == Message \cup {NoRole}

LEMMA EntriesType ==
  ASSUME NEW line \in Pieces
  PROVE  /\ Entries(line) \in Seq(Entry)
         /\ \/ Entries(line) = <<>>
            \/ \E a \in Entry : Entries(line) = <<a>>
            \/ \E a, b \in Entry : Entries(line) = <<a, b>>
  <1>1. line[1].msg \in Entry /\ NoRole \in Entry
    <2>1. Len(line) \in Nat \ {0}
      BY EmptySeq DEF Pieces
    <2>2. line[1] \in Piece
      BY <2>1, ElementOfSeq DEF Pieces
    <2> QED BY <2>2 DEF Piece, Entry
  <1>2. \E p, q \in Seq(Entry) :
          /\ Entries(line) = p \o q
          /\ p = <<>> \/ p = <<line[1].msg>>
          /\ q = <<>> \/ q = <<NoRole>>
    <2> DEFINE p == IF line[1].whole /\ line[1].msg.form = "short" THEN <<line[1].msg>> ELSE <<>>
               q == IF \E i \in 1..Len(line) : line[i].msg.form = "number" THEN <<NoRole>> ELSE <<>>
    <2>1. <<>> \in Seq(Entry) /\ <<line[1].msg>> \in Seq(Entry) /\ <<NoRole>> \in Seq(Entry)
      BY <1>1, EmptySeq
    <2>2. p \in Seq(Entry) /\ q \in Seq(Entry)
      BY <2>1
    <2>3. (p = <<>> \/ p = <<line[1].msg>>) /\ (q = <<>> \/ q = <<NoRole>>)
      OBVIOUS
    <2>4. Entries(line) = p \o q
      BY DEF Entries
    <2> HIDE DEF p, q
    <2> QED BY <2>2, <2>3, <2>4
  <1>3. PICK p, q \in Seq(Entry) :
          /\ Entries(line) = p \o q
          /\ p = <<>> \/ p = <<line[1].msg>>
          /\ q = <<>> \/ q = <<NoRole>>
    BY <1>2
  <1>4. p \o q \in Seq(Entry)
    BY <1>3, ConcatProperties
  <1>5. p \o <<>> = p /\ <<>> \o q = q
    BY ConcatEmptySeq
  <1>6. <<line[1].msg>> \o <<NoRole>> = <<line[1].msg, NoRole>>
    <2> DEFINE a == <<line[1].msg>>
               b == <<NoRole>>
               c == <<line[1].msg, NoRole>>
    <2>1. /\ a \in Seq(Entry) /\ Len(a) = 1 /\ a[1] = line[1].msg
          /\ b \in Seq(Entry) /\ Len(b) = 1 /\ b[1] = NoRole
          /\ c \in Seq(Entry) /\ Len(c) = 2 /\ c[1] = line[1].msg /\ c[2] = NoRole
      BY <1>1
    <2> HIDE DEF a, b, c
    <2>2. /\ a \o b \in Seq(Entry) /\ Len(a \o b) = 2
          /\ (a \o b)[1] = a[1] /\ (a \o b)[2] = b[1]
      <3>1. a \o b \in Seq(Entry) /\ Len(a \o b) = Len(a) + Len(b)
        BY <2>1, ConcatProperties
      <3>2. \A i \in 1..(Len(a) + Len(b)) :
                (a \o b)[i] = IF i <= Len(a) THEN a[i] ELSE b[i - Len(a)]
        BY <2>1, ConcatProperties
      <3>3. Len(a) + Len(b) = 2 /\ 1 <= Len(a) /\ ~(2 <= Len(a)) /\ 2 - Len(a) = 1
        BY <2>1
      <3> QED BY <3>1, <3>2, <3>3
    <2>3. a \o b = c
      BY <2>1, <2>2, SeqEqual
    <2> QED BY <2>3 DEF a, b, c
  <1> QED BY <1>1, <1>3, <1>4, <1>5, <1>6

LEMMA ReadableAppend ==
  ASSUME NEW ls \in Seq(Pieces), NEW l \in Pieces
  PROVE  /\ Readable(ls) \in Seq(Entry)
         /\ Readable(Append(ls, l)) = Readable(ls) \o Entries(l)
  <1> DEFINE es == [i \in 1..Len(ls) |-> Entries(ls[i])]
             tt == Append(ls, l)
             fs == [i \in 1..Len(tt) |-> Entries(tt[i])]
  <1>1. /\ Len(ls) \in Nat /\ tt \in Seq(Pieces) /\ Len(tt) = Len(ls) + 1
        /\ tt[Len(ls) + 1] = l /\ \A i \in 1..Len(ls) : tt[i] = ls[i]
    BY LenProperties, AppendProperties
  <1> HIDE DEF tt
  <1>2. es \in Seq(Seq(Entry)) /\ Len(es) = Len(ls)
    <2>1. \A i \in 1..Len(ls) : Entries(ls[i]) \in Seq(Entry)
      BY <1>1, ElementOfSeq, EntriesType
    <2>2. es \in [1..Len(ls) -> Seq(Entry)]
      BY <2>1
    <2>3. es \in Seq(Seq(Entry))
      BY <1>1, <2>2, SeqDef
    <2> QED BY <1>1, <2>2, <2>3, LenProperties
  <1>3. fs \in Seq(Seq(Entry)) /\ Len(fs) = Len(ls) + 1
    <2>1. \A i \in 1..Len(tt) : Entries(tt[i]) \in Seq(Entry)
      BY <1>1, ElementOfSeq, EntriesType
    <2>2. fs \in [1..Len(tt) -> Seq(Entry)]
      BY <2>1
    <2>3. fs \in Seq(Seq(Entry))
      BY <1>1, <2>2, SeqDef
    <2> QED BY <1>1, <2>2, <2>3, LenProperties
  <1>4. fs = Append(es, Entries(l))
    <2> DEFINE w == Append(es, Entries(l))
    <2>1. Entries(l) \in Seq(Entry)
      BY EntriesType
    <2>2. \A i \in 1..Len(ls) : es[i] = Entries(ls[i])
      OBVIOUS
    <2>3. \A i \in 1..(Len(ls) + 1) : fs[i] = Entries(tt[i])
      BY <1>1
    <2> HIDE DEF es, fs
    <2>4. /\ w \in Seq(Seq(Entry)) /\ Len(w) = Len(ls) + 1 /\ w[Len(ls) + 1] = Entries(l)
          /\ \A i \in 1..Len(ls) : w[i] = es[i]
      BY <1>2, <2>1, AppendProperties
    <2> HIDE DEF w
    <2>5. \A i \in 1..Len(fs) : fs[i] = w[i]
      <3> SUFFICES ASSUME NEW i \in 1..(Len(ls) + 1) PROVE fs[i] = w[i]
        BY <1>3
      <3>1. CASE i = Len(ls) + 1
        BY <1>1, <2>3, <2>4, <3>1
      <3>2. CASE i # Len(ls) + 1
        <4>1. i \in 1..Len(ls)
          BY <1>1, <3>2
        <4> QED BY <1>1, <2>2, <2>3, <2>4, <4>1
      <3> QED BY <3>1, <3>2
    <2>6. fs = w
      BY <1>3, <2>4, <2>5, SeqEqual
    <2> QED BY <2>6 DEF w
  <1>5. Readable(ls) = FlattenSeq(es) /\ Readable(tt) = FlattenSeq(fs)
    BY DEF Readable
  <1> HIDE DEF es, fs
  <1>6. Entries(l) \in Seq(Entry)
    BY EntriesType
  <1>7. FlattenSeq(es) \in Seq(Entry) /\ FlattenSeq(fs) = FlattenSeq(es) \o Entries(l)
    BY <1>2, <1>4, <1>6, FlattenAppend
  <1> QED BY <1>5, <1>7 DEF tt

LEMMA ReadableType ==
  ASSUME NEW ls \in Seq(Pieces)
  PROVE  Readable(ls) \in Seq(Entry)
  <1>1. PICK l : l \in Pieces
    <2>1. PICK m : m \in Message
      <3>1. [turn |-> 1, role |-> "user", form |-> "short"] \in Message
        BY DEF Message, Forms
      <3> QED BY <3>1
    <2>2. <<[msg |-> m, whole |-> TRUE]>> \in Pieces
      BY <2>1 DEF Piece, Pieces
    <2> QED BY <2>2
  <1> QED BY <1>1, ReadableAppend

LEMMA NothingToRead == Readable(<<>>) = <<>>
  <1>1. [i \in 1..Len(<<>>) |-> Entries(<<>>[i])] = <<>>
    OBVIOUS
  <1> QED BY <1>1 DEF Readable, FlattenSeq

LEMMA RangeOfTwo ==
  ASSUME NEW S, NEW p \in Seq(S), NEW q \in Seq(S)
  PROVE  ToSet(p \o q) = ToSet(p) \cup ToSet(q)
  <1>1. Range(p \o q) = Range(p) \cup Range(q)
    BY RangeConcatenation
  <1> QED BY <1>1 DEF ToSet, Range

(* What can be read is what some line gives. *)
ReadsItsLines(s) ==
    \A x : x \in ToSet(Readable(s)) <=> \E i \in 1..Len(s) : x \in ToSet(Entries(s[i]))

LEMMA ReadableIsInLines ==
  ASSUME NEW ls \in Seq(Pieces)
  PROVE  ReadsItsLines(ls)
  <1> DEFINE N == {n \in Nat : \A s \in Seq(Pieces) : Len(s) = n => ReadsItsLines(s)}
  <1>1. 0 \in N
    <2>1. \A s \in Seq(Pieces) : Len(s) = 0 => s = <<>>
      BY EmptySeq
    <2>2. ReadsItsLines(<<>>)
      BY NothingToRead DEF ToSet, ReadsItsLines
    <2> QED BY <2>1, <2>2
  <1>2. ASSUME NEW n \in Nat, n \in N
        PROVE  n + 1 \in N
    <2> SUFFICES ASSUME NEW s \in Seq(Pieces), Len(s) = n + 1
                 PROVE  ReadsItsLines(s)
      BY <1>2
    <2>1. s # <<>>
      BY EmptySeq
    <2>2. PICK t \in Seq(Pieces), l \in Pieces : s = Append(t, l)
      BY <2>1, SequenceEmptyOrAppend
    <2>3. /\ Len(t) = n /\ s[n + 1] = l /\ \A i \in 1..n : s[i] = t[i]
      BY <2>2, LenProperties, AppendProperties
    <2>4. ReadsItsLines(t)
      BY <1>2, <2>3
    <2>5. ToSet(Readable(s)) = ToSet(Readable(t)) \cup ToSet(Entries(l))
      <3>1. Readable(t) \in Seq(Entry) /\ Entries(l) \in Seq(Entry)
        BY ReadableAppend, EntriesType
      <3>2. Readable(s) = Readable(t) \o Entries(l)
        BY <2>2, ReadableAppend
      <3> QED BY <3>1, <3>2, RangeOfTwo
    <2> SUFFICES ASSUME NEW x
                 PROVE  x \in ToSet(Readable(s))
                          <=> \E i \in 1..(n + 1) : x \in ToSet(Entries(s[i]))
      BY DEF ReadsItsLines
    <2>6. x \in ToSet(Readable(t)) <=> \E i \in 1..n : x \in ToSet(Entries(t[i]))
      BY <2>3, <2>4 DEF ReadsItsLines
    <2>7. \A i \in 1..n : i \in 1..(n + 1) /\ Entries(s[i]) = Entries(t[i])
      BY <2>3
    <2>8. n + 1 \in 1..(n + 1) /\ Entries(s[n + 1]) = Entries(l)
      BY <2>3
    <2>9. \A i \in 1..(n + 1) : i \in 1..n \/ i = n + 1
      OBVIOUS
    <2> QED BY <2>5, <2>6, <2>7, <2>8, <2>9
  <1> HIDE DEF N
  <1>3. Nat \subseteq N
    BY <1>1, <1>2, SetInduction
  <1>4. Len(ls) \in Nat
    BY LenProperties
  <1> QED BY <1>3, <1>4 DEF N

----------------------------------------------------------------------------
(* The ring holds the latest of what was read into it. *)

Place(r, i) == IF r.count < MaxMsgs THEN i - 1
               ELSE IF r.write_idx + i - 1 < MaxMsgs THEN r.write_idx + i - 1
               ELSE r.write_idx + i - 1 - MaxMsgs

RingType(r) ==
    /\ r = [messages |-> r.messages, count |-> r.count, write_idx |-> r.write_idx]
    /\ r.messages \in [0..(MaxMsgs - 1) -> Entry]
    /\ r.count \in 0..MaxMsgs /\ r.write_idx \in 0..(MaxMsgs - 1)

RingHolds(r, read) ==
    /\ r.count = IF Len(read) < MaxMsgs THEN Len(read) ELSE MaxMsgs
    /\ r.count < MaxMsgs => r.write_idx = r.count
    /\ \A i \in 1..r.count : r.messages[Place(r, i)] = read[Len(read) - r.count + i]

LEMMA Wrapped ==
  ASSUME NEW k \in 0..(2 * MaxMsgs - 1)
  PROVE  k % MaxMsgs = IF k < MaxMsgs THEN k ELSE k - MaxMsgs
  BY SessionFileAssumption

LEMMA EmptyRingHolds == RingType(EmptyRing) /\ RingHolds(EmptyRing, <<>>)
  BY SessionFileAssumption DEF EmptyRing, RingType, RingHolds, Entry

LEMMA PutType ==
  ASSUME NEW r, RingType(r), NEW e \in Entry
  PROVE  RingType(Put(r, e))
  <1>1. (r.write_idx + 1) % MaxMsgs = IF r.write_idx + 1 < MaxMsgs THEN r.write_idx + 1 ELSE 0
    BY SessionFileAssumption, Wrapped DEF RingType
  <1> QED BY <1>1, SessionFileAssumption DEF Put, RingType

LEMMA PutHolds ==
  ASSUME NEW r, RingType(r), NEW read \in Seq(Entry), RingHolds(r, read), NEW e \in Entry
  PROVE  RingType(Put(r, e)) /\ RingHolds(Put(r, e), Append(read, e))
  <1> DEFINE s == Put(r, e)
             w == Append(read, e)
  <1>1. /\ MaxMsgs \in Nat \ {0} /\ Len(read) \in Nat
        /\ Len(w) = Len(read) + 1 /\ w[Len(read) + 1] = e
        /\ \A i \in 1..Len(read) : w[i] = read[i]
    BY SessionFileAssumption, LenProperties, AppendProperties
  <1> HIDE DEF w
  <1>2. /\ s.messages = [r.messages EXCEPT ![r.write_idx] = e]
        /\ s.count = IF r.count < MaxMsgs THEN r.count + 1 ELSE r.count
        /\ s.write_idx = IF r.write_idx + 1 < MaxMsgs THEN r.write_idx + 1 ELSE 0
        /\ s = [messages |-> s.messages, count |-> s.count, write_idx |-> s.write_idx]
    <2>1. (r.write_idx + 1) % MaxMsgs = IF r.write_idx + 1 < MaxMsgs THEN r.write_idx + 1 ELSE 0
      BY <1>1, Wrapped DEF RingType
    <2> QED BY <2>1 DEF Put
  <1> HIDE DEF s
  <1>3. RingType(s)
    BY <1>1, <1>2 DEF RingType
  <1>4. ASSUME NEW i \in 1..s.count
        PROVE  s.messages[Place(s, i)] = w[Len(w) - s.count + i]
    <2>1. CASE r.count < MaxMsgs
      <3>1. s.count = r.count + 1 /\ r.write_idx = r.count /\ r.count = Len(read)
        BY <1>1, <1>2, <2>1 DEF RingHolds
      <3>2. Place(s, i) = i - 1
        BY <1>1, <1>2, <2>1, <3>1 DEF Place, RingType
      <3>3. CASE i = s.count
        <4>1. s.messages[i - 1] = e
          BY <1>1, <1>2, <3>1, <3>3 DEF RingType
        <4>2. Len(w) - s.count + i = Len(read) + 1
          BY <1>1, <3>1, <3>3
        <4> QED BY <1>1, <3>2, <4>1, <4>2
      <3>4. CASE i # s.count
        <4>1. i \in 1..r.count /\ Place(r, i) = i - 1 /\ i - 1 # r.write_idx
          BY <1>1, <1>4, <2>1, <3>1, <3>4 DEF Place, RingType
        <4>2. r.messages[i - 1] = read[i]
          BY <1>1, <3>1, <4>1 DEF RingHolds
        <4>3. s.messages[i - 1] = r.messages[i - 1]
          BY <1>1, <1>2, <3>1, <4>1 DEF RingType
        <4> QED BY <1>1, <3>1, <3>2, <4>1, <4>2, <4>3
      <3> QED BY <3>3, <3>4
    <2>2. CASE ~(r.count < MaxMsgs)
      <3>1. s.count = MaxMsgs /\ r.count = MaxMsgs /\ Len(read) >= MaxMsgs
        BY <1>1, <1>2, <2>2 DEF RingHolds, RingType
      <3>2. CASE i = MaxMsgs
        <4>1. Place(s, i) = r.write_idx
          BY <1>1, <1>2, <3>1, <3>2 DEF Place, RingType
        <4> QED BY <1>1, <1>2, <3>1, <3>2, <4>1 DEF RingType
      <3>3. CASE i # MaxMsgs
        <4>1. i + 1 \in 1..r.count /\ Place(s, i) = Place(r, i + 1)
          BY <1>1, <1>2, <1>4, <3>1, <3>3 DEF Place, RingType
        <4>2. Place(r, i + 1) # r.write_idx /\ Place(r, i + 1) \in 0..(MaxMsgs - 1)
          BY <1>1, <1>4, <3>1, <3>3 DEF Place, RingType
        <4>3. s.messages[Place(r, i + 1)] = r.messages[Place(r, i + 1)]
          BY <1>2, <4>2 DEF RingType
        <4>4. r.messages[Place(r, i + 1)] = read[Len(read) - MaxMsgs + (i + 1)]
          BY <3>1, <4>1 DEF RingHolds
        <4>5. /\ Len(w) - s.count + i = Len(read) - MaxMsgs + (i + 1)
              /\ Len(w) - s.count + i \in 1..Len(read)
          BY <1>1, <1>4, <3>1, <3>3
        <4> QED BY <1>1, <4>1, <4>3, <4>4, <4>5
      <3> QED BY <3>2, <3>3
    <2> QED BY <2>1, <2>2
  <1>5. /\ s.count = IF Len(w) < MaxMsgs THEN Len(w) ELSE MaxMsgs
        /\ s.count < MaxMsgs => s.write_idx = s.count
    BY <1>1, <1>2 DEF RingHolds, RingType
  <1>6. RingHolds(s, w)
    BY <1>4, <1>5 DEF RingHolds
  <1> QED BY <1>3, <1>6 DEF s, w

(* FoldLeft over none, one or two entries: all that a line can give.       *)
LEMMA FoldNone == ASSUME NEW r PROVE FoldLeft(Put, r, <<>>) = r
  <1> DEFINE Folds(h) ==
        h = [T \in SUBSET {} |-> IF T = {} THEN r ELSE Put(h[T \ {Max(T)}], <<>>[Max(T)])]
             g == CHOOSE h : Folds(h)
             k == [T \in SUBSET {} |-> r]
  <1>1. Folds(k)
    OBVIOUS
  <1>2. Folds(g)
    BY <1>1
  <1>3. g[{}] = r
    <2> HIDE DEF g
    <2> QED BY <1>2
  <1>4. DOMAIN <<>> = {}
    OBVIOUS
  <1>5. FoldLeft(Put, r, <<>>) = g[{}]
    BY <1>4 DEF FoldLeft, MapThenFoldSet
  <1> QED BY <1>3, <1>5

LEMMA FoldOne ==
  ASSUME NEW r, NEW a
  PROVE  FoldLeft(Put, r, <<a>>) = Put(r, a)
  <1> DEFINE Folds(h) ==
        h = [T \in SUBSET {1} |-> IF T = {} THEN r ELSE Put(h[T \ {Max(T)}], <<a>>[Max(T)])]
             g == CHOOSE h : Folds(h)
             k == [T \in SUBSET {1} |-> IF T = {} THEN r ELSE Put(r, a)]
  <1>1. Max({1}) = 1
    BY DEF Max
  <1>2. \A T \in SUBSET {1} : T = {} \/ T = {1}
    OBVIOUS
  <1>3. Folds(k)
    <2>1. k[{1} \ {1}] = r /\ <<a>>[1] = a
      OBVIOUS
    <2>2. \A T \in SUBSET {1} :
            (IF T = {} THEN r ELSE Put(k[T \ {Max(T)}], <<a>>[Max(T)]))
              = IF T = {} THEN r ELSE Put(r, a)
      BY <1>1, <1>2, <2>1
    <2> QED BY <2>2
  <1>4. Folds(g)
    BY <1>3
  <1>5. g[{1}] = Put(r, a)
    <2> HIDE DEF g
    <2>1. g[{}] = r /\ {1} \ {1} = {} /\ {1} # {} /\ <<a>>[1] = a
      BY <1>4
    <2>2. g[{1}] = Put(g[{1} \ {1}], <<a>>[1])
      BY <1>1, <1>4
    <2> QED BY <2>1, <2>2
  <1>6. DOMAIN <<a>> = {1}
    OBVIOUS
  <1>7. FoldLeft(Put, r, <<a>>) = g[{1}]
    BY <1>6 DEF FoldLeft, MapThenFoldSet
  <1> QED BY <1>5, <1>7

PutBoth(r, a, b) == Put(Put(r, a), b)

LEMMA FoldTwo ==
  ASSUME NEW r, NEW a, NEW b
  PROVE  FoldLeft(Put, r, <<a, b>>) = PutBoth(r, a, b)
  <1> DEFINE Folds(h) ==
        h = [T \in SUBSET {1, 2} |-> IF T = {} THEN r ELSE Put(h[T \ {Max(T)}], <<a, b>>[Max(T)])]
             g == CHOOSE h : Folds(h)
             k == [T \in SUBSET {1, 2} |-> IF T = {} THEN r
                                          ELSE IF T = {1} THEN Put(r, a)
                                          ELSE IF T = {2} THEN Put(r, b) ELSE Put(Put(r, a), b)]
  <1>1. Max({1}) = 1 /\ Max({2}) = 2 /\ Max({1, 2}) = 2
    BY DEF Max
  <1>2. \A T \in SUBSET {1, 2} : T = {} \/ T = {1} \/ T = {2} \/ T = {1, 2}
    OBVIOUS
  <1>3. /\ {1} \ {1} = {} /\ {2} \ {2} = {} /\ {1, 2} \ {2} = {1}
        /\ {1} # {} /\ {2} # {} /\ {1, 2} # {} /\ {1} # {2} /\ {1, 2} # {1} /\ {1, 2} # {2}
        /\ <<a, b>>[1] = a /\ <<a, b>>[2] = b
    OBVIOUS
  <1>4. Folds(k)
    <2>1. k[{}] = r /\ k[{1}] = Put(r, a)
      BY <1>3
    <2>2. \A T \in SUBSET {1, 2} :
            (IF T = {} THEN r ELSE Put(k[T \ {Max(T)}], <<a, b>>[Max(T)]))
              = IF T = {} THEN r ELSE IF T = {1} THEN Put(r, a)
                ELSE IF T = {2} THEN Put(r, b) ELSE Put(Put(r, a), b)
      <3> HIDE DEF k
      <3> QED BY <1>1, <1>2, <1>3, <2>1
    <2> QED BY <2>2
  <1>5. Folds(g)
    BY <1>4
  <1>6. g[{1, 2}] = Put(Put(r, a), b)
    <2> HIDE DEF g
    <2>1. g[{}] = r
      BY <1>5
    <2>2. g[{1}] = Put(g[{1} \ {1}], <<a, b>>[1])
      BY <1>1, <1>3, <1>5
    <2>3. g[{1, 2}] = Put(g[{1, 2} \ {2}], <<a, b>>[2])
      BY <1>1, <1>3, <1>5
    <2> QED BY <1>3, <2>1, <2>2, <2>3
  <1>7. DOMAIN <<a, b>> = {1, 2}
    OBVIOUS
  <1>8. FoldLeft(Put, r, <<a, b>>) = g[{1, 2}]
    BY <1>7 DEF FoldLeft, MapThenFoldSet
  <1> QED BY <1>6, <1>8 DEF PutBoth

LEMMA LineHolds ==
  ASSUME NEW r, RingType(r), NEW read \in Seq(Entry), RingHolds(r, read), NEW line \in Pieces
  PROVE  LET s == FoldLeft(Put, r, Entries(line))
         IN  RingType(s) /\ RingHolds(s, read \o Entries(line))
  <1>1. CASE Entries(line) = <<>>
    BY <1>1, FoldNone, ConcatEmptySeq
  <1>2. ASSUME NEW a \in Entry, Entries(line) = <<a>>
        PROVE  LET s == FoldLeft(Put, r, Entries(line))
               IN  RingType(s) /\ RingHolds(s, read \o Entries(line))
    <2>1. read \o <<a>> = Append(read, a)
      BY AppendIsConcat
    <2> QED BY <1>2, <2>1, FoldOne, PutHolds
  <1>3. ASSUME NEW a \in Entry, NEW b \in Entry, Entries(line) = <<a, b>>
        PROVE  LET s == FoldLeft(Put, r, Entries(line))
               IN  RingType(s) /\ RingHolds(s, read \o Entries(line))
    <2> DEFINE ra == Append(read, a)
    <2>1. /\ ra \in Seq(Entry) /\ Len(ra) = Len(read) + 1 /\ ra[Len(read) + 1] = a
          /\ \A i \in 1..Len(read) : ra[i] = read[i]
          /\ Len(read) \in Nat
      BY AppendProperties, LenProperties
    <2> HIDE DEF ra
    <2> DEFINE rab == Append(ra, b)
               w == read \o <<a, b>>
    <2>2. /\ rab \in Seq(Entry) /\ Len(rab) = Len(ra) + 1 /\ rab[Len(ra) + 1] = b
          /\ \A i \in 1..Len(ra) : rab[i] = ra[i]
      BY <2>1, AppendProperties
    <2>3. /\ <<a, b>> \in Seq(Entry) /\ Len(<<a, b>>) = 2
          /\ <<a, b>>[1] = a /\ <<a, b>>[2] = b
      OBVIOUS
    <2>4. /\ w \in Seq(Entry) /\ Len(w) = Len(read) + 2
          /\ \A i \in 1..(Len(read) + 2) :
                w[i] = IF i <= Len(read) THEN read[i] ELSE <<a, b>>[i - Len(read)]
      BY <2>3, ConcatProperties
    <2> HIDE DEF rab, w
    <2>5. \A i \in 1..Len(w) : w[i] = rab[i]
      BY <2>1, <2>2, <2>3, <2>4
    <2>6. w = rab
      BY <2>1, <2>2, <2>4, <2>5, SeqEqual
    <2>7. RingType(Put(r, a)) /\ RingHolds(Put(r, a), ra)
      BY PutHolds DEF ra
    <2>8. RingType(Put(Put(r, a), b)) /\ RingHolds(Put(Put(r, a), b), rab)
      BY <2>1, <2>7, PutHolds DEF rab
    <2>9. FoldLeft(Put, r, Entries(line)) = PutBoth(r, a, b)
      BY <1>3, FoldTwo
    <2>10. w = read \o Entries(line)
      BY <1>3 DEF w
    <2> QED BY <2>6, <2>8, <2>9, <2>10 DEF PutBoth
  <1> QED BY <1>1, <1>2, <1>3, EntriesType

LEMMA LineType ==
  ASSUME NEW r, RingType(r), NEW line \in Pieces
  PROVE  RingType(FoldLeft(Put, r, Entries(line)))
  <1>1. CASE Entries(line) = <<>>
    BY <1>1, FoldNone
  <1>2. ASSUME NEW a \in Entry, Entries(line) = <<a>>
        PROVE  RingType(FoldLeft(Put, r, Entries(line)))
    BY <1>2, FoldOne, PutType
  <1>3. ASSUME NEW a \in Entry, NEW b \in Entry, Entries(line) = <<a, b>>
        PROVE  RingType(FoldLeft(Put, r, Entries(line)))
    <2>1. RingType(Put(r, a))
      BY PutType
    <2>2. RingType(Put(Put(r, a), b))
      BY <2>1, PutType
    <2>3. FoldLeft(Put, r, Entries(line)) = PutBoth(r, a, b)
      BY <1>3, FoldTwo
    <2> QED BY <2>2, <2>3 DEF PutBoth
  <1> QED BY <1>1, <1>2, <1>3, EntriesType

LEMMA HistoryType ==
  ASSUME RingType(ring)
  PROVE  History \in Seq(Entry)
  <1> DEFINE n == ring.count
             start == IF n < MaxMsgs THEN 0 ELSE ring.write_idx
             h == [i \in 1..n |-> ring.messages[(start + i - 1) % MaxMsgs]]
  <1>1. n \in Nat /\ MaxMsgs \in Nat \ {0} /\ start \in Nat
    BY SessionFileAssumption DEF RingType
  <1>2. \A i \in 1..n : (start + i - 1) % MaxMsgs \in 0..(MaxMsgs - 1)
    BY <1>1
  <1>3. h \in [1..n -> Entry]
    BY <1>2 DEF RingType
  <1>4. History = h
    BY DEF History
  <1> HIDE DEF h, n
  <1> QED BY <1>1, <1>3, <1>4, SeqDef

(* The array made of the ring is the latest of what was read. *)
LEMMA HistoryOfRing ==
  ASSUME RingType(ring), NEW read \in Seq(Entry), RingHolds(ring, read)
  PROVE  History \in Seq(Entry) /\ History = Latest(read)
  <1> DEFINE n == ring.count
             d == IF Len(read) > MaxMsgs THEN Len(read) - MaxMsgs ELSE 0
             l == Latest(read)
  <1>1. /\ MaxMsgs \in Nat \ {0} /\ Len(read) \in Nat
        /\ n \in 0..MaxMsgs /\ n = Len(read) - d /\ d \in Nat
    BY SessionFileAssumption, LenProperties DEF RingType, RingHolds
  <1>2. /\ l \in Seq(Entry) /\ Len(l) = n /\ \A i \in 1..n : l[i] = read[d + i]
    <2> DEFINE m == d + 1
               k == Len(read)
    <2>1. m \in Nat /\ k \in Nat /\ m \in 1..(k + 1) /\ m = d + 1 /\ n = k - d
      BY <1>1
    <2>2. l = SubSeq(read, m, k)
      BY <1>1 DEF Latest
    <2> HIDE DEF l, m, n, d
    <2>3. \A i \in m..k : read[i] \in Entry
      BY <2>1, ElementOfSeq
    <2> HIDE DEF k
    <2>4. /\ l \in Seq(Entry)
          /\ Len(l) = IF m <= k THEN k - m + 1 ELSE 0
          /\ \A i \in 1..(k - m + 1) : l[i] = read[m + i - 1]
      BY <2>1, <2>2, <2>3, SubSeqProperties
    <2>5. Len(l) = n
      BY <1>1, <2>1, <2>4
    <2>6. ASSUME NEW i \in 1..n
          PROVE  l[i] = read[d + i]
      <3>1. i \in 1..(k - m + 1) /\ m + i - 1 = d + i
        BY <1>1, <2>1
      <3> QED BY <2>4, <3>1
    <2> QED BY <2>4, <2>5, <2>6
  <1>3. \A i \in 1..n : ring.messages[Place(ring, i)] = read[d + i]
    <2> SUFFICES ASSUME NEW i \in 1..n
                 PROVE  ring.messages[Place(ring, i)] = read[d + i]
      OBVIOUS
    <2>1. ring.messages[Place(ring, i)] = read[Len(read) - ring.count + i]
      BY DEF RingHolds
    <2>2. Len(read) - ring.count + i = d + i
      BY <1>1
    <2> QED BY <2>1, <2>2
  <1> DEFINE start == IF n < MaxMsgs THEN 0 ELSE ring.write_idx
             h == [i \in 1..n |-> ring.messages[(start + i - 1) % MaxMsgs]]
  <1>4. History = h
    BY DEF History
  <1>5. \A i \in 1..n : (start + i - 1) % MaxMsgs = Place(ring, i)
    <2> SUFFICES ASSUME NEW i \in 1..n
                 PROVE  (start + i - 1) % MaxMsgs = Place(ring, i)
      OBVIOUS
    <2> DEFINE x == start + i - 1
    <2>1. x \in 0..(2 * MaxMsgs - 1)
      BY <1>1 DEF RingType
    <2>2. x % MaxMsgs = IF x < MaxMsgs THEN x ELSE x - MaxMsgs
      <3> HIDE DEF x
      <3> QED BY <2>1, Wrapped
    <2> QED BY <1>1, <2>2 DEF Place, RingType
  <1>6. \A i \in 1..n : h[i] = l[i] /\ l[i] \in Entry
    BY <1>2, <1>3, <1>5, ElementOfSeq
  <1> HIDE DEF l
  <1>7. h \in Seq(Entry) /\ Len(h) = n
    <2>1. h \in [1..n -> Entry]
      BY <1>6
    <2>2. n \in Nat
      BY <1>1
    <2> HIDE DEF h, n
    <2>3. h \in Seq(Entry)
      BY <2>1, <2>2, SeqDef
    <2> QED BY <2>1, <2>2, <2>3, LenProperties
  <1> HIDE DEF h, n
  <1>8. h = l
    BY <1>2, <1>6, <1>7, SeqEqual
  <1> QED BY <1>4, <1>7, <1>8 DEF l

----------------------------------------------------------------------------
(* Types. *)

FileOK ==
    /\ lines \in Seq(Pieces) /\ ended \in BOOLEAN /\ (~ended => lines # <<>>)
    /\ handle \in {"none", "append", "read", "removed"}
    /\ RingType(ring) /\ at \in Nat \ {0}

TurnOK ==
    /\ pc \in {"idle", "history", "think", "tool", "question", "answer"}
    /\ turn \in 0..MaxTurns /\ conversation \in Seq(Entry)
    /\ resets \in Nat /\ shorts \in Nat
    /\ said \subseteq Message /\ cleared \in BOOLEAN
    /\ pc # "idle" => turn # 0

HandleOK ==
    /\ pc \in {"idle", "think", "tool"} => handle = "none"
    /\ pc = "history" => handle \in {"read", "removed"}
    /\ pc \in {"question", "answer"} => handle # "read"

FilesInv == FileOK /\ TurnOK /\ HandleOK /\ MemoryTypeOK(0..MaxTurns)

(* A piece is added to the last line, or is a line of its own. *)
LEMMA WithPieceIsAFile ==
  ASSUME FileOK, NEW p \in Piece
  PROVE  /\ WithPiece(p) \in Seq(Pieces) /\ WithPiece(p) # <<>>
         /\ Len(lines) \in Nat
         /\ ended => /\ Len(WithPiece(p)) = Len(lines) + 1
                     /\ WithPiece(p)[Len(lines) + 1] = <<p>>
                     /\ \A i \in 1..Len(lines) : WithPiece(p)[i] = lines[i]
         /\ ~ended => /\ Len(WithPiece(p)) = Len(lines)
                      /\ Len(lines) # 0
                      /\ WithPiece(p)[Len(lines)] = Append(lines[Len(lines)], p)
                      /\ \A i \in 1..Len(lines) :
                             i # Len(lines) => WithPiece(p)[i] = lines[i]
  <1>1. Len(lines) \in Nat /\ lines \in Seq(Pieces)
    BY LenProperties DEF FileOK
  <1>2. CASE ended
    <2>1. <<p>> \in Pieces
      <3>1. <<p>> \in Seq(Piece) /\ Len(<<p>>) = 1
        OBVIOUS
      <3> QED BY <3>1 DEF Pieces
    <2>2. WithPiece(p) = Append(lines, <<p>>)
      BY <1>2 DEF WithPiece
    <2> QED BY <1>1, <1>2, <2>1, <2>2, AppendProperties
  <1>3. CASE ~ended
    <2> DEFINE k == Len(lines)
               l == Append(lines[k], p)
    <2>1. k \in 1..Len(lines)
      BY <1>1, <1>3, EmptySeq DEF FileOK
    <2>2. lines[k] \in Seq(Piece)
      BY <1>1, <2>1, ElementOfSeq DEF Pieces
    <2>3. l \in Pieces
      BY <2>2, AppendProperties DEF Pieces
    <2>4. WithPiece(p) = [lines EXCEPT ![k] = l]
      BY <1>3 DEF WithPiece
    <2> HIDE DEF l
    <2>5. /\ WithPiece(p) \in Seq(Pieces) /\ Len(WithPiece(p)) = Len(lines)
          /\ \A j \in 1..Len(lines) : WithPiece(p)[j] = IF j = k THEN l ELSE lines[j]
      BY <1>1, <2>1, <2>3, <2>4, ExceptSeq
    <2>6. WithPiece(p) # <<>>
      BY <2>1, <2>5, EmptySeq
    <2>7. WithPiece(p)[k] = Append(lines[k], p)
      BY <2>1, <2>5 DEF l
    <2>8. \A i \in 1..Len(lines) : i # k => WithPiece(p)[i] = lines[i]
      BY <2>5
    <2>9. Len(lines) # 0
      BY <1>1, <2>1
    <2> QED BY <1>1, <1>3, <2>5, <2>6, <2>7, <2>8, <2>9
  <1> QED BY <1>2, <1>3

LEMMA SaidsAreMessages ==
  ASSUME TurnOK, HandleOK, NEW m \in Saids, handle = "append"
  PROVE  m \in Message
  BY DEF TurnOK, HandleOK, Saids, Message, Forms

(* A line that is cut leaves the file as it is, or a piece in it. *)
LEMMA CutAddsAPiece ==
  ASSUME NEW m \in Message, CutLine(m)
  PROVE  \/ UNCHANGED <<lines, ended>>
         \/ ended' = FALSE /\ \E p \in Piece : lines' = WithPiece(p)
  <1> SUFFICES ASSUME ~UNCHANGED <<lines, ended>>
               PROVE  ended' = FALSE /\ \E p \in Piece : lines' = WithPiece(p)
    OBVIOUS
  <1> DEFINE q == [m EXCEPT !.form = "short"]
  <1>1. ended' = FALSE /\ \E p \in {Part(q), Part(m), Whole(m)} : lines' = WithPiece(p)
    BY DEF CutLine
  <1>2. q \in Message
    BY DEF Message, Forms
  <1> HIDE DEF q
  <1>3. Part(q) \in Piece /\ Part(m) \in Piece /\ Whole(m) \in Piece
    BY <1>2 DEF Part, Whole, Piece
  <1> QED BY <1>1, <1>3

LEMMA FileStep ==
  ASSUME FileOK,
         \/ OpenRead \/ ReadLine \/ EndRead \/ OpenAppend \/ Clear \/ UNCHANGED fileVars
         \/ \E m : /\ handle = "append" => m \in Message
                   /\ PrintLine(m) \/ PrintShort(m) \/ Interrupted(m)
  PROVE  FileOK'
  <1>1. CASE OpenRead
    BY <1>1, EmptyRingHolds DEF OpenRead, FileOK
  <1>2. CASE ReadLine
    <2>1. Len(lines) \in Nat /\ at \in 1..Len(lines)
      BY <1>2, LenProperties DEF ReadLine, FileOK
    <2>2. lines[at] \in Pieces
      BY <2>1, ElementOfSeq DEF FileOK
    <2>3. RingType(FoldLeft(Put, ring, Entries(lines[at])))
      BY <2>2, LineType DEF FileOK
    <2>4. RingType(ring')
      BY <1>2, <2>3 DEF ReadLine
    <2> QED BY <1>2, <2>1, <2>4 DEF ReadLine, FileOK
  <1>3. CASE EndRead
    BY <1>3, EmptyRingHolds DEF EndRead, FileOK
  <1>4. CASE OpenAppend
    BY <1>4 DEF OpenAppend, FileOK
  <1>5. CASE Clear
    BY <1>5, EmptySeq DEF Clear, FileOK
  <1>6. ASSUME NEW m, handle = "append" => m \in Message, PrintLine(m)
        PROVE  FileOK'
    <2>1. CASE handle = "removed"
      BY <1>6, <2>1 DEF PrintLine, FileOK
    <2>2. CASE handle = "append"
      <3>1. Whole(m) \in Piece
        BY <1>6, <2>2 DEF Whole, Piece
      <3>2. lines' \in Seq(Pieces)
        BY <1>6, <2>2, <3>1, WithPieceIsAFile DEF PrintLine
      <3> QED BY <1>6, <2>2, <3>2 DEF PrintLine, FileOK
    <2> QED BY <1>6, <2>1, <2>2 DEF PrintLine
  <1>7. ASSUME NEW m, handle = "append" => m \in Message, PrintShort(m) \/ Interrupted(m)
        PROVE  FileOK'
    <2>1. \/ UNCHANGED <<lines, ended>>
          \/ ended' = FALSE /\ \E p \in Piece : lines' = WithPiece(p)
      <3>1. UNCHANGED <<lines, ended>> \/ (m \in Message /\ CutLine(m))
        BY <1>7 DEF PrintShort, Interrupted
      <3> QED BY <3>1, CutAddsAPiece
    <2>2. lines' \in Seq(Pieces) /\ ended' \in BOOLEAN /\ (~ended' => lines' # <<>>)
      BY <2>1, WithPieceIsAFile DEF FileOK
    <2>3. handle' = "none" /\ RingType(ring') /\ at' \in Nat \ {0}
      BY <1>7, EmptyRingHolds DEF PrintShort, Interrupted, FileOK
    <2> QED BY <2>2, <2>3 DEF FileOK
  <1>8. CASE UNCHANGED fileVars
    BY <1>8 DEF fileVars, FileOK
  <1> QED BY <1>1, <1>2, <1>3, <1>4, <1>5, <1>6, <1>7, <1>8

LEMMA FileActions ==
  ASSUME FilesInv, Next
  PROVE  \/ OpenRead \/ ReadLine \/ EndRead \/ OpenAppend \/ Clear \/ UNCHANGED fileVars
         \/ \E m : /\ handle = "append" => m \in Message
                   /\ PrintLine(m) \/ PrintShort(m) \/ Interrupted(m)
  <1>1. \A m \in Saids : handle = "append" => m \in Message
    BY SaidsAreMessages DEF FilesInv
  <1>2. CASE Begin
    BY <1>2 DEF Begin
  <1>3. CASE Read
    BY <1>3 DEF Read
  <1>4. CASE Prompt
    BY <1>4 DEF Prompt
  <1>5. CASE Tool \/ Decide \/ AppendFails \/ MemoryWrite \/ Write
    BY <1>5 DEF Tool, Decide, AppendFails, MemoryWrite, Write
  <1>6. CASE StartAppend
    BY <1>6 DEF StartAppend
  <1>7. CASE EndAppend \/ AppendShort
    BY <1>1, <1>7 DEF EndAppend, AppendShort
  <1>8. CASE SessionClear
    BY <1>8 DEF SessionClear
  <1>9. CASE Reset
    BY <1>1, <1>9 DEF Reset
  <1> QED BY <1>2, <1>3, <1>4, <1>5, <1>6, <1>7, <1>8, <1>9 DEF Next, Agent

LEMMA MemoryActions ==
  ASSUME FilesInv, Next
  PROVE  \/ UNCHANGED memoryVars
         \/ \E w \in Writers, f \in 0..MaxTurns : StartWrite(w, {f})
         \/ \E f \in 0..MaxTurns : StartEdit("agent", f)
         \/ \E w \in Writers : Truncate(w) \/ WriteOut(w)
         \/ MemoryReset
  <1>1. turn \in 0..MaxTurns /\ 0 \in 0..MaxTurns /\ "agent" \in Writers /\ "console" \in Writers
    BY FilesAssumption DEF FilesInv, TurnOK, Writers
  <1>2. CASE Begin \/ Read \/ Prompt \/ Decide \/ StartAppend \/ AppendFails \/ EndAppend
             \/ AppendShort \/ SessionClear
    BY <1>2 DEF Begin, Read, Prompt, Decide, StartAppend, AppendFails, EndAppend, AppendShort,
                SessionClear
  <1>3. CASE Tool
    BY <1>1, <1>3 DEF Tool
  <1>4. CASE MemoryWrite
    BY <1>1, <1>4 DEF MemoryWrite
  <1>5. CASE Write
    BY <1>5 DEF Write
  <1>6. CASE Reset
    BY <1>6 DEF Reset
  <1> QED BY <1>2, <1>3, <1>4, <1>5, <1>6 DEF Next, Agent

LEMMA MemoryStep ==
  ASSUME NEW Facts, MemoryTypeOK(Facts),
         \/ UNCHANGED memoryVars
         \/ \E w \in Writers, f \in Facts : StartWrite(w, {f})
         \/ \E f \in Facts : StartEdit("agent", f)
         \/ \E w \in Writers : Truncate(w) \/ WriteOut(w)
         \/ MemoryReset
  PROVE  MemoryTypeOK(Facts)'
  <1> DEFINE State == [pc : {"none", "open", "write"}, content : SUBSET Facts, edit : BOOLEAN]
  <1>1. CASE UNCHANGED memoryVars
    BY <1>1 DEF memoryVars, MemoryTypeOK
  <1>2. ASSUME NEW w \in Writers, NEW content \in SUBSET Facts, NEW edit \in BOOLEAN,
               Starts(w, content, edit)
        PROVE  MemoryTypeOK(Facts)'
    <2>1. [pc |-> "open", content |-> content, edit |-> edit] \in State
      OBVIOUS
    <2> QED BY <1>2, <2>1 DEF Starts, MemoryTypeOK
  <1>3. ASSUME NEW w \in Writers, NEW f \in Facts, StartWrite(w, {f})
        PROVE  MemoryTypeOK(Facts)'
    BY <1>2, <1>3 DEF StartWrite
  <1>4. ASSUME NEW f \in Facts, StartEdit("agent", f)
        PROVE  MemoryTypeOK(Facts)'
    <2>1. memory \cup {f} \in SUBSET Facts /\ "agent" \in Writers
      BY DEF MemoryTypeOK, Writers
    <2> QED BY <1>2, <1>4, <2>1 DEF StartEdit
  <1>5. ASSUME NEW w \in Writers, Truncate(w)
        PROVE  MemoryTypeOK(Facts)'
    <2>1. Resting \in State
      BY DEF Resting
    <2> QED BY <1>5, <2>1 DEF Truncate, MemoryTypeOK
  <1>6. ASSUME NEW w \in Writers, WriteOut(w)
        PROVE  MemoryTypeOK(Facts)'
    <2>1. Resting \in State /\ writer[w].content \subseteq Facts
      BY DEF Resting, MemoryTypeOK
    <2>2. writer' \in [Writers -> State] /\ intended' \subseteq Facts
      BY <1>6, <2>1 DEF WriteOut, Intended, MemoryTypeOK
    <2>3. PICK part \in SUBSET writer[w].content :
            /\ memory' \in {part, part \cup memory}
            /\ spoiled' = (part # writer[w].content \/ (spoiled /\ writer[w].edit))
      BY <1>6 DEF WriteOut
    <2>4. memory' \subseteq Facts
      BY <2>1, <2>3 DEF MemoryTypeOK
    <2>5. spoiled' \in BOOLEAN
      BY <2>3, Zenon DEF MemoryTypeOK
    <2> QED BY <1>6, <2>2, <2>4, <2>5 DEF WriteOut, MemoryTypeOK
  <1>7. CASE MemoryReset
    <2> DEFINE cut == {w \in Writers : writer[w].pc = "write"}
    <2>1. Resting \in State
      BY DEF Resting
    <2>2. writer' \in [Writers -> State] /\ tangled' = tangled
      BY <1>7, <2>1 DEF MemoryReset
    <2>3. \A w \in Writers : writer[w].content \subseteq Facts /\ Intended(w) \subseteq Facts
      BY DEF MemoryTypeOK, Intended
    <2>4. CASE cut = {}
      BY <1>7, <2>2, <2>4 DEF MemoryReset, MemoryTypeOK
    <2>5. CASE cut # {}
      <3>1. /\ memory' \in {memory} \cup UNION {SUBSET writer[w].content : w \in cut}
            /\ intended' = UNION {Intended(w) : w \in cut} /\ spoiled' = TRUE
        BY <1>7, <2>5 DEF MemoryReset
      <3>2. intended' \subseteq Facts
        BY <2>3, <3>1
      <3>3. memory' \subseteq Facts
        BY <2>3, <3>1 DEF MemoryTypeOK
      <3> QED BY <2>2, <3>1, <3>2, <3>3 DEF MemoryTypeOK
    <2> QED BY <2>4, <2>5
  <1> QED BY <1>1, <1>3, <1>4, <1>5, <1>6, <1>7

LEMMA InitFiles == Init => FilesInv
  <1> SUFFICES ASSUME Init PROVE FilesInv
    OBVIOUS
  <1>1. FileOK
    BY EmptyRingHolds, EmptySeq DEF Init, SessionFileInit, FileOK
  <1>2. TurnOK /\ HandleOK
    <2>1. MaxTurns \in Nat /\ <<>> \in Seq(Entry)
      BY FilesAssumption, EmptySeq
    <2>2. conversation \in Seq(Entry)
      BY <2>1 DEF Init
    <2>3. turn \in 0..MaxTurns
      BY <2>1 DEF Init
    <2> QED BY <2>2, <2>3 DEF Init, SessionFileInit, TurnOK, HandleOK
  <1>3. MemoryTypeOK(0..MaxTurns)
    BY DEF Init, MemoryInit, MemoryTypeOK, Resting
  <1> QED BY <1>1, <1>2, <1>3 DEF FilesInv

LEMMA TurnStep == FilesInv /\ Next => TurnOK' /\ HandleOK'
  <1> SUFFICES ASSUME FilesInv, Next PROVE TurnOK' /\ HandleOK'
    OBVIOUS
  <1> USE DEF FilesInv
  <1>1. CASE Begin
    <2>1. MaxTurns \in Nat
      BY FilesAssumption
    <2>2. turn' \in 0..MaxTurns /\ turn' # 0
      BY <1>1, <2>1 DEF Begin, TurnOK
    <2> QED BY <1>1, <2>2 DEF Begin, OpenRead, TurnOK, HandleOK
  <1>2. CASE Read
    BY <1>2 DEF Read, ReadLine, agentVars, TurnOK, HandleOK
  <1>3. CASE Prompt
    <2>1. History \in Seq(Entry)
      BY HistoryType DEF FileOK
    <2> QED BY <1>3, <2>1, EmptySeq DEF Prompt, EndRead, TurnOK, HandleOK
  <1>4. CASE Tool
    BY <1>4 DEF Tool, fileVars, TurnOK, HandleOK
  <1>5. CASE Decide
    BY <1>5, EmptySeq DEF Decide, fileVars, TurnOK, HandleOK
  <1>6. CASE StartAppend
    BY <1>6 DEF StartAppend, OpenAppend, agentVars, TurnOK, HandleOK
  <1>7. CASE AppendFails
    BY <1>7 DEF AppendFails, AfterAppend, fileVars, TurnOK, HandleOK
  <1>8. CASE EndAppend
    <2>1. PICK m \in Saids : /\ PrintLine(m)
                            /\ said' = IF handle = "append" THEN said \cup {m} ELSE said
      BY <1>8 DEF EndAppend
    <2>2. handle = "append" => m \in Message
      BY SaidsAreMessages
    <2> QED BY <1>8, <2>1, <2>2 DEF EndAppend, AfterAppend, PrintLine, TurnOK, HandleOK
  <1>9. CASE SessionClear
    BY <1>9 DEF SessionClear, Clear, agentVars, TurnOK, HandleOK
  <1>13. CASE AppendShort
    <2>1. PICK m \in Saids : PrintShort(m) /\ said' = said \cup {m}
      BY <1>13 DEF AppendShort
    <2>2. m \in Message
      BY <2>1, SaidsAreMessages DEF PrintShort
    <2> QED BY <1>13, <2>1, <2>2 DEF AppendShort, AfterAppend, PrintShort, TurnOK, HandleOK
  <1>10. CASE MemoryWrite
    BY <1>10 DEF MemoryWrite, agentVars, fileVars, TurnOK, HandleOK
  <1>11. CASE Write
    BY <1>11 DEF Write, agentVars, fileVars, TurnOK, HandleOK
  <1>12. CASE Reset
    BY <1>12, EmptySeq DEF Reset, Interrupted, TurnOK, HandleOK
  <1> QED BY <1>1, <1>2, <1>3, <1>4, <1>5, <1>6, <1>7, <1>8, <1>9, <1>10, <1>11, <1>12, <1>13
          DEF Next, Agent

LEMMA NextFiles == FilesInv /\ [Next]_vars => FilesInv'
  <1> SUFFICES ASSUME FilesInv, [Next]_vars PROVE FilesInv'
    OBVIOUS
  <1>1. CASE Next
    <2>1. FileOK'
      BY <1>1, FileActions, FileStep DEF FilesInv
    <2>2. MemoryTypeOK(0..MaxTurns)'
      <3> DEFINE Facts == 0..MaxTurns
      <3>1. /\ MemoryTypeOK(Facts)
            /\ \/ UNCHANGED memoryVars
               \/ \E w \in Writers, f \in Facts : StartWrite(w, {f})
               \/ \E f \in Facts : StartEdit("agent", f)
               \/ \E w \in Writers : Truncate(w) \/ WriteOut(w)
               \/ MemoryReset
        BY <1>1, MemoryActions DEF FilesInv
      <3> QED BY <3>1, MemoryStep
    <2> QED BY <1>1, <2>1, <2>2, TurnStep DEF FilesInv
  <1>2. CASE UNCHANGED vars
    BY <1>2 DEF vars, fileVars, memoryVars, agentVars, FilesInv, FileOK, TurnOK, HandleOK,
                MemoryTypeOK
  <1> QED BY <1>1, <1>2

LEMMA FilesInvariant == Spec => []FilesInv
  BY InitFiles, NextFiles, PTL DEF Spec

LEMMA TypesOfInv == FilesInv => TypeOK
  <1> SUFFICES ASSUME FilesInv PROVE TypeOK
    OBVIOUS
  <1>1. lines \in Seq(Seq(Piece)) /\ <<>> \notin Range(lines)
    <2>1. \A i \in 1..Len(lines) : lines[i] \in Seq(Piece) /\ lines[i] # <<>>
      BY ElementOfSeq DEF FilesInv, FileOK, Pieces
    <2>2. lines \in [1..Len(lines) -> Seq(Piece)] /\ Len(lines) \in Nat
      BY <2>1, LenProperties DEF FilesInv, FileOK
    <2>3. lines \in Seq(Seq(Piece))
      BY <2>2, SeqDef
    <2> QED BY <2>1, <2>2, <2>3 DEF Range
  <1>2. SessionFileTypeOK
    BY <1>1 DEF FilesInv, FileOK, RingType, SessionFileTypeOK, Piece, Entry
  <1> QED BY <1>2 DEF FilesInv, TurnOK, TypeOK, Entry

(* Type correctness: what the file and the memory hold, what the ring has  *)
(* room for and what the agent holds of it keep their types, and none of   *)
(* the three counters of the ring leaves its range.                        *)
THEOREM FilesTypeCorrect == Spec => []TypeOK
  BY FilesInvariant, TypesOfInv, PTL

----------------------------------------------------------------------------
(* The memory. *)

(* While no two writers overlap, at most one is at work.  Until it opens   *)
(* the file nothing has happened to it; from then on the file is empty; an *)
(* edit keeps what it found, which is all there should be unless a write   *)
(* was cut before.                                                         *)
AsIntended == memory \subseteq intended /\ (~spoiled => memory = intended)

Busy(w) ==
    /\ Alone(w)
    /\ writer[w].edit /\ ~spoiled => intended \subseteq writer[w].content
    /\ \/ writer[w].pc = "open" /\ AsIntended
       \/ writer[w].pc = "write" /\ memory = {}

MemoryInv ==
    ~tangled => \/ (\A w \in Writers : writer[w].pc = "none") /\ AsIntended
                \/ \E w \in Writers : Busy(w)

LEMMA OneMemoryStep ==
  ASSUME NEW Facts, MemoryTypeOK(Facts), MemoryInv,
         \/ UNCHANGED memoryVars
         \/ \E w \in Writers, f \in Facts : StartWrite(w, {f})
         \/ \E f \in Facts : StartEdit("agent", f)
         \/ \E w \in Writers : Truncate(w) \/ WriteOut(w)
         \/ MemoryReset
  PROVE  MemoryInv'
  <1> SUFFICES ASSUME ~tangled' PROVE MemoryInv'
    BY DEF MemoryInv
  <1>1. CASE UNCHANGED memoryVars
    BY <1>1 DEF memoryVars, MemoryInv, AsIntended, Busy, Alone
  <1>2. ASSUME NEW w \in Writers, NEW content, NEW edit, Starts(w, content, edit),
               edit /\ ~spoiled => memory \subseteq content
        PROVE  MemoryInv'
    <2>1. /\ ~tangled /\ writer[w].pc = "none" /\ Alone(w)
          /\ memory' = memory /\ intended' = intended /\ spoiled' = spoiled
      BY <1>2 DEF Starts, MemoryTypeOK
    <2>2. AsIntended
      BY <2>1 DEF MemoryInv, Busy, Alone
    <2>3. /\ writer'[w] = [pc |-> "open", content |-> content, edit |-> edit]
          /\ \A v \in Writers \ {w} : writer'[v].pc = "none"
      BY <1>2, <2>1 DEF Starts, MemoryTypeOK, Alone
    <2>4. AsIntended' /\ (writer'[w].edit /\ ~spoiled' => intended' \subseteq writer'[w].content)
      BY <1>2, <2>1, <2>2, <2>3 DEF AsIntended
    <2>5. Busy(w)'
      BY <2>3, <2>4 DEF Busy, Alone
    <2> QED BY <2>5 DEF MemoryInv
  <1>3. ASSUME NEW w \in Writers, NEW f \in Facts, StartWrite(w, {f})
        PROVE  MemoryInv'
    BY <1>2, <1>3 DEF StartWrite
  <1>4. ASSUME NEW f \in Facts, StartEdit("agent", f)
        PROVE  MemoryInv'
    <2>1. "agent" \in Writers /\ memory \subseteq memory \cup {f}
      BY DEF Writers
    <2> QED BY <1>2, <1>4, <2>1 DEF StartEdit
  <1>5. ASSUME NEW w \in Writers, Truncate(w)
        PROVE  MemoryInv'
    <2>1. ~tangled /\ writer[w].pc = "open"
      BY <1>5 DEF Truncate
    <2>2. Busy(w) /\ AsIntended
      BY <2>1 DEF MemoryInv, Busy, Alone
    <2>3. intended' = intended /\ spoiled' = spoiled
      BY <1>5 DEF Truncate
    <2>4. CASE writer' = [writer EXCEPT ![w].pc = "write"] /\ memory' = {}
      <3>1. /\ writer'[w].pc = "write" /\ writer'[w].content = writer[w].content
            /\ writer'[w].edit = writer[w].edit
            /\ \A v \in Writers \ {w} : writer'[v].pc = "none"
        BY <2>2, <2>4 DEF MemoryTypeOK, Busy, Alone
      <3>2. Busy(w)'
        BY <2>2, <2>3, <2>4, <3>1 DEF Busy, Alone
      <3> QED BY <3>2 DEF MemoryInv
    <2>5. CASE writer' = [writer EXCEPT ![w] = Resting] /\ UNCHANGED memory
      <3>1. \A v \in Writers : writer'[v].pc = "none"
        BY <2>2, <2>5 DEF MemoryTypeOK, Busy, Alone, Resting
      <3> QED BY <2>2, <2>3, <2>5, <3>1 DEF MemoryInv, AsIntended
    <2> QED BY <1>5, <2>4, <2>5 DEF Truncate
  <1>6. ASSUME NEW w \in Writers, WriteOut(w)
        PROVE  MemoryInv'
    <2>1. ~tangled /\ writer[w].pc = "write"
      BY <1>6 DEF WriteOut
    <2>2. Busy(w) /\ memory = {}
      BY <2>1 DEF MemoryInv, Busy, Alone
    <2>3. \A v \in Writers : writer'[v].pc = "none"
      BY <1>6, <2>2 DEF WriteOut, MemoryTypeOK, Busy, Alone, Resting
    <2>4. PICK part \in SUBSET writer[w].content :
            /\ memory' \in {part, part \cup memory}
            /\ spoiled' = (part # writer[w].content \/ (spoiled /\ writer[w].edit))
      BY <1>6 DEF WriteOut
    <2>5. memory' = part
      BY <2>2, <2>4
    <2>6. intended' = Intended(w) /\ writer[w].content \subseteq Intended(w)
      BY <1>6 DEF WriteOut, Intended
    <2>7. ~spoiled' => memory' = intended'
      <3>1. ~spoiled' => part = writer[w].content /\ (writer[w].edit => ~spoiled)
        BY <2>4
      <3>2. part = writer[w].content /\ (writer[w].edit => ~spoiled) => Intended(w) = part
        BY <2>2 DEF Busy, Intended
      <3> QED BY <2>5, <2>6, <3>1, <3>2
    <2> QED BY <2>3, <2>5, <2>6, <2>7 DEF MemoryInv, AsIntended
  <1>7. CASE MemoryReset
    <2> DEFINE cut == {w \in Writers : writer[w].pc = "write"}
    <2>1. ~tangled /\ \A v \in Writers : writer'[v].pc = "none"
      BY <1>7 DEF MemoryReset, Resting
    <2>2. CASE cut = {}
      <3>1. AsIntended
        BY <2>1, <2>2 DEF MemoryInv, Busy
      <3> QED BY <1>7, <2>1, <2>2, <3>1 DEF MemoryReset, MemoryInv, AsIntended
    <2>3. CASE cut # {}
      <3>1. PICK w \in Writers : Busy(w) /\ writer[w].pc = "write"
        BY <2>1, <2>3 DEF MemoryInv, Busy, Alone
      <3>2. cut = {w} /\ memory = {}
        BY <3>1 DEF Busy, Alone
      <3>3. /\ memory' \in {memory} \cup UNION {SUBSET writer[v].content : v \in cut}
            /\ intended' = UNION {Intended(v) : v \in cut} /\ spoiled' = TRUE
        BY <1>7, <2>3 DEF MemoryReset
      <3>4. intended' = Intended(w) /\ memory' \subseteq writer[w].content
        BY <3>2, <3>3
      <3>5. memory' \subseteq intended'
        BY <3>4 DEF Intended
      <3> QED BY <2>1, <3>3, <3>5 DEF MemoryInv, AsIntended
    <2> QED BY <2>2, <2>3
  <1> QED BY <1>1, <1>3, <1>4, <1>5, <1>6, <1>7

LEMMA MemoryInvariant == Spec => []MemoryInv
  <1>1. Init => MemoryInv
    BY DEF Init, MemoryInit, MemoryInv, AsIntended, Resting
  <1>2. FilesInv /\ MemoryInv /\ [Next]_vars => MemoryInv'
    <2> SUFFICES ASSUME FilesInv, MemoryInv, [Next]_vars PROVE MemoryInv'
      OBVIOUS
    <2> DEFINE Facts == 0..MaxTurns
    <2>1. /\ MemoryTypeOK(Facts)
          /\ \/ UNCHANGED memoryVars
             \/ \E w \in Writers, f \in Facts : StartWrite(w, {f})
             \/ \E f \in Facts : StartEdit("agent", f)
             \/ \E w \in Writers : Truncate(w) \/ WriteOut(w)
             \/ MemoryReset
      <3>1. CASE Next
        BY <3>1, MemoryActions DEF FilesInv
      <3>2. CASE UNCHANGED vars
        BY <3>2 DEF vars, memoryVars, FilesInv
      <3> QED BY <3>1, <3>2
    <2> HIDE DEF Facts
    <2> QED BY <2>1, OneMemoryStep
  <1> QED BY <1>1, <1>2, FilesInvariant, PTL DEF Spec

(* MemoryAsWritten: as long as no two writers of MEMORY.md overlap, the    *)
(* file holds what its writes and edits, one after the other, give; where  *)
(* one was cut by a reset or a full flash, a part of that and nothing      *)
(* else, until the next whole content is written.                          *)
THEOREM MemoryKept == Spec => []MemoryAsWritten
  <1>1. MemoryInv => MemoryAsWritten
    <2> SUFFICES ASSUME MemoryInv, ~tangled, Alone("none") PROVE AsIntended
      BY DEF MemoryAsWritten, AsIntended
    <2>1. \A w \in Writers : writer[w].pc = "none"
      BY DEF Alone, Writers
    <2> QED BY <2>1 DEF MemoryInv, Busy
  <1> QED BY <1>1, MemoryInvariant, PTL

----------------------------------------------------------------------------
(* The history the agent goes to the model with. *)

(* While the agent reads, its ring holds the latest of the lines it has    *)
(* read, of the session as it opened it; only a clear can have changed the *)
(* file meanwhile.                                                         *)
Reading ==
    pc = "history" =>
        /\ at <= Len(opened) + 1
        /\ handle = "read" => lines = opened
        /\ handle = "removed" => cleared
        /\ RingHolds(ring, Readable(SubSeq(opened, 1, at - 1)))

HistoryInv == opened \in Seq(Pieces) /\ Reading /\ HistoryIsTheLatest

(* The first n lines of a file. *)
LEMMA FirstLines ==
  ASSUME NEW ls \in Seq(Pieces), NEW n \in 0..Len(ls)
  PROVE  /\ SubSeq(ls, 1, n) \in Seq(Pieces)
         /\ n = 0 => SubSeq(ls, 1, n) = <<>>
         /\ n # 0 => /\ ls[n] \in Pieces
                     /\ SubSeq(ls, 1, n) = Append(SubSeq(ls, 1, n - 1), ls[n])
  <1>1. Len(ls) \in Nat /\ n \in Int /\ 1 \in Int
    BY LenProperties
  <1>2. \A i \in 1..n : ls[i] \in Pieces
    BY <1>1, ElementOfSeq
  <1> DEFINE t == SubSeq(ls, 1, n)
  <1>3. t \in Seq(Pieces) /\ Len(t) = n /\ \A i \in 1..n : t[i] = ls[i]
    <2>1. /\ t \in Seq(Pieces) /\ Len(t) = IF 1 <= n THEN n - 1 + 1 ELSE 0
          /\ \A i \in 1..(n - 1 + 1) : t[i] = ls[1 + i - 1]
      BY <1>1, <1>2, SubSeqProperties
    <2> HIDE DEF t
    <2> QED BY <1>1, <2>1
  <1> HIDE DEF t
  <1>4. CASE n = 0
    BY <1>3, <1>4, EmptySeq DEF t
  <1>5. CASE n # 0
    <2> DEFINE k == n - 1
               u == SubSeq(ls, 1, k)
               v == Append(u, ls[n])
    <2>1. k \in 0..Len(ls) /\ k \in Int /\ k + 1 = n
      BY <1>1, <1>5
    <2> HIDE DEF k
    <2>2. \A i \in 1..k : ls[i] \in Pieces
      BY <1>2, <2>1
    <2>3. u \in Seq(Pieces) /\ Len(u) = k /\ \A i \in 1..k : u[i] = ls[i]
      <3>1. /\ u \in Seq(Pieces) /\ Len(u) = IF 1 <= k THEN k - 1 + 1 ELSE 0
            /\ \A i \in 1..(k - 1 + 1) : u[i] = ls[1 + i - 1]
        BY <1>1, <2>1, <2>2, SubSeqProperties
      <3> HIDE DEF u
      <3> QED BY <1>1, <2>1, <3>1
    <2> HIDE DEF u
    <2>4. ls[n] \in Pieces
      BY <1>1, <1>2, <1>5
    <2>5. /\ v \in Seq(Pieces) /\ Len(v) = k + 1 /\ v[k + 1] = ls[n]
          /\ \A i \in 1..k : v[i] = u[i]
      BY <2>3, <2>4, AppendProperties
    <2> HIDE DEF v
    <2>6. \A i \in 1..Len(t) : t[i] = v[i]
      BY <1>3, <2>1, <2>3, <2>5
    <2>7. t = v
      BY <1>3, <2>1, <2>5, <2>6, SeqEqual
    <2> QED BY <1>3, <1>5, <2>4, <2>7 DEF t, u, v, k
  <1> QED BY <1>4, <1>5

LEMMA HistoryStep == FilesInv /\ HistoryInv /\ Next => HistoryInv'
  <1> SUFFICES ASSUME FilesInv, HistoryInv, Next PROVE HistoryInv'
    OBVIOUS
  <1>1. CASE Begin
    <2>1. /\ pc' = "history" /\ opened' = lines /\ lines' = lines /\ at' = 1
          /\ ring' = EmptyRing /\ handle' = "read" /\ lines \in Seq(Pieces)
      BY <1>1 DEF Begin, OpenRead, FilesInv, FileOK
    <2>2. Len(lines) \in Nat /\ 0 \in 0..Len(lines)
      BY <2>1, LenProperties
    <2>3. SubSeq(lines, 1, 0) = <<>>
      BY <2>1, <2>2, FirstLines
    <2>4. RingHolds(EmptyRing, Readable(SubSeq(lines, 1, 0)))
      BY <2>3, EmptyRingHolds, NothingToRead
    <2>5. RingHolds(ring', Readable(SubSeq(opened', 1, at' - 1)))
      <3>1. at' - 1 = 0
        BY <2>1
      <3> QED BY <2>1, <2>4, <3>1
    <2> QED BY <2>1, <2>2, <2>5 DEF HistoryInv, Reading, HistoryIsTheLatest
  <1>2. CASE Read
    <2>1. /\ pc = "history" /\ pc' = "history" /\ handle = "read" /\ handle' = "read"
          /\ opened' = opened /\ lines' = lines /\ at' = at + 1 /\ at <= Len(lines)
          /\ ring' = FoldLeft(Put, ring, Entries(lines[at])) /\ cleared' = cleared
      BY <1>2 DEF Read, ReadLine, agentVars
    <2>2. /\ opened \in Seq(Pieces) /\ lines = opened /\ RingType(ring) /\ at \in Nat \ {0}
          /\ RingHolds(ring, Readable(SubSeq(opened, 1, at - 1)))
      BY <2>1 DEF HistoryInv, Reading, FilesInv, FileOK
    <2>3. Len(opened) \in Nat /\ at \in 0..Len(opened) /\ at # 0 /\ at - 1 \in 0..Len(opened)
      BY <2>1, <2>2, LenProperties
    <2> DEFINE l == opened[at]
               k == at - 1
               u == SubSeq(opened, 1, k)
    <2>4. l \in Pieces /\ SubSeq(opened, 1, at) = Append(u, l)
      BY <2>2, <2>3, FirstLines
    <2>5. u \in Seq(Pieces)
      <3> HIDE DEF k
      <3> QED BY <2>2, <2>3, FirstLines DEF k
    <2>6. RingHolds(ring, Readable(u))
      BY <2>2
    <2> HIDE DEF l, u
    <2>7. /\ Readable(u) \in Seq(Entry)
          /\ Readable(Append(u, l)) = Readable(u) \o Entries(l)
      BY <2>4, <2>5, ReadableAppend
    <2>8. RingHolds(FoldLeft(Put, ring, Entries(l)), Readable(u) \o Entries(l))
      <3> DEFINE r == ring
                 read == Readable(u)
      <3>1. RingType(r) /\ read \in Seq(Entry) /\ RingHolds(r, read)
        BY <2>2, <2>6, <2>7
      <3> HIDE DEF r, read
      <3>2. RingHolds(FoldLeft(Put, r, Entries(l)), read \o Entries(l))
        BY <2>4, <3>1, LineHolds
      <3> QED BY <3>2 DEF r, read
    <2>9. RingHolds(ring', Readable(SubSeq(opened', 1, at' - 1)))
      <3>1. at' - 1 = at
        BY <2>1, <2>2
      <3>2. SubSeq(opened', 1, at' - 1) = Append(u, l)
        BY <2>1, <2>4, <3>1
      <3>3. ring' = FoldLeft(Put, ring, Entries(l))
        BY <2>1, <2>2 DEF l
      <3> QED BY <2>7, <2>8, <3>2, <3>3
    <2>10. at' <= Len(opened') + 1
      BY <2>1, <2>2, <2>3
    <2> QED BY <2>1, <2>2, <2>9, <2>10 DEF HistoryInv, Reading, HistoryIsTheLatest
  <1>3. CASE Prompt
    <2> DEFINE n == at - 1
               u == SubSeq(opened, 1, n)
               read == Readable(u)
    <2>1. /\ pc = "history" /\ pc' = "think" /\ opened' = opened /\ cleared' = cleared
          /\ conversation' = History \/ conversation' = <<>>
          /\ (handle = "read" /\ at > Len(lines)) \/ handle = "removed"
      BY <1>3 DEF Prompt, EndRead
    <2>2. /\ opened \in Seq(Pieces) /\ at <= Len(opened) + 1 /\ at \in Nat \ {0}
          /\ handle = "read" => lines = opened
          /\ handle = "removed" => cleared
          /\ RingType(ring) /\ RingHolds(ring, read)
      BY <2>1 DEF HistoryInv, Reading, FilesInv, FileOK
    <2>3. Len(opened) \in Nat /\ n \in 0..Len(opened)
      BY <2>2, LenProperties
    <2>4. n \in (IF cleared THEN 0 ELSE Len(opened))..Len(opened)
      BY <2>1, <2>2, <2>3
    <2> HIDE DEF n
    <2>5. u \in Seq(Pieces)
      BY <2>2, <2>3, FirstLines
    <2>6. read \in Seq(Entry)
      <3> HIDE DEF u
      <3> QED BY <2>5, ReadableType
    <2>7. History = Latest(read)
      <3> HIDE DEF read
      <3> QED BY <2>2, <2>6, HistoryOfRing
    <2>8. conversation' # <<>> => conversation' = Latest(Readable(SubSeq(opened', 1, n)))
      BY <2>1, <2>7
    <2> QED BY <2>1, <2>4, <2>8 DEF HistoryInv, Reading, HistoryIsTheLatest
  <1>4. CASE Tool
    BY <1>4 DEF Tool, HistoryInv, Reading, HistoryIsTheLatest
  <1>5. CASE Decide
    BY <1>5, EmptySeq DEF Decide, HistoryInv, Reading, HistoryIsTheLatest
  <1>6. CASE StartAppend
    BY <1>6 DEF StartAppend, agentVars, HistoryInv, Reading, HistoryIsTheLatest
  <1>7. CASE AppendFails
    BY <1>7 DEF AppendFails, AfterAppend, HistoryInv, Reading, HistoryIsTheLatest
  <1>8. CASE EndAppend \/ AppendShort
    BY <1>8 DEF EndAppend, AppendShort, AfterAppend, HistoryInv, Reading, HistoryIsTheLatest
  <1>9. CASE SessionClear
    <2>1. /\ pc' = pc /\ conversation' = conversation /\ opened' = opened /\ cleared' = TRUE
          /\ ring' = ring /\ at' = at
          /\ handle' = IF handle = "none" THEN "none" ELSE "removed"
      BY <1>9 DEF SessionClear, Clear, agentVars
    <2>2. Reading'
      BY <2>1 DEF HistoryInv, Reading
    <2>3. HistoryIsTheLatest'
      <3> SUFFICES ASSUME pc = "think", conversation # <<>>
                   PROVE  HistoryIsTheLatest'
        BY <2>1 DEF HistoryIsTheLatest
      <3>1. PICK n \in (IF cleared THEN 0 ELSE Len(opened))..Len(opened) :
              conversation = Latest(Readable(SubSeq(opened, 1, n)))
        BY DEF HistoryInv, HistoryIsTheLatest
      <3>2. n \in 0..Len(opened)
        BY <3>1, LenProperties DEF HistoryInv
      <3> QED BY <2>1, <3>1, <3>2 DEF HistoryIsTheLatest
    <2> QED BY <2>1, <2>2, <2>3 DEF HistoryInv
  <1>10. CASE MemoryWrite \/ Write
    <2>1. UNCHANGED <<fileVars, agentVars, opened, cleared>>
      BY <1>10 DEF MemoryWrite, Write
    <2> QED BY <2>1 DEF fileVars, agentVars, HistoryInv, Reading, HistoryIsTheLatest
  <1>11. CASE Reset
    BY <1>11, EmptySeq DEF Reset, HistoryInv, Reading, HistoryIsTheLatest
  <1> QED BY <1>1, <1>2, <1>3, <1>4, <1>5, <1>6, <1>7, <1>8, <1>9, <1>10, <1>11
          DEF Next, Agent

(* HistoryIsTheLatest: whatever the console clears while the agent reads   *)
(* the session, it goes to the model with the latest messages of it, in    *)
(* their order, never with a hole.                                         *)
THEOREM HistoryFaithful == Spec => []HistoryIsTheLatest
  <1>1. Init => HistoryInv
    BY EmptySeq DEF Init, HistoryInv, Reading, HistoryIsTheLatest
  <1>2. FilesInv /\ HistoryInv /\ [Next]_vars => HistoryInv'
    <2>1. HistoryInv /\ UNCHANGED vars => HistoryInv'
      BY DEF vars, fileVars, agentVars, HistoryInv, Reading, HistoryIsTheLatest
    <2> QED BY <2>1, HistoryStep
  <1>3. HistoryInv => HistoryIsTheLatest
    BY DEF HistoryInv
  <1> QED BY <1>1, <1>2, <1>3, FilesInvariant, PTL DEF Spec

----------------------------------------------------------------------------
(* What resets and errors cost. *)

LEMMA EntriesSet ==
  ASSUME NEW line \in Pieces
  PROVE  ToSet(Entries(line)) =
             (IF line[1].whole /\ line[1].msg.form = "short" THEN {line[1].msg} ELSE {})
             \cup (IF \E i \in 1..Len(line) : line[i].msg.form = "number" THEN {NoRole} ELSE {})
  <1> DEFINE p == IF line[1].whole /\ line[1].msg.form = "short" THEN <<line[1].msg>> ELSE <<>>
             q == IF \E i \in 1..Len(line) : line[i].msg.form = "number" THEN <<NoRole>> ELSE <<>>
             P == IF line[1].whole /\ line[1].msg.form = "short" THEN {line[1].msg} ELSE {}
             Q == IF \E i \in 1..Len(line) : line[i].msg.form = "number" THEN {NoRole} ELSE {}
             S == {line[1].msg, NoRole}
  <1>1. \A a : a \in S => <<a>> \in Seq(S) /\ ToSet(<<a>>) = {a}
    BY DEF ToSet
  <1>2. <<>> \in Seq(S) /\ ToSet(<<>>) = {}
    BY EmptySeq DEF ToSet
  <1>3. p \in Seq(S) /\ ToSet(p) = P
    BY <1>1, <1>2
  <1>4. q \in Seq(S) /\ ToSet(q) = Q
    BY <1>1, <1>2
  <1>5. Entries(line) = p \o q
    BY DEF Entries
  <1> HIDE DEF p, q, S
  <1>6. ToSet(p \o q) = ToSet(p) \cup ToSet(q)
    BY <1>3, <1>4, RangeOfTwo
  <1> QED BY <1>3, <1>4, <1>5, <1>6

(* A line gives no less for a piece that is added to it. *)
LEMMA EntriesGrow ==
  ASSUME NEW line \in Pieces, NEW p \in Piece
  PROVE  ToSet(Entries(line)) \subseteq ToSet(Entries(Append(line, p)))
  <1> DEFINE l == Append(line, p)
  <1>1. /\ l \in Pieces /\ Len(l) = Len(line) + 1 /\ Len(line) \in Nat \ {0}
        /\ \A i \in 1..Len(line) : l[i] = line[i]
    BY AppendProperties, EmptySeq, LenProperties DEF Pieces
  <1> HIDE DEF l
  <1>2. l[1] = line[1]
    BY <1>1
  <1>3. (\E i \in 1..Len(line) : line[i].msg.form = "number")
          => \E i \in 1..Len(l) : l[i].msg.form = "number"
    BY <1>1
  <1> QED BY <1>1, <1>2, <1>3, EntriesSet DEF l

LEMMA ReadableGrows ==
  ASSUME FileOK, NEW p \in Piece
  PROVE  /\ ToSet(Readable(lines)) \subseteq ToSet(Readable(WithPiece(p)))
         /\ ended /\ p.whole /\ p.msg.form = "short" => p.msg \in ToSet(Readable(WithPiece(p)))
  <1> DEFINE ls == WithPiece(p)
  <1>1. ReadsItsLines(lines) /\ ReadsItsLines(ls)
    BY WithPieceIsAFile, ReadableIsInLines DEF FileOK
  <1>2. ASSUME NEW x, NEW i \in 1..Len(lines), x \in ToSet(Entries(lines[i]))
        PROVE  \E j \in 1..Len(ls) : x \in ToSet(Entries(ls[j]))
    <2>1. CASE ended \/ i # Len(lines)
      <3>1. i \in 1..Len(ls) /\ ls[i] = lines[i]
        BY <2>1, WithPieceIsAFile
      <3> QED BY <1>2, <3>1
    <2>2. CASE ~ended /\ i = Len(lines)
      <3>1. i \in 1..Len(ls) /\ ls[i] = Append(lines[i], p)
        BY <2>2, WithPieceIsAFile
      <3>2. lines[i] \in Pieces
        BY ElementOfSeq DEF FileOK
      <3> QED BY <1>2, <3>1, <3>2, EntriesGrow
    <2> QED BY <2>1, <2>2
  <1>3. ASSUME ended, p.whole, p.msg.form = "short"
        PROVE  p.msg \in ToSet(Readable(ls))
    <2> DEFINE j == Len(lines) + 1
    <2>1. j \in 1..Len(ls) /\ ls[j] = <<p>>
      BY <1>3, WithPieceIsAFile
    <2>2. <<p>> \in Pieces /\ <<p>>[1] = p
      BY DEF Pieces
    <2>3. p.msg \in ToSet(Entries(<<p>>))
      BY <1>3, <2>2, EntriesSet
    <2> HIDE DEF j, ls
    <2> QED BY <1>1, <2>1, <2>3 DEF ReadsItsLines
  <1> HIDE DEF ls
  <1> QED BY <1>1, <1>2, <1>3 DEF ReadsItsLines, ls

Lost == {m \in said : m.form = "short" /\ m \notin ToSet(Readable(lines))}

(* An unfinished line is a message that may still be lost. *)
LossInv ==
    /\ IsFiniteSet(said)
    /\ Cardinality(Lost) + (IF ended THEN 0 ELSE 1) <= resets + 2 * shorts

LEMMA OneMoreIsLost ==
  ASSUME IsFiniteSet(said), NEW m, said' = said \cup {m},
         ToSet(Readable(lines)) \subseteq ToSet(Readable(lines'))
  PROVE  /\ IsFiniteSet(said') /\ Cardinality(Lost') \in Nat
         /\ Cardinality(Lost') <= Cardinality(Lost) + 1
         /\ m \in ToSet(Readable(lines')) \/ m.form # "short"
               => Cardinality(Lost') <= Cardinality(Lost)
  <1> DEFINE L == Lost
             K == Lost'
  <1>1. IsFiniteSet(L) /\ Cardinality(L) \in Nat
    <2>1. L \in SUBSET said
      BY DEF Lost
    <2> QED BY <2>1, FS_Subset, FS_CardinalityType
  <1>2. /\ K \subseteq L \cup {m}
        /\ m \in ToSet(Readable(lines')) \/ m.form # "short" => K \subseteq L
    BY DEF Lost
  <1>3. IsFiniteSet(said')
    BY FS_AddElement
  <1> HIDE DEF L, K
  <1>4. IsFiniteSet(L \cup {m}) /\ Cardinality(L \cup {m}) <= Cardinality(L) + 1
    <2>1. /\ IsFiniteSet(L \cup {m})
          /\ Cardinality(L \cup {m}) = IF m \in L THEN Cardinality(L) ELSE Cardinality(L) + 1
      BY <1>1, FS_AddElement
    <2> QED BY <1>1, <2>1
  <1>5. /\ IsFiniteSet(K) /\ Cardinality(K) <= Cardinality(L \cup {m})
        /\ K \subseteq L => Cardinality(K) <= Cardinality(L)
    BY <1>1, <1>2, <1>4, FS_Subset
  <1>6. Cardinality(K) \in Nat /\ Cardinality(L \cup {m}) \in Nat
    BY <1>4, <1>5, FS_CardinalityType
  <1>7. Cardinality(K) <= Cardinality(L) + 1
    BY <1>1, <1>4, <1>5, <1>6
  <1> QED BY <1>2, <1>3, <1>5, <1>6, <1>7 DEF L, K

(* What could be read still can when a line is cut. *)
LEMMA CutKeeps ==
  ASSUME FileOK, NEW m \in Message, CutLine(m)
  PROVE  ToSet(Readable(lines)) \subseteq ToSet(Readable(lines'))
  <1>1. lines' = lines \/ \E p \in Piece : lines' = WithPiece(p)
    BY CutAddsAPiece
  <1> QED BY <1>1, ReadableGrows

LEMMA LossStep == FilesInv /\ LossInv /\ Next => LossInv'
  <1> SUFFICES ASSUME FilesInv, LossInv, Next PROVE LossInv'
    OBVIOUS
  <1>1. /\ IsFiniteSet(said) /\ IsFiniteSet(Lost) /\ Cardinality(Lost) \in Nat
        /\ resets \in Nat /\ shorts \in Nat
    <2>1. Lost \in SUBSET said
      BY DEF Lost
    <2> QED BY <2>1, FS_Subset, FS_CardinalityType DEF LossInv, FilesInv, TurnOK
  <1>2. ASSUME UNCHANGED <<lines, ended, said>>, resets' = resets, shorts' = shorts
        PROVE  LossInv'
    BY <1>2 DEF LossInv, Lost
  <1>3. CASE EndAppend
    <2>1. PICK m \in Saids : /\ PrintLine(m)
                            /\ said' = IF handle = "append" THEN said \cup {m} ELSE said
      BY <1>3 DEF EndAppend
    <2>2. resets' = resets /\ shorts' = shorts
      BY <1>3 DEF EndAppend
    <2>3. CASE handle # "append"
      BY <1>2, <2>1, <2>2, <2>3 DEF PrintLine
    <2>4. CASE handle = "append"
      <3> DEFINE p == Whole(m)
      <3>1. m \in Message /\ p \in Piece /\ p.whole /\ p.msg = m
        BY <2>4, SaidsAreMessages DEF FilesInv, Whole, Piece
      <3>2. lines' = WithPiece(p) /\ ended' = TRUE /\ said' = said \cup {m}
        BY <2>1, <2>4 DEF PrintLine
      <3> HIDE DEF p
      <3>3. /\ ToSet(Readable(lines)) \subseteq ToSet(Readable(lines'))
            /\ ended /\ m.form = "short" => m \in ToSet(Readable(lines'))
        BY <3>1, <3>2, ReadableGrows DEF FilesInv
      <3>4. /\ IsFiniteSet(said') /\ Cardinality(Lost') \in Nat
            /\ Cardinality(Lost') <= Cardinality(Lost) + 1
            /\ ended => Cardinality(Lost') <= Cardinality(Lost)
        BY <1>1, <3>2, <3>3, OneMoreIsLost
      <3> QED BY <1>1, <2>2, <3>2, <3>4 DEF LossInv
    <2> QED BY <2>3, <2>4
  <1>4. CASE AppendShort
    <2>1. PICK m \in Saids : PrintShort(m) /\ said' = said \cup {m}
      BY <1>4 DEF AppendShort
    <2>2. resets' = resets /\ shorts' = shorts + 1
      BY <1>4 DEF AppendShort
    <2>3. m \in Message /\ CutLine(m)
      BY <2>1, SaidsAreMessages DEF FilesInv, PrintShort
    <2>4. ToSet(Readable(lines)) \subseteq ToSet(Readable(lines'))
      BY <2>3, CutKeeps DEF FilesInv
    <2>5. /\ IsFiniteSet(said') /\ Cardinality(Lost') \in Nat
          /\ Cardinality(Lost') <= Cardinality(Lost) + 1
      BY <1>1, <2>1, <2>4, OneMoreIsLost
    <2> QED BY <1>1, <2>2, <2>5 DEF LossInv
  <1>5. CASE SessionClear
    <2>1. said' = {} /\ Lost' = {} /\ ended' = TRUE /\ resets' = resets /\ shorts' = shorts
      BY <1>5 DEF SessionClear, Clear, Lost
    <2> QED BY <1>1, <2>1, FS_EmptySet DEF LossInv
  <1>6. CASE Reset
    <2>1. PICK m \in Saids : Interrupted(m)
      BY <1>6 DEF Reset
    <2>2. resets' = resets + 1 /\ shorts' = shorts /\ said' = said
      BY <1>6 DEF Reset
    <2>3. ToSet(Readable(lines)) \subseteq ToSet(Readable(lines'))
      <3>1. lines' = lines \/ (m \in Message /\ CutLine(m))
        BY <2>1, SaidsAreMessages DEF FilesInv, Interrupted
      <3> QED BY <3>1, CutKeeps DEF FilesInv
    <2>4. Lost' \in SUBSET Lost
      BY <2>2, <2>3 DEF Lost
    <2>5. Cardinality(Lost') \in Nat /\ Cardinality(Lost') <= Cardinality(Lost)
      <3>1. IsFiniteSet(Lost') /\ Cardinality(Lost') <= Cardinality(Lost)
        BY <1>1, <2>4, FS_Subset
      <3> QED BY <3>1, FS_CardinalityType
    <2> QED BY <1>1, <2>2, <2>5 DEF LossInv
  <1>7. CASE Begin \/ Read \/ Prompt \/ Tool \/ Decide \/ StartAppend \/ AppendFails
             \/ MemoryWrite \/ Write
    <2>1. UNCHANGED <<lines, ended, said>> /\ resets' = resets /\ shorts' = shorts
      BY <1>7 DEF Begin, OpenRead, Read, ReadLine, Prompt, EndRead, Tool, Decide, StartAppend,
                  OpenAppend, AppendFails, MemoryWrite, Write, fileVars, agentVars
    <2> QED BY <1>2, <2>1
  <1> QED BY <1>3, <1>4, <1>5, <1>6, <1>7 DEF Next, Agent

(* CutsLoseFew: of the short messages appended since the session was last  *)
(* cleared, no more are unreadable than there were resets and twice the    *)
(* lines that an error of fprintf cut.                                     *)
THEOREM FewLost == Spec => []CutsLoseFew
  <1>1. Init => LossInv
    <2> SUFFICES ASSUME Init PROVE LossInv
      OBVIOUS
    <2>1. said = {} /\ Lost = {} /\ ended = TRUE /\ resets = 0 /\ shorts = 0
      BY DEF Init, SessionFileInit, Lost
    <2> QED BY <2>1, FS_EmptySet DEF LossInv
  <1>2. FilesInv /\ LossInv /\ [Next]_vars => LossInv'
    <2>1. LossInv /\ UNCHANGED vars => LossInv'
      BY DEF vars, fileVars, LossInv, Lost
    <2> QED BY <2>1, LossStep
  <1>3. FilesInv /\ LossInv => CutsLoseFew
    <2> SUFFICES ASSUME FilesInv, LossInv PROVE CutsLoseFew
      OBVIOUS
    <2>1. IsFiniteSet(Lost)
      BY FS_Subset DEF LossInv, Lost
    <2>2. Cardinality(Lost) \in Nat /\ resets + 2 * shorts \in Nat
      BY <2>1, FS_CardinalityType DEF FilesInv, TurnOK
    <2>3. Cardinality(Lost) <= resets + 2 * shorts
      BY <2>2 DEF LossInv
    <2> QED BY <2>3 DEF CutsLoseFew, Lost
  <1> QED BY <1>1, <1>2, <1>3, FilesInvariant, PTL DEF Spec
=============================================================================

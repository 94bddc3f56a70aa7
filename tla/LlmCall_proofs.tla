--------------------------- MODULE LlmCall_proofs ---------------------------
(***************************************************************************)
(* Proofs about LlmCall and the Settings it reads, for every set of keys   *)
(* and proxies and every number of rounds, tool calls, pieces and turns.   *)
(***************************************************************************)
EXTENDS LlmCall, SequenceTheorems, WellFoundedInduction, TLAPS

----------------------------------------------------------------------------
(* The settings, and what the writes of a command make of them.            *)

Fields == {"provider", "api_key", "host", "port"}

Records(A, B, C, D) == [provider : A, api_key : B, host : C, port : D]
FlashStates == Records(Providers \cup {None}, Keys \cup {None}, Hosts \cup {None}, PortNumbers)

FlashValues == [provider |-> Providers \cup {None}, api_key |-> Keys \cup {None},
                host |-> Hosts \cup {None}, port |-> PortNumbers]
RamValues == [provider |-> Providers \cup {None, Torn},
              api_key |-> Keys \cup {None, Torn, CutKey, Build.api_key},
              host |-> Hosts \cup {None, Torn, CutHost, Build.host}, port |-> PortNumbers]
Values(where) == IF where = "nvs" THEN FlashValues ELSE RamValues

WritesOf(where, k) == [to : {where}, key : {k}, val : Values(where)[k]]
Writes == UNION {WritesOf(where, k) : where \in {"nvs", "ram"}, k \in Fields}

LEMMA PutField ==
  ASSUME NEW A, NEW B, NEW C, NEW D, NEW r \in Records(A, B, C, D),
         NEW k \in Fields, NEW v,
         k = "provider" => v \in A, k = "api_key" => v \in B, k = "host" => v \in C,
         k = "port" => v \in D
  PROVE  /\ [r EXCEPT ![k] = v] \in Records(A, B, C, D)
         /\ [r EXCEPT ![k] = v][k] = v
         /\ \A j \in Fields : j # k => [r EXCEPT ![k] = v][j] = r[j]
  BY DEF Fields, Records

LEMMA Ports16 ==
  /\ 0 \in PortNumbers /\ PortNumbers \subseteq Nat
  /\ \A p \in Nat : p % 65536 \in PortNumbers
  BY DEF PortNumbers

LEMMA FieldTypes ==
  ASSUME NEW A, NEW B, NEW C, NEW D, NEW r \in Records(A, B, C, D)
  PROVE  /\ r.provider \in A /\ r.api_key \in B /\ r.host \in C /\ r.port \in D
         /\ \A E, F, G, H : r.provider \in E /\ r.api_key \in F /\ r.host \in G /\ r.port \in H
                             => r \in Records(E, F, G, H)
  <1>1. r = [provider |-> r.provider, api_key |-> r.api_key, host |-> r.host, port |-> r.port]
    BY DEF Records
  <1>2. \A E, F, G, H : r.provider \in E /\ r.api_key \in F /\ r.host \in G /\ r.port \in H
          => [provider |-> r.provider, api_key |-> r.api_key, host |-> r.host, port |-> r.port]
                \in Records(E, F, G, H)
    BY DEF Records
  <1> QED BY <1>1, <1>2 DEF Records

LEMMA SettingsSpaces ==
  /\ Settings = Records(Providers \cup {None, Torn}, Keys \cup {None, Torn, CutKey, Build.api_key},
                        Hosts \cup {None, Torn, CutHost, Build.host}, PortNumbers)
  /\ SettingsTypeOK <=> /\ nvs \in FlashStates /\ ram \in Settings
                        /\ reverted \in BOOLEAN /\ commands \in 0..MaxCommands
  BY DEF Settings, SettingsTypeOK, FlashStates, Records

LEMMA PutFlash ==
  ASSUME NEW s \in FlashStates, NEW k0 \in Fields, NEW v \in FlashValues[k0]
  PROVE  LET t == [s EXCEPT ![k0] = v]
         IN t \in FlashStates /\ \A k \in Fields : t[k] = IF k = k0 THEN v ELSE s[k]
  <1>1. /\ k0 = "provider" => v \in Providers \cup {None}
        /\ k0 = "api_key" => v \in Keys \cup {None}
        /\ k0 = "host" => v \in Hosts \cup {None}
        /\ k0 = "port" => v \in PortNumbers
    BY DEF FlashValues
  <1> DEFINE A == Providers \cup {None}
             B == Keys \cup {None}
             C == Hosts \cup {None}
  <1>2. s \in Records(A, B, C, PortNumbers)
    BY DEF FlashStates
  <1> HIDE DEF A, B, C
  <1>3. /\ k0 = "provider" => v \in A
        /\ k0 = "api_key" => v \in B
        /\ k0 = "host" => v \in C
    BY <1>1 DEF A, B, C
  <1>4. /\ [s EXCEPT ![k0] = v] \in Records(A, B, C, PortNumbers) /\ [s EXCEPT ![k0] = v][k0] = v
        /\ \A k \in Fields : k # k0 => [s EXCEPT ![k0] = v][k] = s[k]
    BY <1>1, <1>2, <1>3, PutField
  <1> QED BY <1>4 DEF A, B, C, FlashStates

LEMMA PutRam ==
  ASSUME NEW s \in Settings, NEW k0 \in Fields, NEW v \in RamValues[k0]
  PROVE  LET t == [s EXCEPT ![k0] = v]
         IN t \in Settings /\ \A k \in Fields : t[k] = IF k = k0 THEN v ELSE s[k]
  <1>1. /\ k0 = "provider" => v \in Providers \cup {None, Torn}
        /\ k0 = "api_key" => v \in Keys \cup {None, Torn, CutKey, Build.api_key}
        /\ k0 = "host" => v \in Hosts \cup {None, Torn, CutHost, Build.host}
        /\ k0 = "port" => v \in PortNumbers
    BY DEF RamValues
  <1> DEFINE A == Providers \cup {None, Torn}
             B == Keys \cup {None, Torn, CutKey, Build.api_key}
             C == Hosts \cup {None, Torn, CutHost, Build.host}
  <1>2. s \in Records(A, B, C, PortNumbers) /\ Settings = Records(A, B, C, PortNumbers)
    BY SettingsSpaces
  <1> HIDE DEF A, B, C
  <1>3. /\ k0 = "provider" => v \in A
        /\ k0 = "api_key" => v \in B
        /\ k0 = "host" => v \in C
    BY <1>1 DEF A, B, C
  <1>4. /\ [s EXCEPT ![k0] = v] \in Records(A, B, C, PortNumbers) /\ [s EXCEPT ![k0] = v][k0] = v
        /\ \A k \in Fields : k # k0 => [s EXCEPT ![k0] = v][k] = s[k]
    BY <1>1, <1>2, <1>3, PutField
  <1> QED BY <1>2, <1>4

LEMMA WriteKinds ==
  /\ \A w \in Writes : w.to \in {"nvs", "ram"} /\ w.key \in Fields /\ w.val \in Values(w.to)[w.key]
  /\ \A where \in {"nvs", "ram"}, k \in Fields : \A v \in Values(where)[k] :
       [to |-> where, key |-> k, val |-> v] \in Writes
  <1>1. ASSUME NEW w \in Writes
        PROVE  w.to \in {"nvs", "ram"} /\ w.key \in Fields /\ w.val \in Values(w.to)[w.key]
    <2>1. PICK where \in {"nvs", "ram"}, k \in Fields : w \in WritesOf(where, k)
      BY DEF Writes
    <2>2. w.to = where /\ w.key = k /\ w.val \in Values(where)[k]
      BY <2>1 DEF WritesOf
    <2> QED BY <2>2
  <1>2. ASSUME NEW where \in {"nvs", "ram"}, NEW k \in Fields, NEW v \in Values(where)[k]
        PROVE  [to |-> where, key |-> k, val |-> v] \in Writes
    <2>1. [to |-> where, key |-> k, val |-> v] \in WritesOf(where, k)
      BY DEF WritesOf
    <2> QED BY <2>1 DEF Writes
  <1> QED BY <1>1, <1>2

(* The writes of q leave v where there was u. *)
Matches(w, where, k) == w.to = where /\ w.key = k

Leaves(q, where, k, u, v) ==
    \/ u = v /\ \A i \in 1..Len(q) : ~Matches(q[i], where, k)
    \/ \E i \in 1..Len(q) :
         /\ Matches(q[i], where, k) /\ q[i].val = v
         /\ \A j \in 1..Len(q) : i < j => ~Matches(q[j], where, k)

LEMMA LeavesNothing ==
  ASSUME NEW where, NEW k, NEW u, NEW v
  PROVE  Leaves(<<>>, where, k, u, v) <=> u = v
  BY DEF Leaves

LEMMA LeavesOne ==
  ASSUME NEW w, NEW where, NEW k, NEW u
  PROVE  Leaves(<<w>>, where, k, u, IF Matches(w, where, k) THEN w.val ELSE u)
  <1>1. Len(<<w>>) = 1 /\ <<w>>[1] = w
    OBVIOUS
  <1> QED BY <1>1 DEF Leaves

LEMMA LeavesBoth ==
  ASSUME NEW S, NEW q \in Seq(S), NEW r \in Seq(S), NEW where, NEW k, NEW u, NEW v, NEW x,
         Leaves(q, where, k, u, v), Leaves(r, where, k, v, x)
  PROVE  Leaves(q \o r, where, k, u, x)
  <1> DEFINE c == q \o r
  <1>1. /\ Len(c) = Len(q) + Len(r) /\ Len(q) \in Nat /\ Len(r) \in Nat
        /\ \A i \in 1..Len(c) : c[i] = IF i <= Len(q) THEN q[i] ELSE r[i - Len(q)]
    BY ConcatProperties, LenProperties
  <1> HIDE DEF c
  <1>2. \A i \in 1..Len(q) : i \in 1..Len(c) /\ c[i] = q[i]
    BY <1>1
  <1>3. \A i \in 1..Len(r) : Len(q) + i \in 1..Len(c) /\ c[Len(q) + i] = r[i]
    <2> SUFFICES ASSUME NEW i \in 1..Len(r) PROVE Len(q) + i \in 1..Len(c) /\ c[Len(q) + i] = r[i]
      OBVIOUS
    <2>1. Len(q) + i \in 1..Len(c) /\ ~(Len(q) + i <= Len(q)) /\ Len(q) + i - Len(q) = i
      BY <1>1
    <2> QED BY <1>1, <2>1
  <1>4. \A i \in 1..Len(c) : i \in 1..Len(q) \/ (i - Len(q) \in 1..Len(r) /\ c[i] = r[i - Len(q)])
    BY <1>1
  <1>5. CASE \E i \in 1..Len(r) : /\ Matches(r[i], where, k) /\ r[i].val = x
                                  /\ \A j \in 1..Len(r) : i < j => ~Matches(r[j], where, k)
    <2>1. PICK i \in 1..Len(r) : /\ Matches(r[i], where, k) /\ r[i].val = x
                                 /\ \A j \in 1..Len(r) : i < j => ~Matches(r[j], where, k)
      BY <1>5
    <2>2. \A j \in 1..Len(c) : Len(q) + i < j => ~Matches(c[j], where, k)
      <3> SUFFICES ASSUME NEW j \in 1..Len(c), Len(q) + i < j PROVE ~Matches(c[j], where, k)
        OBVIOUS
      <3>1. j - Len(q) \in 1..Len(r) /\ c[j] = r[j - Len(q)] /\ i < j - Len(q)
        BY <1>1, <1>4
      <3> QED BY <2>1, <3>1
    <2> QED BY <1>3, <2>1, <2>2 DEF Leaves, c
  <1>6. CASE v = x /\ \A i \in 1..Len(r) : ~Matches(r[i], where, k)
    <2>1. CASE u = v /\ \A i \in 1..Len(q) : ~Matches(q[i], where, k)
      BY <1>2, <1>4, <1>6, <2>1 DEF Leaves, c
    <2>2. CASE \E i \in 1..Len(q) : /\ Matches(q[i], where, k) /\ q[i].val = v
                                    /\ \A j \in 1..Len(q) : i < j => ~Matches(q[j], where, k)
      BY <1>2, <1>4, <1>6, <2>2 DEF Leaves, c
    <2> QED BY <2>1, <2>2 DEF Leaves
  <1> QED BY <1>5, <1>6 DEF Leaves

LEMMA LeavesTail ==
  ASSUME NEW q \in Seq(Writes), q # <<>>, NEW where, NEW k, NEW u, NEW v, Leaves(q, where, k, u, v)
  PROVE  Leaves(Tail(q), where, k, IF Matches(Head(q), where, k) THEN Head(q).val ELSE u, v)
  <1> DEFINE t == Tail(q)
  <1>1. /\ Head(q) = q[1] /\ Len(q) \in Nat \ {0} /\ Len(t) = Len(q) - 1
        /\ \A i \in 1..Len(t) : t[i] = q[i + 1]
    BY HeadTailProperties, EmptySeq
  <1> HIDE DEF t
  <1>2. \A i \in 1..Len(t) : i + 1 \in 1..Len(q) /\ t[i] = q[i + 1] /\ 1 < i + 1
    BY <1>1
  <1>3. \A i \in 1..Len(q) : i = 1 \/ (i - 1 \in 1..Len(t) /\ q[i] = t[i - 1])
    BY <1>1
  <1>4. CASE u = v /\ \A i \in 1..Len(q) : ~Matches(q[i], where, k)
    <2>1. 1 \in 1..Len(q)
      BY <1>1
    <2> QED BY <1>1, <1>2, <1>4, <2>1 DEF Leaves, t
  <1>5. CASE \E i \in 1..Len(q) : /\ Matches(q[i], where, k) /\ q[i].val = v
                                  /\ \A j \in 1..Len(q) : i < j => ~Matches(q[j], where, k)
    <2>1. PICK i \in 1..Len(q) : /\ Matches(q[i], where, k) /\ q[i].val = v
                                 /\ \A j \in 1..Len(q) : i < j => ~Matches(q[j], where, k)
      BY <1>5
    <2>2. CASE i = 1
      BY <1>1, <1>2, <2>1, <2>2 DEF Leaves, t
    <2>3. CASE i # 1
      <3>1. i - 1 \in 1..Len(t) /\ t[i - 1] = q[i]
        BY <1>3, <2>3
      <3>2. \A j \in 1..Len(t) : i - 1 < j => ~Matches(t[j], where, k)
        <4> SUFFICES ASSUME NEW j \in 1..Len(t), i - 1 < j PROVE ~Matches(t[j], where, k)
          OBVIOUS
        <4>1. i < j + 1
          BY <1>1
        <4> QED BY <1>2, <2>1, <4>1
      <3> QED BY <2>1, <3>1, <3>2 DEF Leaves, t
    <2> QED BY <2>2, <2>3
  <1> QED BY <1>4, <1>5 DEF Leaves

(* What one write leaves of the field k that held u. *)
Put(where0, k0, v, where, k, u) == IF where = where0 /\ k = k0 THEN v ELSE u

LEMMA FlashLeaves ==
  ASSUME NEW k0 \in Fields, NEW v \in Values("nvs")[k0]
  PROVE  /\ Flash(k0, v) \in Seq(Writes)
         /\ \A where, k, u : Leaves(Flash(k0, v), where, k, u, Put("nvs", k0, v, where, k, u))
  <1> DEFINE w == [to |-> "nvs", key |-> k0, val |-> v]
  <1>1. w \in Writes /\ w.to = "nvs" /\ w.key = k0 /\ w.val = v
    BY WriteKinds
  <1>2. Flash(k0, v) = <<w>>
    BY DEF Flash
  <1> HIDE DEF w
  <1>3. \A where, k, u : (IF Matches(w, where, k) THEN w.val ELSE u) = Put("nvs", k0, v, where, k, u)
    BY <1>1 DEF Matches, Put
  <1> QED BY <1>1, <1>2, <1>3, LeavesOne

LEMMA StoreLeaves ==
  ASSUME NEW k0 \in Fields, NEW v \in Values("ram")[k0]
  PROVE  /\ Store(k0, v) \in Seq(Writes)
         /\ \A where, k, u : Leaves(Store(k0, v), where, k, u, Put("ram", k0, v, where, k, u))
  <1> DEFINE w == [to |-> "ram", key |-> k0, val |-> v]
  <1>1. w \in Writes /\ w.to = "ram" /\ w.key = k0 /\ w.val = v
    BY WriteKinds
  <1>2. Store(k0, v) = <<w>>
    BY DEF Store
  <1> HIDE DEF w
  <1>3. \A where, k, u : (IF Matches(w, where, k) THEN w.val ELSE u) = Put("ram", k0, v, where, k, u)
    BY <1>1 DEF Matches, Put
  <1> QED BY <1>1, <1>2, <1>3, LeavesOne

LEMMA JoinLeaves ==
  ASSUME NEW q \in Seq(Writes), NEW r \in Seq(Writes)
  PROVE  /\ q \o r \in Seq(Writes)
         /\ \A where, k, u, v, x : Leaves(q, where, k, u, v) /\ Leaves(r, where, k, v, x)
                                     => Leaves(q \o r, where, k, u, x)
  BY LeavesBoth, ConcatProperties

LEMMA CopyLeaves ==
  ASSUME NEW k0 \in Fields, NEW v \in Values("ram")[k0], Torn \in Values("ram")[k0]
  PROVE  /\ Copy(k0, v) \in Seq(Writes)
         /\ \A where, k, u : Leaves(Copy(k0, v), where, k, u, Put("ram", k0, v, where, k, u))
  <1>1. CASE Copy(k0, v) = Store(k0, v)
    BY <1>1, StoreLeaves
  <1>2. CASE Copy(k0, v) = Store(k0, Torn) \o Store(k0, v)
    <2>1. /\ Store(k0, Torn) \in Seq(Writes) /\ Store(k0, v) \in Seq(Writes)
          /\ \A where, k, u : /\ Leaves(Store(k0, Torn), where, k, u, Put("ram", k0, Torn, where, k, u))
                              /\ Leaves(Store(k0, v), where, k, u, Put("ram", k0, v, where, k, u))
      BY StoreLeaves
    <2>2. \A where, k, u :
            Put("ram", k0, v, where, k, Put("ram", k0, Torn, where, k, u)) = Put("ram", k0, v, where, k, u)
      BY DEF Put
    <2>3. \A where, k, u :
            Leaves(Store(k0, v), where, k, Put("ram", k0, Torn, where, k, u), Put("ram", k0, v, where, k, u))
      BY <2>1, <2>2
    <2> QED BY <1>2, <2>1, <2>3, JoinLeaves
  <1> QED BY <1>1, <1>2 DEF Copy

----------------------------------------------------------------------------
(* What makes RestartIsTransparent inductive: it will hold of what flash   *)
(* and RAM contain when the writes left to the command are done.           *)

Misfit(n, k) == \/ k = "api_key" /\ n[k] \in LongKeys
                \/ k = "host" /\ n[k] \in LongHosts
Read(n, k)   == IF n[k] = None \/ Misfit(n, k) THEN Build[k] ELSE n[k]
ReadPort(n)  == IF n["host"] = None \/ Misfit(n, "host") \/ n["port"] = 0 THEN Build.port ELSE n["port"]

AgreeAfterRestart(n, r) ==
    /\ r["provider"] = Read(n, "provider")
    /\ r["api_key"] \in {Read(n, "api_key"), None, CutKey}
    /\ \/ r["host"] \in {None, CutHost}
       \/ r["host"] = Read(n, "host") /\ r["port"] \in {ReadPort(n), 0}

LEMMA WhatIsRead ==
  /\ \A k : Kept(k) = Read(nvs, k)
  /\ Loaded = [provider |-> Read(nvs, "provider"), api_key |-> Read(nvs, "api_key"),
               host |-> Read(nvs, "host"), port |-> ReadPort(nvs)]
  BY DEF Kept, TooLong, Read, Misfit, ReadPort, Loaded

WillAgree ==
    ~reverted => \E n, r :
        /\ \A k \in Fields : Leaves(todo, "nvs", k, nvs[k], n[k]) /\ Leaves(todo, "ram", k, ram[k], r[k])
        /\ AgreeAfterRestart(n, r)

SettingsInv == SettingsTypeOK /\ todo \in Seq(Writes) /\ WillAgree

LEMMA AgreeByField ==
  ASSUME NEW n, NEW r, NEW n1, NEW r1, \A k \in Fields : n[k] = n1[k] /\ r[k] = r1[k],
         AgreeAfterRestart(n, r)
  PROVE  AgreeAfterRestart(n1, r1)
  BY DEF AgreeAfterRestart, Read, ReadPort, Misfit, Fields

LEMMA AgreeWhenDone ==
  ASSUME WillAgree, todo = <<>>, ~reverted
  PROVE  AgreeAfterRestart(nvs, ram)
  <1>1. PICK n, r :
          /\ \A k \in Fields : Leaves(todo, "nvs", k, nvs[k], n[k]) /\ Leaves(todo, "ram", k, ram[k], r[k])
          /\ AgreeAfterRestart(n, r)
    BY DEF WillAgree
  <1>2. \A k \in Fields : n[k] = nvs[k] /\ r[k] = ram[k]
    BY <1>1, LeavesNothing
  <1> QED BY <1>1, <1>2, AgreeByField

LEMMA DoneAgrees ==
  ASSUME todo = <<>>, AgreeAfterRestart(nvs, ram)
  PROVE  WillAgree
  BY LeavesNothing DEF WillAgree

LEMMA SettingsInitInv == SettingsInit => SettingsInv
  <1> SUFFICES ASSUME SettingsInit PROVE SettingsInv
    OBVIOUS
  <1>1. Build \in Records(Providers, STRING, STRING, PortNumbers)
    BY BuildAssumption DEF Records
  <1>2. Build \in Settings
    <2>1. Build.provider \in Providers /\ Build.port \in PortNumbers
      BY <1>1, FieldTypes
    <2> QED BY <1>1, <2>1, FieldTypes, SettingsSpaces
  <1>3. Erased \in FlashStates
    BY Ports16 DEF Erased, FlashStates, Records
  <1>4. SettingsTypeOK
    <2>1. 0 \in 0..MaxCommands
      BY SettingsAssumption
    <2> QED BY <1>2, <1>3, <2>1, SettingsSpaces DEF SettingsInit
  <1>5. AgreeAfterRestart(nvs, ram)
    BY DEF SettingsInit, AgreeAfterRestart, Read, ReadPort, Misfit, Erased
  <1>6. <<>> \in Seq(Writes)
    BY EmptySeq
  <1> QED BY <1>4, <1>5, <1>6, DoneAgrees DEF SettingsInv, SettingsInit

LEMMA WriteInv ==
  ASSUME SettingsInv, Write
  PROVE  SettingsInv'
  <1> DEFINE w == Head(todo)
  <1>1. /\ todo # <<>> /\ todo' = Tail(todo) /\ todo \in Seq(Writes) /\ reverted' = reverted
        /\ commands' = commands
        /\ w.to = "nvs" => nvs' = [nvs EXCEPT ![w.key] = w.val] /\ ram' = ram
        /\ w.to # "nvs" => ram' = [ram EXCEPT ![w.key] = w.val] /\ nvs' = nvs
        /\ nvs \in FlashStates /\ ram \in Settings
    BY SettingsSpaces DEF Write, SettingsInv
  <1>2. w \in Writes /\ todo' \in Seq(Writes)
    BY <1>1, HeadTailProperties
  <1>3. w.to \in {"nvs", "ram"} /\ w.key \in Fields /\ w.val \in Values(w.to)[w.key]
    BY <1>2, WriteKinds
  <1> DEFINE Written == /\ nvs' \in FlashStates /\ ram' \in Settings
                        /\ \A k \in Fields :
                             /\ nvs'[k] = IF Matches(w, "nvs", k) THEN w.val ELSE nvs[k]
                             /\ ram'[k] = IF Matches(w, "ram", k) THEN w.val ELSE ram[k]
  <1> HIDE DEF w
  <1>4. ASSUME w.to = "nvs" PROVE Written
    <2>1. w.val \in FlashValues[w.key]
      BY <1>3, <1>4 DEF Values
    <2>2. nvs' \in FlashStates /\ \A k \in Fields : nvs'[k] = IF k = w.key THEN w.val ELSE nvs[k]
      <3> DEFINE t == [nvs EXCEPT ![w.key] = w.val]
      <3>1. nvs \in FlashStates /\ w.key \in Fields
        BY <1>1, <1>3
      <3>2. t \in FlashStates /\ \A k \in Fields : t[k] = IF k = w.key THEN w.val ELSE nvs[k]
        BY <2>1, <3>1, PutFlash
      <3>3. nvs' = t
        BY <1>1, <1>4
      <3> HIDE DEF t
      <3> QED BY <3>2, <3>3
    <2> QED BY <1>1, <1>4, <2>2 DEF Matches
  <1>5. ASSUME w.to = "ram" PROVE Written
    <2>1. w.val \in RamValues[w.key]
      BY <1>3, <1>5 DEF Values
    <2>2. ram' \in Settings /\ \A k \in Fields : ram'[k] = IF k = w.key THEN w.val ELSE ram[k]
      <3> DEFINE t == [ram EXCEPT ![w.key] = w.val]
      <3>1. ram \in Settings /\ w.key \in Fields
        BY <1>1, <1>3
      <3>2. t \in Settings /\ \A k \in Fields : t[k] = IF k = w.key THEN w.val ELSE ram[k]
        BY <2>1, <3>1, PutRam
      <3>3. ram' = t
        BY <1>1, <1>5
      <3> HIDE DEF t
      <3> QED BY <3>2, <3>3
    <2> QED BY <1>1, <1>5, <2>2 DEF Matches
  <1>6. Written
    BY <1>3, <1>4, <1>5
  <1>7. SettingsTypeOK'
    BY <1>1, <1>6, SettingsSpaces DEF SettingsInv, SettingsTypeOK, FlashStates, Records
  <1>8. WillAgree'
    <2> SUFFICES ASSUME ~reverted
                 PROVE  \E n, r :
                          /\ \A k \in Fields : /\ Leaves(todo', "nvs", k, nvs'[k], n[k])
                                               /\ Leaves(todo', "ram", k, ram'[k], r[k])
                          /\ AgreeAfterRestart(n, r)
      BY <1>1 DEF WillAgree
    <2>1. PICK n, r :
            /\ \A k \in Fields : Leaves(todo, "nvs", k, nvs[k], n[k]) /\ Leaves(todo, "ram", k, ram[k], r[k])
            /\ AgreeAfterRestart(n, r)
      BY DEF SettingsInv, WillAgree
    <2>2. \A k \in Fields : Leaves(todo', "nvs", k, nvs'[k], n[k]) /\ Leaves(todo', "ram", k, ram'[k], r[k])
      BY <1>1, <1>6, <2>1, LeavesTail DEF w
    <2> QED BY <2>1, <2>2
  <1> QED BY <1>2, <1>7, <1>8 DEF SettingsInv

(* A flash write and a copy of the same field; and a proxy's four writes.  *)
LEMMA PairLeaves ==
  ASSUME NEW k0 \in Fields, NEW a \in Values("nvs")[k0], NEW b \in Values("ram")[k0],
         Torn \in Values("ram")[k0]
  PROVE  /\ Flash(k0, a) \o Copy(k0, b) \in Seq(Writes)
         /\ \A k, u : /\ Leaves(Flash(k0, a) \o Copy(k0, b), "nvs", k, u, IF k = k0 THEN a ELSE u)
                      /\ Leaves(Flash(k0, a) \o Copy(k0, b), "ram", k, u, IF k = k0 THEN b ELSE u)
  <1>1. /\ Flash(k0, a) \in Seq(Writes) /\ Copy(k0, b) \in Seq(Writes)
        /\ \A where, k, u : /\ Leaves(Flash(k0, a), where, k, u, Put("nvs", k0, a, where, k, u))
                            /\ Leaves(Copy(k0, b), where, k, u, Put("ram", k0, b, where, k, u))
    BY FlashLeaves, CopyLeaves
  <1>2. \A k, u :
          /\ Put("ram", k0, b, "nvs", k, Put("nvs", k0, a, "nvs", k, u)) = (IF k = k0 THEN a ELSE u)
          /\ Put("ram", k0, b, "ram", k, Put("nvs", k0, a, "ram", k, u)) = (IF k = k0 THEN b ELSE u)
    BY DEF Put
  <1> DEFINE q == Flash(k0, a)
             c == Copy(k0, b)
  <1>3. \A where, k, u :
          Leaves(q \o c, where, k, u, Put("ram", k0, b, where, k, Put("nvs", k0, a, where, k, u)))
    <2> HIDE DEF q, c
    <2> QED BY <1>1, JoinLeaves DEF q, c
  <1>4. q \o c \in Seq(Writes)
    BY <1>1, JoinLeaves
  <1> HIDE DEF q, c
  <1> SUFFICES ASSUME NEW k, NEW u
               PROVE  /\ Leaves(q \o c, "nvs", k, u, IF k = k0 THEN a ELSE u)
                      /\ Leaves(q \o c, "ram", k, u, IF k = k0 THEN b ELSE u)
    BY <1>4 DEF q, c
  <1>5. /\ Leaves(q \o c, "nvs", k, u, Put("ram", k0, b, "nvs", k, Put("nvs", k0, a, "nvs", k, u)))
        /\ Leaves(q \o c, "ram", k, u, Put("ram", k0, b, "ram", k, Put("nvs", k0, a, "ram", k, u)))
    BY <1>3
  <1> QED BY <1>2, <1>5

Proxied(h, p, k, u) == IF k = "host" THEN h ELSE IF k = "port" THEN p ELSE u

LEMMA ProxyLeaves ==
  ASSUME NEW h \in Values("nvs")["host"], NEW x, NEW p \in PortNumbers, NEW c \in Seq(Writes),
         \A where, k, u : Leaves(c, where, k, u, Put("ram", "host", x, where, k, u))
  PROVE  LET q == Flash("host", h) \o Flash("port", p) \o c \o Store("port", p)
         IN /\ q \in Seq(Writes)
            /\ \A k, u : /\ Leaves(q, "nvs", k, u, Proxied(h, p, k, u))
                         /\ Leaves(q, "ram", k, u, Proxied(x, p, k, u))
  <1> DEFINE f == Flash("host", h)
             g == Flash("port", p)
             s == Store("port", p)
  <1>1. /\ f \in Seq(Writes) /\ g \in Seq(Writes) /\ s \in Seq(Writes)
        /\ \A where, k, u : /\ Leaves(f, where, k, u, Put("nvs", "host", h, where, k, u))
                            /\ Leaves(g, where, k, u, Put("nvs", "port", p, where, k, u))
                            /\ Leaves(s, where, k, u, Put("ram", "port", p, where, k, u))
    <2>1. p \in Values("nvs")["port"] /\ p \in Values("ram")["port"]
      BY DEF Values, FlashValues, RamValues
    <2> QED BY <2>1, FlashLeaves, StoreLeaves DEF Fields
  <1> HIDE DEF f, g, s
  <1>2. /\ f \o g \in Seq(Writes)
        /\ \A where, k, u :
             Leaves(f \o g, where, k, u, Put("nvs", "port", p, where, k, Put("nvs", "host", h, where, k, u)))
    BY <1>1, JoinLeaves
  <1>3. /\ f \o g \o c \in Seq(Writes)
        /\ \A where, k, u :
             Leaves(f \o g \o c, where, k, u,
                    Put("ram", "host", x, where, k,
                        Put("nvs", "port", p, where, k, Put("nvs", "host", h, where, k, u))))
    BY <1>2, JoinLeaves
  <1>4. /\ f \o g \o c \o s \in Seq(Writes)
        /\ \A where, k, u :
             Leaves(f \o g \o c \o s, where, k, u,
                    Put("ram", "port", p, where, k,
                        Put("ram", "host", x, where, k,
                            Put("nvs", "port", p, where, k, Put("nvs", "host", h, where, k, u)))))
    <2> DEFINE q == f \o g \o c
    <2> HIDE DEF q
    <2>1. q \in Seq(Writes)
      BY <1>3 DEF q
    <2>2. \A where, k, u, y :
            Leaves(q, where, k, u, y) => Leaves(q \o s, where, k, u, Put("ram", "port", p, where, k, y))
      BY <1>1, <2>1, JoinLeaves
    <2> QED BY <1>1, <1>3, <2>1, <2>2, JoinLeaves DEF q
  <1>5. \A k, u : \A where \in {"nvs", "ram"} :
          Put("ram", "port", p, where, k,
              Put("ram", "host", x, where, k,
                  Put("nvs", "port", p, where, k, Put("nvs", "host", h, where, k, u))))
          = Proxied(IF where = "nvs" THEN h ELSE x, p, k, u)
    BY DEF Put, Proxied
  <1>6. ASSUME NEW k, NEW u
        PROVE  /\ Leaves(f \o g \o c \o s, "nvs", k, u, Proxied(h, p, k, u))
               /\ Leaves(f \o g \o c \o s, "ram", k, u, Proxied(x, p, k, u))
    <2> DEFINE End(where) == Put("ram", "port", p, where, k,
                                 Put("ram", "host", x, where, k,
                                     Put("nvs", "port", p, where, k, Put("nvs", "host", h, where, k, u))))
    <2>1. End("nvs") = Proxied(h, p, k, u) /\ End("ram") = Proxied(x, p, k, u)
      BY <1>5
    <2>2. /\ Leaves(f \o g \o c \o s, "nvs", k, u, End("nvs"))
          /\ Leaves(f \o g \o c \o s, "ram", k, u, End("ram"))
      BY <1>4
    <2> HIDE DEF End
    <2> QED BY <2>1, <2>2
  <1> QED BY <1>4, <1>6 DEF f, g, s

(* A command that will leave the values of a in flash and those of b in    *)
(* RAM, and they agree.                                                    *)
LEMMA NewCommand ==
  ASSUME SettingsInv, todo = <<>>, UNCHANGED <<nvs, ram, reverted>>, NEW a, NEW b,
         ~reverted /\ AgreeAfterRestart(nvs, ram) => AgreeAfterRestart(a, b),
         \A k \in Fields : /\ Leaves(todo', "nvs", k, nvs[k], a[k])
                           /\ Leaves(todo', "ram", k, ram[k], b[k])
  PROVE  WillAgree'
  BY AgreeWhenDone DEF SettingsInv, WillAgree

LEMMA ProviderOrKey ==
  ASSUME SettingsInv, todo = <<>>, UNCHANGED <<nvs, ram, reverted>>,
         NEW k0 \in {"provider", "api_key"}, NEW a \in FlashValues[k0], NEW b \in RamValues[k0],
         todo' = Flash(k0, a) \o Copy(k0, b),
         k0 = "provider" => a \in Providers /\ b = a,
         k0 = "api_key" => b \in {IF a = None \/ a \in LongKeys THEN Build[k0] ELSE a, None, CutKey}
  PROVE  todo' \in Seq(Writes) /\ WillAgree'
  <1>1. k0 \in Fields /\ a \in Values("nvs")[k0] /\ b \in Values("ram")[k0] /\ Torn \in Values("ram")[k0]
    BY DEF Fields, Values, RamValues
  <1>2. todo' \in Seq(Writes)
    BY <1>1, PairLeaves
  <1> DEFINE n == [k \in Fields |-> IF k = k0 THEN a ELSE nvs[k]]
             r == [k \in Fields |-> IF k = k0 THEN b ELSE ram[k]]
  <1>3. AgreeAfterRestart(nvs, ram) => AgreeAfterRestart(n, r)
    <2>1. k0 = "provider" => a # None
      BY DEF Providers, None
    <2>2. \A k \in Fields : n[k] = (IF k = k0 THEN a ELSE nvs[k]) /\ r[k] = (IF k = k0 THEN b ELSE ram[k])
      OBVIOUS
    <2> HIDE DEF n, r
    <2>3. CASE k0 = "provider"
      <3>1. /\ n["provider"] = a /\ n["api_key"] = nvs["api_key"] /\ n["host"] = nvs["host"]
            /\ n["port"] = nvs["port"]
            /\ r["provider"] = a /\ r["api_key"] = ram["api_key"] /\ r["host"] = ram["host"]
            /\ r["port"] = ram["port"]
        BY <2>2, <2>3 DEF Fields
      <3> QED BY <2>1, <2>3, <3>1 DEF AgreeAfterRestart, Read, ReadPort, Misfit
    <2>4. CASE k0 = "api_key"
      <3>1. /\ n["provider"] = nvs["provider"] /\ n["api_key"] = a /\ n["host"] = nvs["host"]
            /\ n["port"] = nvs["port"]
            /\ r["provider"] = ram["provider"] /\ r["api_key"] = b /\ r["host"] = ram["host"]
            /\ r["port"] = ram["port"]
        BY <2>2, <2>4 DEF Fields
      <3> QED BY <2>4, <3>1 DEF AgreeAfterRestart, Read, ReadPort, Misfit
    <2> QED BY <2>3, <2>4
  <1>4. \A k \in Fields : Leaves(todo', "nvs", k, nvs[k], n[k]) /\ Leaves(todo', "ram", k, ram[k], r[k])
    BY <1>1, PairLeaves
  <1> HIDE DEF n, r
  <1> QED BY <1>2, <1>3, <1>4, NewCommand

LEMMA ProxyOrNone ==
  ASSUME SettingsInv, todo = <<>>, UNCHANGED <<nvs, ram, reverted>>,
         NEW h \in Hosts \cup {None}, NEW x, NEW p \in PortNumbers, NEW c \in Seq(Writes),
         x \in {None, CutHost} \/ (x = h /\ h \notin LongHosts),
         \A where, k, u : Leaves(c, where, k, u, Put("ram", "host", x, where, k, u)),
         todo' = Flash("host", h) \o Flash("port", p) \o c \o Store("port", p)
  PROVE  todo' \in Seq(Writes) /\ WillAgree'
  <1>1. h \in Values("nvs")["host"]
    BY DEF Values, FlashValues
  <1> DEFINE n == [k \in Fields |-> Proxied(h, p, k, nvs[k])]
             r == [k \in Fields |-> Proxied(x, p, k, ram[k])]
  <1>2. /\ todo' \in Seq(Writes)
        /\ \A k \in Fields : Leaves(todo', "nvs", k, nvs[k], n[k]) /\ Leaves(todo', "ram", k, ram[k], r[k])
    BY <1>1, ProxyLeaves
  <1>3. AgreeAfterRestart(nvs, ram) => AgreeAfterRestart(n, r)
    <2>1. /\ n["provider"] = nvs["provider"] /\ n["api_key"] = nvs["api_key"] /\ n["host"] = h /\ n["port"] = p
          /\ r["provider"] = ram["provider"] /\ r["api_key"] = ram["api_key"] /\ r["host"] = x /\ r["port"] = p
      BY DEF Fields, Proxied
    <2> HIDE DEF n, r
    <2> QED BY <2>1 DEF AgreeAfterRestart, Read, ReadPort, Misfit
  <1> HIDE DEF n, r
  <1> QED BY <1>2, <1>3, NewCommand

LEMMA CommandInv ==
  ASSUME SettingsInv, Command
  PROVE  SettingsInv'
  <1>1. todo = <<>> /\ UNCHANGED <<nvs, ram>> /\ commands \in 0..(MaxCommands - 1) /\ commands' = commands + 1
    BY SettingsAssumption, SettingsSpaces DEF Command, SettingsInv
  <1>2. SettingsTypeOK'
    <2>1. commands' \in 0..MaxCommands /\ reverted' \in BOOLEAN
      <3>1. commands' \in 0..MaxCommands
        BY <1>1, SettingsAssumption
      <3>2. reverted' \in BOOLEAN
        BY SettingsSpaces DEF Command, SettingsInv
      <3> QED BY <3>1, <3>2
    <2> QED BY <1>1, <2>1 DEF SettingsInv, SettingsTypeOK
  <1>3. ASSUME reverted' = reverted, NEW p \in Providers, todo' = SetProvider(p)
        PROVE  todo' \in Seq(Writes) /\ WillAgree'
    <2>1. p \in FlashValues["provider"] /\ p \in RamValues["provider"]
      BY DEF FlashValues, RamValues
    <2> QED BY <1>1, <1>3, <2>1, ProviderOrKey DEF SetProvider
  <1>4. ASSUME reverted' = reverted, NEW key \in Keys, todo' = SetApiKey(key)
        PROVE  todo' \in Seq(Writes) /\ WillAgree'
    <2>1. key \in FlashValues["api_key"] /\ Kept127(key) \in RamValues["api_key"]
      BY DEF FlashValues, RamValues, Kept127
    <2>2. Kept127(key) \in {IF key = None \/ key \in LongKeys THEN Build["api_key"] ELSE key, None, CutKey}
      BY DEF Kept127
    <2> QED BY <1>1, <1>4, <2>1, <2>2, ProviderOrKey DEF SetApiKey
  <1>5. ASSUME reverted' = reverted, NEW h \in Hosts, NEW p \in Ports, todo' = SetProxy(h, p)
        PROVE  todo' \in Seq(Writes) /\ WillAgree'
    <2> DEFINE port == p % 65536
               x == Kept63(h)
    <2>1. port \in PortNumbers
      BY <1>5, SettingsAssumption, Ports16
    <2>2. /\ x \in Values("ram")["host"] /\ Torn \in Values("ram")["host"] /\ "host" \in Fields
          /\ x = CutHost \/ (x = h /\ h \notin LongHosts)
      BY <1>5 DEF Values, RamValues, Fields, Kept63
    <2>3. /\ Copy("host", x) \in Seq(Writes)
          /\ \A where, k, u : Leaves(Copy("host", x), where, k, u, Put("ram", "host", x, where, k, u))
      BY <2>2, CopyLeaves
    <2>4. todo' = Flash("host", h) \o Flash("port", port) \o Copy("host", x) \o Store("port", port)
      BY <1>5 DEF SetProxy
    <2> HIDE DEF port, x
    <2> QED BY <1>1, <1>5, <2>1, <2>2, <2>3, <2>4, ProxyOrNone
  <1>6. ASSUME reverted' = reverted, todo' = ClearProxy
        PROVE  todo' \in Seq(Writes) /\ WillAgree'
    <2>1. None \in Values("ram")["host"] /\ "host" \in Fields
      BY DEF Values, RamValues, Fields
    <2>2. /\ Store("host", None) \in Seq(Writes)
          /\ \A where, k, u : Leaves(Store("host", None), where, k, u, Put("ram", "host", None, where, k, u))
      BY <2>1, StoreLeaves
    <2> DEFINE c == Store("host", None)
    <2>3. todo' = Flash("host", None) \o Flash("port", 0) \o c \o Store("port", 0)
      BY <1>6 DEF ClearProxy
    <2>4. None \in Hosts \cup {None} /\ 0 \in PortNumbers /\ UNCHANGED reverted
      BY <1>6, Ports16
    <2> HIDE DEF c
    <2>5. c \in Seq(Writes) /\ \A where, k, u : Leaves(c, where, k, u, Put("ram", "host", None, where, k, u))
      BY <2>2 DEF c
    <2> QED BY <1>1, <2>3, <2>4, <2>5, ProxyOrNone
  <1>7. ASSUME reverted' = TRUE, todo' = ConfigReset
        PROVE  todo' \in Seq(Writes) /\ WillAgree'
    <2>1. \A k \in {"provider", "api_key", "host"} : k \in Fields /\ None \in Values("nvs")[k]
      BY DEF Values, FlashValues, Fields
    <2>2. "port" \in Fields /\ 0 \in Values("nvs")["port"]
      BY Ports16 DEF Values, FlashValues, Fields
    <2>3. /\ Flash("provider", None) \in Seq(Writes) /\ Flash("api_key", None) \in Seq(Writes)
          /\ Flash("host", None) \in Seq(Writes) /\ Flash("port", 0) \in Seq(Writes)
      BY <2>1, <2>2, FlashLeaves
    <2>4. todo' \in Seq(Writes)
      BY <1>7, <2>3, ConcatProperties DEF ConfigReset
    <2> QED BY <1>7, <2>4 DEF WillAgree
  <1> QED BY <1>2, <1>3, <1>4, <1>5, <1>6, <1>7 DEF Command, SettingsInv

LEMMA LoadInv ==
  ASSUME SettingsInv, LoadSettings
  PROVE  SettingsInv'
  <1> DEFINE port == ReadPort(nvs)
  <1>1. ram' = [provider |-> Read(nvs, "provider"), api_key |-> Read(nvs, "api_key"),
                host |-> Read(nvs, "host"), port |-> port]
    BY WhatIsRead DEF LoadSettings
  <1>2. nvs' = nvs /\ todo' = <<>> /\ reverted' = FALSE /\ commands' = commands
    BY DEF LoadSettings
  <1>3. /\ nvs.provider \in Providers \cup {None} /\ nvs.api_key \in Keys \cup {None}
        /\ nvs.host \in Hosts \cup {None} /\ nvs.port \in PortNumbers
    <2>1. nvs \in Records(Providers \cup {None}, Keys \cup {None}, Hosts \cup {None}, PortNumbers)
      BY SettingsSpaces DEF SettingsInv, FlashStates
    <2> QED BY <2>1, FieldTypes
  <1>4. Build.provider \in Providers /\ Build.port \in PortNumbers
    BY BuildAssumption, FieldTypes DEF Records
  <1>5. /\ Read(nvs, "provider") \in Providers \cup {None, Torn}
        /\ Read(nvs, "api_key") \in Keys \cup {None, Torn, CutKey, Build.api_key}
        /\ Read(nvs, "host") \in Hosts \cup {None, Torn, CutHost, Build.host}
        /\ port \in PortNumbers
    BY <1>3, <1>4 DEF Read, ReadPort, Misfit
  <1>6. AgreeAfterRestart(nvs, ram')
    <2>1. /\ ram'["provider"] = Read(nvs, "provider") /\ ram'["api_key"] = Read(nvs, "api_key")
          /\ ram'["host"] = Read(nvs, "host") /\ ram'["port"] = port
      BY <1>1
    <2> QED BY <2>1 DEF AgreeAfterRestart
  <1> HIDE DEF port
  <1>7. ram' \in Settings
    BY <1>1, <1>5 DEF Settings
  <1>8. SettingsTypeOK'
    BY <1>2, <1>7 DEF SettingsInv, SettingsTypeOK
  <1>9. WillAgree'
    <2>1. \A k \in Fields : Leaves(todo', "nvs", k, nvs[k], nvs[k]) /\ Leaves(todo', "ram", k, ram'[k], ram'[k])
      BY <1>2, LeavesNothing
    <2> QED BY <1>2, <1>6, <2>1 DEF WillAgree
  <1> QED BY <1>2, <1>8, <1>9, EmptySeq DEF SettingsInv

LEMMA SettingsInvStep ==
  ASSUME SettingsInv, Command \/ Write \/ LoadSettings \/ UNCHANGED settingsVars
  PROVE  SettingsInv'
  <1>1. CASE UNCHANGED settingsVars
    BY <1>1 DEF settingsVars, SettingsInv, SettingsTypeOK, WillAgree
  <1> QED BY <1>1, CommandInv, WriteInv, LoadInv

LEMMA TransparentWhenDone == SettingsInv => RestartIsTransparent
  <1> SUFFICES ASSUME SettingsInv, todo = <<>>, ~reverted
               PROVE  /\ ram.provider = Loaded.provider
                      /\ ram.api_key \in {Loaded.api_key, None, CutKey}
                      /\ \/ ram.host \in {None, CutHost}
                         \/ ram.host = Loaded.host /\ ram.port \in {Loaded.port, 0}
    BY DEF RestartIsTransparent
  <1>1. AgreeAfterRestart(nvs, ram)
    BY AgreeWhenDone DEF SettingsInv
  <1> QED BY <1>1, WhatIsRead DEF AgreeAfterRestart

----------------------------------------------------------------------------
(* A call: the parts of the inductive invariant.                           *)

Formats == [body : Providers \cup {None}, address : Providers \cup {None},
            header : Providers \cup {None}, parser : Providers \cup {None}]

CallTypes ==
    /\ pc \in {"idle", "start", "choose", "open", "header", "exchange", "socket", "connect",
               "tunnel", "wrap", "handshake", "write", "close", "parse", "failed"}
    /\ formats \in Formats /\ via \in {"direct", "proxy"}
    /\ held \subseteq {"post_data", "rb", "client", "res"} \cup Connection
    /\ arrived \in 0..Chunks /\ kept \subseteq 1..arrived
    /\ quiet \in BOOLEAN

(* What a call holds at each of its places. *)
Buffers == {"post_data", "rb"}

HeldAt ==
    /\ pc \in {"idle", "start"} => held = {}
    /\ pc \in {"choose", "open", "parse", "failed"} => held = Buffers
    /\ pc \in {"header", "exchange"} =>
         held = Buffers \cup (IF via = "direct" THEN {"client"} ELSE Connection)
    /\ pc = "socket" => held = Buffers \cup {"res"}
    /\ pc = "connect" => held = Buffers \cup {"res", "sock"}
    /\ pc \in {"tunnel", "wrap"} => held = Buffers \cup {"sock"}
    /\ pc \in {"handshake", "write", "close"} => held = Buffers \cup Connection
    /\ pc \in {"socket", "connect", "tunnel", "wrap", "handshake", "write", "close"} => via = "proxy"

(* What a call has read from the settings is what they are, while nobody   *)
(* changes them.                                                           *)
AsSet ==
    /\ pc \notin {"idle", "start"} => formats.body # None
    /\ quiet => /\ formats.body \in {None, Provider}
                /\ \A f \in {"address", "header", "parser"} : formats[f] \in {None, formats.body}
                /\ dialled # Unread => dialled.host = ram.host /\ dialled.port = ram.port

(* What the proxy's path keeps of a response has no hole. *)
KeptInv ==
    /\ pc \in {"choose", "open", "header", "socket", "connect", "tunnel", "wrap", "handshake", "write"} =>
         arrived = 0
    /\ via = "proxy" /\ pc = "exchange" => kept = 1..arrived
    /\ via = "proxy" /\ pc \in {"close", "parse"} => \E n \in 0..Chunks : kept = 1..n

(* A step of the call itself. *)
CallStep == Choose \/ NoParse \/ Direct \/ Proxy \/ WriteRequest

LEMMA CallStepFrame ==
  ASSUME CallStep
  PROVE  /\ UNCHANGED <<settingsVars, turnVars, request, taken, quiet>>
         /\ pc \notin {"idle", "start", "failed"} /\ pc' \notin {"idle", "start"}
         /\ \/ formats' = formats
            \/ formats' = [formats EXCEPT !.address = Provider]
            \/ formats' = [formats EXCEPT !.header = Provider]
         /\ dialled' = dialled \/ dialled' = [host |-> ram.host, port |-> ram.port]
  <1>1. CASE Choose \/ NoParse \/ WriteRequest
    BY <1>1 DEF Choose, NoParse, WriteRequest, Holding
  <1>2. CASE Direct
    BY <1>2 DEF Direct, OpenDirect, HeaderDirect, PieceDirect, EndDirect, Holding
  <1>3. CASE Resolve \/ Socket \/ Connect \/ Tunnel \/ Wrap \/ Handshake
    BY <1>3 DEF Resolve, Socket, Connect, Tunnel, Wrap, Handshake, Holding
  <1>4. CASE HeaderProxy \/ PieceProxy \/ EndProxy \/ CloseProxy
    BY <1>4 DEF HeaderProxy, PieceProxy, EndProxy, CloseProxy, Holding
  <1> QED BY <1>1, <1>2, <1>3, <1>4 DEF CallStep, Proxy

LEMMA StepKinds ==
  Next <=> \/ Begin \/ Refuse \/ BuildRequest \/ Fail \/ TakeResponse \/ CallStep
           \/ Console \/ Restart
  BY DEF Next, Turn, CallStep

LEMMA ProviderKnown == Provider \in Providers /\ None \notin Providers
  BY DEF Provider, Providers, None

LEMMA FormatsKept ==
  ASSUME NEW g \in Formats, NEW p \in Providers
  PROVE  /\ [g EXCEPT !.address = p] \in Formats /\ [g EXCEPT !.header = p] \in Formats
         /\ [g EXCEPT !.parser = p] \in Formats
         /\ \A h \in {[g EXCEPT !.address = p], [g EXCEPT !.header = p], [g EXCEPT !.parser = p]} :
              /\ h.body = g.body
              /\ \A f \in {"address", "header", "parser"} : h[f] \in {g[f], p}
  BY DEF Formats

LEMMA NextHeldAt ==
  ASSUME CallTypes, HeldAt, [Next]_vars
  PROVE  HeldAt'
  <1> USE DEF HeldAt, Buffers, Connection
  <1>1. CASE UNCHANGED vars
    BY <1>1 DEF vars, callVars
  <1>2. CASE Begin \/ Refuse \/ BuildRequest \/ Fail \/ TakeResponse \/ Console \/ Restart
    BY <1>2 DEF Begin, Refuse, BuildRequest, Fail, TakeResponse, Console, Restart, EndTurn, callVars
  <1>3. CASE Choose \/ NoParse \/ WriteRequest
    BY <1>3 DEF Choose, NoParse, WriteRequest, Holding, CallTypes
  <1>4. CASE Direct
    BY <1>4 DEF Direct, OpenDirect, HeaderDirect, PieceDirect, EndDirect, Holding
  <1>5. CASE Resolve \/ Socket \/ Connect
    BY <1>5 DEF Resolve, Socket, Connect, Holding
  <1>6. CASE Tunnel \/ Wrap \/ Handshake
    BY <1>6 DEF Tunnel, Wrap, Handshake, Holding
  <1>7. CASE HeaderProxy \/ PieceProxy \/ EndProxy \/ CloseProxy
    BY <1>7 DEF HeaderProxy, PieceProxy, EndProxy, CloseProxy, Holding
  <1> QED
    BY <1>1, <1>2, <1>3, <1>4, <1>5, <1>6, <1>7, StepKinds DEF CallStep, Proxy

LEMMA Bounds == MaxIter \in Nat \ {0} /\ MaxCalls \in Nat \ {0} /\ Chunks \in Nat \ {0} /\ MaxTurns \in Nat \ {0}
  BY CallAssumption

LEMMA CallStepFormats ==
  ASSUME formats \in Formats, CallStep
  PROVE  /\ formats' \in Formats /\ formats'.body = formats.body
         /\ \A f \in {"address", "header", "parser"} : formats'[f] \in {formats[f], Provider}
  <1>1. CASE formats' = formats
    BY <1>1
  <1>2. CASE formats' = [formats EXCEPT !.address = Provider]
    BY <1>2, FormatsKept, ProviderKnown
  <1>3. CASE formats' = [formats EXCEPT !.header = Provider]
    BY <1>3, FormatsKept, ProviderKnown
  <1> QED BY <1>1, <1>2, <1>3, CallStepFrame

LEMMA NextCallTypes ==
  ASSUME CallTypes, [Next]_vars
  PROVE  CallTypes'
  <1> USE DEF CallTypes, Connection
  <1>1. CASE UNCHANGED vars
    BY <1>1 DEF vars, callVars
  <1>2. NoFormats \in Formats /\ [NoFormats EXCEPT !.body = Provider] \in Formats
    BY ProviderKnown DEF NoFormats, Formats
  <1>3. [formats EXCEPT !.parser = Provider] \in Formats
    BY FormatsKept, ProviderKnown
  <1>4. CASE Begin \/ Refuse \/ BuildRequest \/ Fail \/ TakeResponse \/ Console \/ Restart
    <2>1. CASE Begin \/ Refuse \/ Fail \/ Console
      BY <2>1 DEF Begin, Refuse, Fail, Console, EndTurn, callVars
    <2>2. CASE BuildRequest
      BY <2>2, <1>2, Bounds DEF BuildRequest
    <2>3. CASE TakeResponse
      BY <2>3, <1>3 DEF TakeResponse, EndTurn
    <2>4. CASE Restart
      BY <2>4, <1>2, Bounds DEF Restart
    <2> QED BY <1>4, <2>1, <2>2, <2>3, <2>4
  <1>5. ASSUME CallStep PROVE CallTypes'
    <2>1. formats' \in Formats
      BY <1>5, CallStepFormats
    <2>2. quiet' \in BOOLEAN
      BY <1>5, CallStepFrame
    <2>3. CASE Choose \/ NoParse \/ WriteRequest
      BY <2>1, <2>2, <2>3 DEF Choose, NoParse, WriteRequest, Holding
    <2>4. CASE PieceDirect \/ PieceProxy
      <3>1. arrived' \in 0..Chunks /\ kept' \subseteq 1..arrived'
        <4>1. /\ arrived \in 0..Chunks /\ arrived < Chunks /\ arrived' = arrived + 1
              /\ kept' \in {kept, kept \cup {arrived'}} /\ kept \subseteq 1..arrived
          BY <2>4 DEF PieceDirect, PieceProxy
        <4> QED BY <4>1, Bounds
      <3> QED BY <2>1, <2>2, <2>4, <3>1 DEF PieceDirect, PieceProxy
    <2>5. CASE OpenDirect \/ HeaderDirect \/ EndDirect
      BY <2>1, <2>2, <2>5 DEF OpenDirect, HeaderDirect, EndDirect, Holding
    <2>6. CASE Resolve \/ Socket \/ Connect
      BY <2>1, <2>2, <2>6 DEF Resolve, Socket, Connect, Holding
    <2>7. CASE Tunnel \/ Wrap \/ Handshake
      BY <2>1, <2>2, <2>7 DEF Tunnel, Wrap, Handshake, Holding
    <2>8. CASE HeaderProxy \/ EndProxy \/ CloseProxy
      BY <2>1, <2>2, <2>8 DEF HeaderProxy, EndProxy, CloseProxy, Holding
    <2> QED BY <1>5, <2>3, <2>4, <2>5, <2>6, <2>7, <2>8 DEF CallStep, Direct, Proxy
  <1> QED BY <1>1, <1>4, <1>5, StepKinds

LEMMA NextAsSet ==
  ASSUME CallTypes, AsSet, [Next]_vars
  PROVE  AsSet'
  <1>1. CASE UNCHANGED vars
    BY <1>1 DEF vars, callVars, settingsVars, AsSet, Provider
  <1>2. CASE Begin \/ Refuse \/ Fail
    BY <1>2 DEF Begin, Refuse, Fail, EndTurn, callVars, settingsVars, AsSet, Provider
  <1>3. CASE BuildRequest
    <2>1. /\ formats'.body = Provider /\ dialled' = Unread /\ ram' = ram
          /\ \A f \in {"address", "header", "parser"} : formats'[f] = None
      BY <1>3 DEF BuildRequest, NoFormats, settingsVars
    <2> QED BY <2>1, ProviderKnown DEF AsSet, Provider
  <1>4. CASE Restart
    <2>1. /\ pc' = "idle" /\ dialled' = Unread
          /\ \A f \in {"body", "address", "header", "parser"} : formats'[f] = None
      BY <1>4 DEF Restart, NoFormats
    <2> QED BY <2>1 DEF AsSet
  <1>5. CASE Console
    <2>1. UNCHANGED <<pc, formats, dialled>> /\ (quiet' => quiet /\ ram' = ram)
      BY <1>5 DEF Console, callVars
    <2> QED BY <2>1 DEF AsSet, Provider
  <1>6. CASE TakeResponse
    <2>1. /\ formats' = [formats EXCEPT !.parser = Provider] /\ pc = "parse"
          /\ UNCHANGED <<ram, dialled, quiet>>
      BY <1>6 DEF TakeResponse, settingsVars
    <2>2. /\ formats'.body = formats.body
          /\ \A f \in {"address", "header", "parser"} : formats'[f] \in {formats[f], Provider}
      BY <2>1, FormatsKept, ProviderKnown DEF CallTypes
    <2> QED BY <2>1, <2>2 DEF AsSet, Provider
  <1>7. CASE CallStep
    <2>1. /\ formats'.body = formats.body
          /\ \A f \in {"address", "header", "parser"} : formats'[f] \in {formats[f], Provider}
      BY <1>7, CallStepFormats DEF CallTypes
    <2>2. /\ ram' = ram /\ quiet' = quiet /\ pc \notin {"idle", "start"}
          /\ dialled' = dialled \/ (dialled'.host = ram.host /\ dialled'.port = ram.port)
      BY <1>7, CallStepFrame DEF settingsVars
    <2> QED BY <2>1, <2>2 DEF AsSet, Provider
  <1> QED BY <1>1, <1>2, <1>3, <1>4, <1>5, <1>6, <1>7, StepKinds

LEMMA NextKept ==
  ASSUME CallTypes, HeldAt, KeptInv, [Next]_vars
  PROVE  KeptInv'
  <1> USE DEF KeptInv
  <1>1. CASE UNCHANGED vars
    BY <1>1 DEF vars, callVars
  <1>2. CASE Begin \/ Refuse \/ BuildRequest \/ Fail \/ TakeResponse \/ Console \/ Restart
    BY <1>2 DEF Begin, Refuse, BuildRequest, Fail, TakeResponse, Console, Restart, EndTurn, callVars
  <1>3. CASE Choose \/ NoParse \/ WriteRequest
    <2>1. pc = "write" => kept = 1..arrived
      BY Bounds DEF CallTypes
    <2> QED BY <1>3, <2>1 DEF Choose, NoParse, WriteRequest, Holding
  <1>4. CASE Direct
    BY <1>4 DEF Direct, OpenDirect, HeaderDirect, PieceDirect, EndDirect, Holding
  <1>5. CASE Resolve \/ Socket \/ Connect
    BY <1>5 DEF Resolve, Socket, Connect, Holding
  <1>6. CASE Tunnel \/ Wrap \/ Handshake
    BY <1>6 DEF Tunnel, Wrap, Handshake, Holding
  <1>7. CASE HeaderProxy \/ CloseProxy
    BY <1>7 DEF HeaderProxy, CloseProxy, Holding, HeldAt
  <1>8. CASE PieceProxy
    <2>1. /\ kept = 1..arrived /\ arrived \in 0..Chunks /\ arrived' = arrived + 1 /\ via' = via
          /\ \/ kept' = kept \cup {arrived'} /\ pc' = pc /\ pc = "exchange"
             \/ kept' = kept /\ pc' = "close"
      BY <1>8 DEF PieceProxy, CallTypes
    <2>2. 1..(arrived + 1) = (1..arrived) \cup {arrived + 1}
      BY <2>1, Bounds
    <2> QED BY <2>1, <2>2
  <1>9. CASE EndProxy
    BY <1>9 DEF EndProxy, Holding, CallTypes
  <1> QED
    BY <1>1, <1>2, <1>3, <1>4, <1>5, <1>6, <1>7, <1>8, <1>9, StepKinds DEF CallStep, Proxy

----------------------------------------------------------------------------
(* The turn: its messages are the user's text, and for each round the      *)
(* calls of the model and the results of the same calls.                   *)

Messages == [role : {"user", "assistant"}, text : BOOLEAN, calls : Seq(Nat), results : Seq(Nat)]

Round(ms, k) == \E t \in BOOLEAN, cs \in Seq(Nat) :
                    ms[2 * k] = Assistant(t, cs) /\ ms[2 * k + 1] = Results(cs)

Conversation(ms, n) ==
    /\ ms \in Seq(Messages) /\ Len(ms) = 2 * n + 1 /\ ms[1] = UserText
    /\ \A k \in 1..n : Round(ms, k)

TurnInv ==
    /\ turns \in 0..MaxTurns /\ iteration \in 0..MaxIter
    /\ pc = "idle" => messages = <<>> /\ iteration = 0
    /\ pc # "idle" => Conversation(messages, iteration)
    /\ pc \notin {"idle", "start"} => iteration < MaxIter

LEMMA MessageKinds ==
  /\ UserText \in Messages
  /\ \A t \in BOOLEAN, cs \in Seq(Nat) : Assistant(t, cs) \in Messages /\ Results(cs) \in Messages
  BY EmptySeq DEF Messages, UserText, Assistant, Results

LEMMA AddRound ==
  ASSUME NEW n \in Nat, NEW ms, Conversation(ms, n), NEW t \in BOOLEAN, NEW cs \in Seq(Nat)
  PROVE  Conversation(ms \o <<Assistant(t, cs), Results(cs)>>, n + 1)
  <1> DEFINE a == Assistant(t, cs)
             b == Results(cs)
             c == ms \o <<a, b>>
  <1>1. a \in Messages /\ b \in Messages
    BY MessageKinds
  <1>2. ms \in Seq(Messages) /\ Len(ms) = 2 * n + 1
    BY DEF Conversation
  <1> HIDE DEF a, b
  <1>3. <<a, b>> \in Seq(Messages) /\ Len(<<a, b>>) = 2 /\ <<a, b>>[1] = a /\ <<a, b>>[2] = b
    BY <1>1
  <1>4. /\ c \in Seq(Messages) /\ Len(c) = 2 * n + 3
        /\ \A i \in 1..(2 * n + 3) : c[i] = IF i <= 2 * n + 1 THEN ms[i] ELSE <<a, b>>[i - (2 * n + 1)]
    BY <1>2, <1>3, ConcatProperties
  <1> HIDE DEF c
  <1>5. c[1] = UserText
    BY <1>4 DEF Conversation
  <1>6. ASSUME NEW k \in 1..(n + 1) PROVE Round(c, k)
    <2>1. CASE k <= n
      <3>1. /\ 2 * k \in 1..(2 * n + 3) /\ 2 * k <= 2 * n + 1
            /\ 2 * k + 1 \in 1..(2 * n + 3) /\ 2 * k + 1 <= 2 * n + 1
        BY <2>1
      <3>2. c[2 * k] = ms[2 * k] /\ c[2 * k + 1] = ms[2 * k + 1]
        BY <1>4, <3>1
      <3>3. Round(ms, k)
        BY <2>1 DEF Conversation
      <3> QED BY <3>2, <3>3 DEF Round
    <2>2. CASE k = n + 1
      <3>1. /\ 2 * k \in 1..(2 * n + 3) /\ ~(2 * k <= 2 * n + 1) /\ 2 * k - (2 * n + 1) = 1
            /\ 2 * k + 1 \in 1..(2 * n + 3) /\ ~(2 * k + 1 <= 2 * n + 1) /\ 2 * k + 1 - (2 * n + 1) = 2
        BY <2>2
      <3>2. c[2 * k] = a /\ c[2 * k + 1] = b
        BY <1>3, <1>4, <3>1
      <3> QED BY <3>2 DEF Round, a, b
    <2> QED BY <2>1, <2>2
  <1>7. Len(c) = 2 * (n + 1) + 1
    BY <1>4
  <1> QED BY <1>4, <1>5, <1>6, <1>7 DEF Conversation, a, b, c

LEMMA ResponseFields ==
  ASSUME NEW A, NEW B, NEW C, NEW D, NEW E, NEW F, NEW G,
         NEW r \in [text : A, calls : B, tool_use : C, from : D, parsed : E, whole : F, via : G]
  PROVE  r.text \in A /\ r.calls \in B /\ r.tool_use \in C /\ r.from \in D /\ r.parsed \in E
         /\ r.whole \in F /\ r.via \in G
  OBVIOUS

LEMMA ParsedKinds ==
  ASSUME NEW p, NEW r \in Parsed(p)
  PROVE  /\ r.text \in BOOLEAN /\ r.calls \in 0..MaxCalls /\ r.tool_use \in BOOLEAN
         /\ r.from = formats.address /\ r.parsed = p /\ r.whole = Whole /\ r.via = via
         /\ r.text \/ r.calls > 0 => p = formats.address
  <1> DEFINE Responses(texts, counts, uses) ==
               [text : texts, calls : counts, tool_use : uses, from : {formats.address},
                parsed : {p}, whole : {Whole}, via : {via}]
  <1>1. \/ r \in Responses({FALSE}, {0}, {FALSE})
        \/ p = formats.address /\ r \in Responses(BOOLEAN, 0..MaxCalls, BOOLEAN)
    BY DEF Parsed
  <1>2. CASE r \in Responses({FALSE}, {0}, {FALSE})
    <2>1. /\ r.text \in {FALSE} /\ r.calls \in {0} /\ r.tool_use \in {FALSE}
          /\ r.from \in {formats.address} /\ r.parsed \in {p} /\ r.whole \in {Whole} /\ r.via \in {via}
      BY <1>2, ResponseFields
    <2>2. r.text = FALSE /\ r.calls = 0
      BY <2>1
    <2>3. r.calls \in 0..MaxCalls /\ ~(r.calls > 0)
      BY <2>2, Bounds
    <2> QED BY <2>1, <2>2, <2>3
  <1>3. CASE p = formats.address /\ r \in Responses(BOOLEAN, 0..MaxCalls, BOOLEAN)
    <2>1. /\ r.text \in BOOLEAN /\ r.calls \in 0..MaxCalls /\ r.tool_use \in BOOLEAN
          /\ r.from \in {formats.address} /\ r.parsed \in {p} /\ r.whole \in {Whole} /\ r.via \in {via}
      BY <1>3, ResponseFields
    <2> QED BY <1>3, <2>1
  <1> QED BY <1>1, <1>2, <1>3

LEMMA CallIdsTyped ==
  ASSUME iteration \in Nat, NEW n \in Nat
  PROVE  CallIds(n) \in Seq(Nat)
  <1>1. iteration * MaxCalls \in Nat
    BY Bounds
  <1>2. \A i \in 1..n : iteration * MaxCalls + i \in Nat
    BY <1>1
  <1> QED BY <1>2 DEF CallIds

LEMMA NextTurn ==
  ASSUME TurnInv, [Next]_vars
  PROVE  TurnInv'
  <1>1. CASE UNCHANGED vars \/ Console
    BY <1>1 DEF vars, turnVars, Console, TurnInv
  <1>2. CASE Begin
    <2>1. messages' = <<UserText>> /\ iteration' = 0 /\ turns' \in 0..MaxTurns /\ pc' = "start"
      BY <1>2, Bounds DEF Begin, TurnInv
    <2>2. Conversation(<<UserText>>, 0)
      BY MessageKinds DEF Conversation
    <2> QED BY <2>1, <2>2, Bounds DEF TurnInv
  <1>3. CASE Refuse \/ Fail \/ Restart
    BY <1>3, Bounds DEF Refuse, Fail, Restart, EndTurn, TurnInv
  <1>4. CASE BuildRequest
    BY <1>4, Bounds DEF BuildRequest, RoundsLeft, turnVars, TurnInv
  <1>5. CASE CallStep
    BY <1>5, CallStepFrame DEF turnVars, TurnInv
  <1>6. CASE TakeResponse /\ ~taken'.tool_use
    BY <1>6, Bounds DEF TakeResponse, EndTurn, TurnInv
  <1>7. CASE TakeResponse /\ taken'.tool_use
    <2>1. /\ pc = "parse" /\ pc' = "start" /\ iteration' = iteration + 1 /\ turns' = turns
          /\ ToolRound(taken') /\ taken' \in Parsed(Provider)
      BY <1>7 DEF TakeResponse
    <2>2. iteration \in 0..MaxIter /\ iteration < MaxIter /\ Conversation(messages, iteration)
      BY <2>1 DEF TurnInv
    <2>3. taken'.text \in BOOLEAN /\ taken'.calls \in 0..MaxCalls
      BY <2>1, ParsedKinds
    <2>4. CallIds(taken'.calls) \in Seq(Nat)
      BY <2>2, <2>3, CallIdsTyped, Bounds
    <2>5. Conversation(messages', iteration + 1)
      BY <2>1, <2>2, <2>3, <2>4, AddRound, Bounds DEF ToolRound
    <2>6. iteration + 1 \in 0..MaxIter
      BY <2>2, Bounds
    <2> QED BY <2>1, <2>5, <2>6 DEF TurnInv
  <1> QED BY <1>1, <1>2, <1>3, <1>4, <1>5, <1>6, <1>7, StepKinds

LEMMA NextTaken ==
  ASSUME CallTypes, KeptInv, NothingTakenFromBrokenCalls, [Next]_vars
  PROVE  NothingTakenFromBrokenCalls'
  <1>1. CASE taken' = taken
    BY <1>1 DEF NothingTakenFromBrokenCalls
  <1>2. CASE Restart
    BY <1>2 DEF Restart, NothingTakenFromBrokenCalls, NoResponse
  <1>3. CASE TakeResponse
    <2> SUFFICES ASSUME taken'.text \/ taken'.calls > 0
                 PROVE  taken'.parsed = taken'.from /\ (taken'.whole \/ taken'.via = "direct")
      BY DEF NothingTakenFromBrokenCalls
    <2>1. taken' \in Parsed(Provider) /\ pc = "parse" /\ (Whole \/ Holed)
      BY <1>3 DEF TakeResponse
    <2>2. taken'.parsed = taken'.from /\ taken'.whole = Whole /\ taken'.via = via
      BY <2>1, ParsedKinds
    <2>3. CASE via = "proxy"
      <3>1. PICK n \in 0..Chunks : kept = 1..n
        BY <2>1, <2>3 DEF KeptInv
      <3>2. Chunks \in kept => Whole
        BY <3>1, Bounds DEF Whole
      <3> QED BY <2>1, <2>2, <3>2 DEF Holed
    <2> QED BY <2>2, <2>3 DEF CallTypes
  <1> QED
    BY <1>1, <1>2, <1>3, StepKinds, CallStepFrame
    DEF vars, Begin, Refuse, BuildRequest, Fail, Console

----------------------------------------------------------------------------
(* The conversation in the two formats. *)

LEMMA ConversationPairs ==
  ASSUME NEW n \in Nat, NEW ms, Conversation(ms, n)
  PROVE  AnthropicPaired(ms)
  <1>1. Len(ms) = 2 * n + 1 /\ ms[1].calls = <<>> /\ ms[1].results = <<>>
    BY DEF Conversation, UserText
  <1>2. ASSUME NEW k \in 1..n
        PROVE  /\ ms[2 * k].results = <<>> /\ ms[2 * k + 1].calls = <<>>
               /\ ms[2 * k + 1].results = ms[2 * k].calls
    <2>1. PICK t \in BOOLEAN, cs \in Seq(Nat) : ms[2 * k] = Assistant(t, cs) /\ ms[2 * k + 1] = Results(cs)
      BY DEF Conversation, Round
    <2> QED BY <2>1 DEF Assistant, Results
  <1>3. ASSUME NEW i \in 1..Len(ms)
        PROVE  i = 1 \/ \E k \in 1..n : i = 2 * k \/ i = 2 * k + 1
    <2>1. i \in 1..(2 * n + 1)
      BY <1>1
    <2>2. i = 1 \/ ((i \div 2) \in 1..n /\ (i = 2 * (i \div 2) \/ i = 2 * (i \div 2) + 1))
      BY <2>1
    <2> QED BY <2>2
  <1>4. ASSUME NEW i \in 1..Len(ms), ms[i].calls # <<>>
        PROVE  i < Len(ms) /\ ms[i + 1].results = ms[i].calls
    <2>1. PICK k \in 1..n : i = 2 * k
      BY <1>1, <1>2, <1>3, <1>4
    <2>2. i < Len(ms)
      BY <1>1, <2>1
    <2> QED BY <1>2, <2>1, <2>2
  <1>5. ASSUME NEW i \in 1..Len(ms), ms[i].results # <<>>
        PROVE  i > 1 /\ ms[i - 1].calls = ms[i].results
    <2>1. PICK k \in 1..n : i = 2 * k + 1
      BY <1>1, <1>2, <1>3, <1>5
    <2>2. i > 1 /\ i - 1 = 2 * k
      BY <2>1
    <2> QED BY <1>2, <2>1, <2>2
  <1> QED BY <1>4, <1>5 DEF AnthropicPaired

(* A set of numbers with 0, and with the next of each below m, has all up  *)
(* to m.                                                                   *)
LEMMA UpTo ==
  ASSUME NEW m \in Nat, NEW S, 0 \in S, \A n \in 0..(m - 1) : n \in S => n + 1 \in S
  PROVE  \A n \in 0..m : n \in S
  <1> DEFINE B == (0..m) \ S
  <1> SUFFICES ASSUME B # {} PROVE FALSE
    OBVIOUS
  <1>1. B \in SUBSET Nat
    OBVIOUS
  <1>2. PICK n \in B : \A k \in B : <<k, n>> \notin OpToRel(<, Nat)
    BY <1>1, NatLessThanWellFounded, WFMin
  <1>3. n \in 1..m /\ n - 1 \in 0..(m - 1) /\ n \notin S
    OBVIOUS
  <1>4. n - 1 \notin S
    BY <1>3
  <1>5. n - 1 \in B /\ n - 1 \in Nat /\ n \in Nat
    BY <1>3, <1>4
  <1>6. <<n - 1, n>> \in Nat \X Nat /\ <<n - 1, n>>[1] = n - 1 /\ <<n - 1, n>>[2] = n
    BY <1>5
  <1>7. <<n - 1, n>> \in OpToRel(<, Nat)
    BY <1>5, <1>6 DEF OpToRel
  <1> QED BY <1>2, <1>5, <1>7

(* FlattenSeq puts the sequences together one after another. *)
Joined(s, f, m) == f = [i \in 1..m |-> IF i = 1 THEN s[i] ELSE f[i - 1] \o s[i]]

LEMMA JoinedExists ==
  ASSUME NEW m \in Nat, NEW s
  PROVE  \E f : Joined(s, f, m)
  <1> DEFINE S == {n \in 0..m : \E f : Joined(s, f, n)}
  <1>1. 0 \in S
    <2> DEFINE f == [i \in 1..0 |-> i]
    <2>1. Joined(s, f, 0)
      BY DEF Joined
    <2> HIDE DEF f
    <2> QED BY <2>1
  <1>2. ASSUME NEW n \in 0..(m - 1), n \in S PROVE n + 1 \in S
    <2>1. PICK f : Joined(s, f, n)
      BY <1>2
    <2> DEFINE g == [i \in 1..(n + 1) |-> IF i <= n THEN f[i] ELSE IF i = 1 THEN s[i] ELSE f[i - 1] \o s[i]]
    <2>2. ASSUME NEW i \in 1..(n + 1) PROVE g[i] = IF i = 1 THEN s[i] ELSE g[i - 1] \o s[i]
      <3>1. CASE i <= n
        <4>1. i \in 1..n /\ (i # 1 => i - 1 \in 1..(n + 1) /\ i - 1 <= n)
          BY <3>1
        <4>2. f[i] = IF i = 1 THEN s[i] ELSE f[i - 1] \o s[i]
          BY <2>1, <4>1 DEF Joined
        <4> QED BY <3>1, <4>1, <4>2
      <3>2. CASE i = n + 1
        <4>1. ~(i <= n) /\ (i # 1 => i - 1 \in 1..(n + 1) /\ i - 1 <= n)
          BY <3>2
        <4> QED BY <4>1
      <3> QED BY <3>1, <3>2
    <2>3. g = [i \in 1..(n + 1) |-> g[i]]
      OBVIOUS
    <2> HIDE DEF g
    <2>4. Joined(s, g, n + 1)
      BY <2>2, <2>3 DEF Joined
    <2>5. n + 1 \in 0..m
      OBVIOUS
    <2> QED BY <2>4, <2>5
  <1> HIDE DEF S
  <1>3. m \in S
    BY <1>1, <1>2, UpTo
  <1> QED BY <1>3 DEF S

LEMMA FlattenedIsJoined ==
  ASSUME NEW s, Len(s) \in Nat \ {0}
  PROVE  \E f : Joined(s, f, Len(s)) /\ FlattenSeq(s) = f[Len(s)]
  <1> DEFINE D(f) == f = [i \in 1..Len(s) |-> IF i = 1 THEN s[i] ELSE f[i - 1] \o s[i]]
             F == CHOOSE f : D(f)
  <1>1. \E f : D(f)
    BY JoinedExists DEF Joined
  <1>2. D(F)
    <2> HIDE DEF D
    <2> QED BY <1>1
  <1>3. FlattenSeq(s) = F[Len(s)]
    BY DEF FlattenSeq
  <1> QED BY <1>2, <1>3 DEF Joined

OpenAiMessages == {System, Plain("user")} \cup {WithCalls(cs) : cs \in Seq(Nat)}
                  \cup {ToolMsg(id) : id \in Nat}

CallsOf(m) == IF m.role = "assistant" THEN m.calls ELSE <<>>
Tools(cs)  == [i \in 1..Len(cs) |-> ToolMsg(cs[i])]
Block(cs)  == <<WithCalls(cs)>> \o Tools(cs)

LEMMA ToolsTyped ==
  ASSUME NEW cs \in Seq(Nat)
  PROVE  /\ Tools(cs) \in Seq(OpenAiMessages) /\ Len(Tools(cs)) = Len(cs) /\ Len(cs) \in Nat
         /\ \A i \in 1..Len(cs) : Tools(cs)[i] = ToolMsg(cs[i])
  <1>1. Len(cs) \in Nat /\ \A i \in 1..Len(cs) : cs[i] \in Nat
    OBVIOUS
  <1>2. \A i \in 1..Len(cs) : ToolMsg(cs[i]) \in OpenAiMessages
    BY <1>1 DEF OpenAiMessages
  <1> QED BY <1>1, <1>2 DEF Tools

LEMMA BlockTyped ==
  ASSUME NEW cs \in Seq(Nat)
  PROVE  /\ Block(cs) \in Seq(OpenAiMessages) /\ Len(Block(cs)) = Len(cs) + 1
         /\ Block(cs)[1] = WithCalls(cs)
         /\ \A i \in 1..Len(cs) : Block(cs)[i + 1] = ToolMsg(cs[i])
  <1> DEFINE w == WithCalls(cs)
             t == Tools(cs)
  <1>1. w \in OpenAiMessages
    BY DEF OpenAiMessages
  <1>2. /\ t \in Seq(OpenAiMessages) /\ Len(t) = Len(cs) /\ Len(cs) \in Nat
        /\ \A i \in 1..Len(cs) : t[i] = ToolMsg(cs[i])
    BY ToolsTyped
  <1> HIDE DEF w, t
  <1>3. <<w>> \in Seq(OpenAiMessages) /\ Len(<<w>>) = 1 /\ <<w>>[1] = w
    BY <1>1
  <1>4. /\ <<w>> \o t \in Seq(OpenAiMessages) /\ Len(<<w>> \o t) = Len(cs) + 1
        /\ \A i \in 1..(Len(cs) + 1) : (<<w>> \o t)[i] = IF i <= 1 THEN <<w>>[i] ELSE t[i - 1]
    BY <1>2, <1>3, ConcatProperties
  <1>5. (<<w>> \o t)[1] = w
    BY <1>2, <1>3, <1>4
  <1>6. ASSUME NEW i \in 1..Len(cs) PROVE (<<w>> \o t)[i + 1] = ToolMsg(cs[i])
    <2>1. i + 1 \in 1..(Len(cs) + 1) /\ ~(i + 1 <= 1) /\ i + 1 - 1 = i
      BY <1>2
    <2> QED BY <1>2, <1>4, <2>1
  <1> QED BY <1>4, <1>5, <1>6 DEF Block, w, t

LEMMA PairedByCalls ==
  ASSUME NEW ms
  PROVE  OpenAiPaired(ms) <=>
           /\ \A i \in 1..Len(ms) : \A n \in 1..Len(CallsOf(ms[i])) :
                i + n <= Len(ms) /\ ms[i + n] = ToolMsg(CallsOf(ms[i])[n])
           /\ \A i \in 1..Len(ms) : ms[i].role = "tool" =>
                \E j \in 1..(i - 1) : /\ i - j <= Len(CallsOf(ms[j]))
                                     /\ ms[i] = ToolMsg(CallsOf(ms[j])[i - j])
  BY DEF OpenAiPaired, CallsOf

LEMMA ConcatAt ==
  ASSUME NEW q \in Seq(OpenAiMessages), NEW r \in Seq(OpenAiMessages)
  PROVE  /\ Len(q \o r) = Len(q) + Len(r)
         /\ \A i \in 1..Len(q) : (q \o r)[i] = q[i]
         /\ \A i \in 1..Len(r) : (q \o r)[Len(q) + i] = r[i]
  <1>1. /\ Len(q \o r) = Len(q) + Len(r) /\ Len(q) \in Nat /\ Len(r) \in Nat
        /\ \A i \in 1..(Len(q) + Len(r)) : (q \o r)[i] = IF i <= Len(q) THEN q[i] ELSE r[i - Len(q)]
    BY ConcatProperties, LenProperties
  <1>2. ASSUME NEW i \in 1..Len(r) PROVE (q \o r)[Len(q) + i] = r[i]
    <2>1. Len(q) + i \in 1..(Len(q) + Len(r)) /\ ~(Len(q) + i <= Len(q)) /\ Len(q) + i - Len(q) = i
      BY <1>1
    <2> QED BY <1>1, <2>1
  <1> QED BY <1>1, <1>2

LEMMA BlockPairs ==
  ASSUME NEW b \in Seq(OpenAiMessages), OpenAiPaired(b), NEW cs \in Seq(Nat)
  PROVE  OpenAiPaired(b \o Block(cs))
  <1> DEFINE d == Block(cs)
             c == b \o d
             B == Len(b)
             L == Len(cs)
  <1>1. d \in Seq(OpenAiMessages) /\ Len(d) = L + 1 /\ L \in Nat /\ B \in Nat
    BY BlockTyped
  <1>2. d[1] = WithCalls(cs) /\ \A i \in 1..L : d[i + 1] = ToolMsg(cs[i])
    BY BlockTyped
  <1> HIDE DEF d
  <1>3. /\ Len(c) = B + L + 1
        /\ \A i \in 1..B : c[i] = b[i]
        /\ \A i \in 1..(L + 1) : c[B + i] = d[i]
    <2>1. /\ Len(c) = B + Len(d) /\ \A i \in 1..B : c[i] = b[i]
          /\ \A i \in 1..Len(d) : c[B + i] = d[i]
      <3>1. b \in Seq(OpenAiMessages) /\ d \in Seq(OpenAiMessages)
        BY <1>1
      <3>2. /\ Len(b \o d) = Len(b) + Len(d) /\ \A i \in 1..Len(b) : (b \o d)[i] = b[i]
            /\ \A i \in 1..Len(d) : (b \o d)[Len(b) + i] = d[i]
        BY <3>1, ConcatAt
      <3> QED BY <3>2
    <2> QED BY <1>1, <2>1
  <1> HIDE DEF c
  <1>4. \A i \in 1..B : i \in 1..Len(c) /\ c[i] = b[i]
    BY <1>1, <1>3
  <1>5. B + 1 \in 1..Len(c) /\ c[B + 1] = WithCalls(cs)
    <2>1. 1 \in 1..(L + 1)
      BY <1>1
    <2> QED BY <1>1, <1>2, <1>3, <2>1
  <1>6. ASSUME NEW i \in 1..L PROVE B + 1 + i \in 1..Len(c) /\ c[B + 1 + i] = ToolMsg(cs[i])
    <2>1. i + 1 \in 1..(L + 1) /\ B + (i + 1) = B + 1 + i
      BY <1>1
    <2>2. c[B + 1 + i] = d[i + 1]
      BY <1>3, <2>1
    <2>3. B + 1 + i \in 1..Len(c)
      BY <1>1, <1>3
    <2> QED BY <1>2, <2>2, <2>3
  <1>7. \A i \in 1..Len(c) : i \in 1..B \/ i = B + 1 \/ i - B - 1 \in 1..L
    BY <1>1, <1>3
  <1>8. CallsOf(c[B + 1]) = cs
    BY <1>5 DEF CallsOf, WithCalls
  <1>9. ASSUME NEW i \in 1..L PROVE CallsOf(c[B + 1 + i]) = <<>>
    <2>1. \A id : CallsOf(ToolMsg(id)) = <<>>
      BY DEF CallsOf, ToolMsg
    <2> QED BY <1>6, <2>1
  <1>10. \A i \in 1..B : \A n \in 1..Len(CallsOf(b[i])) :
             i + n <= B /\ b[i + n] = ToolMsg(CallsOf(b[i])[n])
    BY PairedByCalls
  <1>11. \A i \in 1..B : b[i].role = "tool" =>
             \E j \in 1..(i - 1) : i - j <= Len(CallsOf(b[j])) /\ b[i] = ToolMsg(CallsOf(b[j])[i - j])
    BY PairedByCalls
  <1>12. ASSUME NEW i \in 1..Len(c), NEW n \in 1..Len(CallsOf(c[i]))
         PROVE  i + n <= Len(c) /\ c[i + n] = ToolMsg(CallsOf(c[i])[n])
    <2>1. CASE i \in 1..B
      <3>1. n \in 1..Len(CallsOf(b[i])) /\ c[i] = b[i]
        BY <1>4, <2>1
      <3>2. i + n <= B /\ b[i + n] = ToolMsg(CallsOf(b[i])[n])
        BY <1>10, <2>1, <3>1
      <3>3. n \in Nat \ {0} \/ n \in Int
        OBVIOUS
      <3>4. i + n \in 1..B
        BY <1>1, <2>1, <3>2, <3>3
      <3> QED BY <1>1, <1>3, <1>4, <3>1, <3>2, <3>4
    <2>2. CASE i = B + 1
      <3>1. n \in 1..L
        BY <1>8, <2>2
      <3>2. B + 1 + n \in 1..Len(c) /\ c[B + 1 + n] = ToolMsg(cs[n])
        BY <1>6, <3>1
      <3> QED BY <1>1, <1>3, <1>8, <2>2, <3>2
    <2>3. CASE i - B - 1 \in 1..L
      <3>1. i = B + 1 + (i - B - 1)
        BY <1>1
      <3>2. CallsOf(c[i]) = <<>>
        BY <1>9, <2>3, <3>1
      <3> QED BY <3>2
    <2> QED BY <1>7, <2>1, <2>2, <2>3
  <1>13. ASSUME NEW i \in 1..Len(c), c[i].role = "tool"
         PROVE  \E j \in 1..(i - 1) : i - j <= Len(CallsOf(c[j])) /\ c[i] = ToolMsg(CallsOf(c[j])[i - j])
    <2>1. CASE i \in 1..B
      <3>1. PICK j \in 1..(i - 1) : i - j <= Len(CallsOf(b[j])) /\ b[i] = ToolMsg(CallsOf(b[j])[i - j])
        BY <1>4, <1>11, <1>13, <2>1
      <3>2. j \in 1..B
        BY <1>1, <2>1
      <3>3. c[j] = b[j] /\ c[i] = b[i]
        BY <1>4, <2>1, <3>2
      <3> QED BY <3>1, <3>3
    <2>2. CASE i = B + 1
      BY <1>5, <1>13, <2>2 DEF WithCalls
    <2>3. CASE i - B - 1 \in 1..L
      <3>1. i = B + 1 + (i - B - 1) /\ B + 1 \in 1..(i - 1) /\ i - (B + 1) \in 1..L
        BY <1>1, <2>3
      <3>2. c[i] = ToolMsg(cs[i - (B + 1)])
        BY <1>1, <1>6, <2>3, <3>1
      <3>3. i - (B + 1) <= Len(CallsOf(c[B + 1]))
        BY <1>8, <3>1
      <3> QED BY <1>8, <3>1, <3>2, <3>3
    <2> QED BY <1>7, <2>1, <2>2, <2>3
  <1> QED BY <1>12, <1>13, PairedByCalls DEF c, d

LEMMA ConvertKinds ==
  /\ Convert(UserText) = <<Plain("user")>>
  /\ \A t, cs : Convert(Assistant(t, cs)) = <<WithCalls(cs)>>
  /\ \A cs \in Seq(Nat) : Convert(Results(cs)) = Tools(cs)
  <1>1. Convert(UserText) = [i \in 1..0 |-> ToolMsg(<<>>[i])] \o <<Plain("user")>>
    BY DEF Convert, UserText
  <1>2. [i \in 1..0 |-> ToolMsg(<<>>[i])] = <<>>
    OBVIOUS
  <1>3. <<>> \o <<Plain("user")>> = <<Plain("user")>>
    OBVIOUS
  <1>4. ASSUME NEW t, NEW cs PROVE Convert(Assistant(t, cs)) = <<WithCalls(cs)>>
    BY DEF Convert, Assistant
  <1>5. ASSUME NEW cs \in Seq(Nat) PROVE Convert(Results(cs)) = Tools(cs)
    <2>1. Convert(Results(cs)) = Tools(cs) \o <<>>
      BY DEF Convert, Results, Tools
    <2> QED BY <2>1, ToolsTyped, ConcatEmptySeq
  <1> QED BY <1>1, <1>2, <1>3, <1>4, <1>5

LEMMA NothingToPair == OpenAiPaired(<<System>> \o <<Plain("user")>>)
  <1> DEFINE ms == <<System>> \o <<Plain("user")>>
  <1>1. Len(ms) = 2 /\ ms[1] = System /\ ms[2] = Plain("user")
    OBVIOUS
  <1>2. /\ CallsOf(System) = <<>> /\ CallsOf(Plain("user")) = <<>>
        /\ System.role # "tool" /\ Plain("user").role # "tool"
    BY DEF CallsOf, System, Plain
  <1> HIDE DEF ms
  <1>3. \A i \in 1..Len(ms) : CallsOf(ms[i]) = <<>> /\ ms[i].role # "tool"
    BY <1>1, <1>2
  <1>4. OpenAiPaired(ms)
    BY <1>3, PairedByCalls
  <1> QED BY <1>4 DEF ms

LEMMA ConvertedPairs ==
  ASSUME NEW n \in Nat, NEW ms, Conversation(ms, n)
  PROVE  OpenAiPaired(ConvertMessages(ms))
  <1> DEFINE s == [i \in 1..Len(ms) |-> Convert(ms[i])]
  <1>1. Len(ms) = 2 * n + 1 /\ 2 * n + 1 \in Nat \ {0} /\ ms[1] = UserText
    BY DEF Conversation
  <1>2. Len(s) = 2 * n + 1 /\ \A i \in 1..(2 * n + 1) : s[i] = Convert(ms[i])
    BY <1>1
  <1>3. ConvertMessages(ms) = <<System>> \o FlattenSeq(s)
    BY DEF ConvertMessages
  <1> HIDE DEF s
  <1>4. PICK f : Joined(s, f, 2 * n + 1) /\ FlattenSeq(s) = f[2 * n + 1]
    BY <1>1, <1>2, FlattenedIsJoined
  <1>5. \A i \in 1..(2 * n + 1) : f[i] = IF i = 1 THEN s[i] ELSE f[i - 1] \o s[i]
    BY <1>4 DEF Joined
  <1> DEFINE Pairs(q) == q \in Seq(OpenAiMessages) /\ OpenAiPaired(<<System>> \o q)
             S == {k \in 0..n : Pairs(f[2 * k + 1])}
  <1>6. 0 \in S
    <2>1. 1 \in 1..(2 * n + 1)
      BY <1>1
    <2>2. f[1] = <<Plain("user")>>
      BY <1>1, <1>2, <1>5, <2>1, ConvertKinds
    <2>3. <<Plain("user")>> \in Seq(OpenAiMessages)
      <3>1. Plain("user") \in OpenAiMessages
        BY DEF OpenAiMessages
      <3> QED BY <3>1
    <2>4. Pairs(f[1])
      BY <2>2, <2>3, NothingToPair
    <2>5. 2 * 0 + 1 = 1 /\ 0 \in 0..n
      OBVIOUS
    <2> HIDE DEF Pairs
    <2> QED BY <2>4, <2>5
  <1>7. ASSUME NEW k \in 0..(n - 1), k \in S PROVE k + 1 \in S
    <2>1. PICK t \in BOOLEAN, cs \in Seq(Nat) :
             ms[2 * (k + 1)] = Assistant(t, cs) /\ ms[2 * (k + 1) + 1] = Results(cs)
      <3>1. k + 1 \in 1..n
        OBVIOUS
      <3> QED BY <3>1 DEF Conversation, Round
    <2> DEFINE q == f[2 * k + 1]
    <2>2. q \in Seq(OpenAiMessages) /\ OpenAiPaired(<<System>> \o q)
      BY <1>7
    <2>3. f[2 * k + 2] = q \o <<WithCalls(cs)>>
      <3>1. 2 * k + 2 \in 1..(2 * n + 1) /\ 2 * k + 2 # 1 /\ 2 * k + 2 - 1 = 2 * k + 1
            /\ 2 * k + 2 = 2 * (k + 1)
        OBVIOUS
      <3>2. s[2 * k + 2] = <<WithCalls(cs)>>
        BY <1>2, <2>1, <3>1, ConvertKinds
      <3>3. f[2 * k + 2] = f[2 * k + 1] \o s[2 * k + 2]
        <4> DEFINE i == 2 * k + 2
        <4>1. i \in 1..(2 * n + 1) /\ i # 1 /\ i - 1 = 2 * k + 1
          BY <3>1
        <4> HIDE DEF i
        <4>2. f[i] = f[2 * k + 1] \o s[i]
          BY <1>5, <4>1
        <4> QED BY <4>2 DEF i
      <3> QED BY <3>2, <3>3, Zenon
    <2>4. f[2 * k + 3] = (q \o <<WithCalls(cs)>>) \o Tools(cs)
      <3>1. 2 * k + 3 \in 1..(2 * n + 1) /\ 2 * k + 3 # 1 /\ 2 * k + 3 - 1 = 2 * k + 2
            /\ 2 * k + 3 = 2 * (k + 1) + 1
        OBVIOUS
      <3>2. s[2 * k + 3] = Tools(cs)
        BY <1>2, <2>1, <3>1, ConvertKinds
      <3>3. f[2 * k + 3] = f[2 * k + 2] \o s[2 * k + 3]
        <4> DEFINE i == 2 * k + 3
        <4>1. i \in 1..(2 * n + 1) /\ i # 1 /\ i - 1 = 2 * k + 2
          BY <3>1
        <4> HIDE DEF i
        <4>2. f[i] = f[2 * k + 2] \o s[i]
          BY <1>5, <4>1
        <4> QED BY <4>2 DEF i
      <3> QED BY <2>3, <3>2, <3>3, Zenon
    <2> HIDE DEF q
    <2>5. /\ <<WithCalls(cs)>> \in Seq(OpenAiMessages) /\ Tools(cs) \in Seq(OpenAiMessages)
          /\ <<System>> \in Seq(OpenAiMessages) /\ Block(cs) \in Seq(OpenAiMessages)
      <3>1. WithCalls(cs) \in OpenAiMessages /\ System \in OpenAiMessages
        BY DEF OpenAiMessages
      <3> QED BY <3>1, ToolsTyped, BlockTyped
    <2>6. f[2 * k + 3] = q \o Block(cs)
      BY <2>2, <2>4, <2>5, ConcatAssociative DEF Block
    <2>7. /\ <<System>> \o (q \o Block(cs)) = (<<System>> \o q) \o Block(cs)
          /\ <<System>> \o q \in Seq(OpenAiMessages) /\ q \o Block(cs) \in Seq(OpenAiMessages)
      BY <2>2, <2>5, ConcatAssociative, ConcatProperties
    <2>8. OpenAiPaired((<<System>> \o q) \o Block(cs))
      BY <2>2, <2>7, BlockPairs
    <2>9. Pairs(f[2 * k + 3])
      BY <2>6, <2>7, <2>8
    <2>10. 2 * (k + 1) + 1 = 2 * k + 3 /\ k + 1 \in 0..n
      OBVIOUS
    <2> HIDE DEF Pairs
    <2> QED BY <2>9, <2>10
  <1> HIDE DEF S
  <1>8. n \in S
    BY <1>6, <1>7, UpTo
  <1> QED BY <1>3, <1>4, <1>8 DEF S

LEMMA NextRequest ==
  ASSUME CallTypes, TurnInv, RequestsPairCalls, [Next]_vars
  PROVE  RequestsPairCalls'
  <1>1. CASE UNCHANGED <<request, formats>>
    BY <1>1 DEF RequestsPairCalls
  <1>2. CASE BuildRequest
    <2>1. Conversation(messages, iteration) /\ iteration \in Nat
      BY <1>2, Bounds DEF BuildRequest, TurnInv
    <2>2. formats'.body = Provider
      BY <1>2 DEF BuildRequest, NoFormats
    <2>3. request' = IF Provider = "openai" THEN ConvertMessages(messages) ELSE messages
      BY <1>2 DEF BuildRequest
    <2>4. AnthropicPaired(messages) /\ OpenAiPaired(ConvertMessages(messages))
      BY <2>1, ConversationPairs, ConvertedPairs
    <2> QED BY <2>2, <2>3, <2>4 DEF RequestsPairCalls
  <1>3. CASE Restart
    <2>1. request' = <<>> /\ formats'.body = None /\ None # "openai"
      BY <1>3 DEF Restart, NoFormats, None
    <2> QED BY <2>1 DEF RequestsPairCalls, AnthropicPaired
  <1>4. CASE TakeResponse
    <2>1. request' = request /\ formats'.body = formats.body
      BY <1>4, FormatsKept, ProviderKnown DEF TakeResponse, CallTypes
    <2> QED BY <2>1 DEF RequestsPairCalls
  <1>5. CASE CallStep
    <2>1. request' = request /\ formats'.body = formats.body
      BY <1>5, CallStepFrame, CallStepFormats DEF CallTypes
    <2> QED BY <2>1 DEF RequestsPairCalls
  <1> QED
    BY <1>1, <1>2, <1>3, <1>4, <1>5, StepKinds
    DEF vars, callVars, Begin, Refuse, Fail, Console

----------------------------------------------------------------------------
(* The inductive invariant, and what follows from it. *)

IInv ==
    /\ SettingsInv /\ CallTypes /\ HeldAt /\ AsSet /\ KeptInv /\ TurnInv
    /\ NothingTakenFromBrokenCalls /\ RequestsPairCalls

LEMMA InitInv == Init => IInv
  <1> SUFFICES ASSUME Init PROVE IInv
    OBVIOUS
  <1>1. SettingsInv
    BY SettingsInitInv DEF Init
  <1>2. CallTypes /\ HeldAt /\ AsSet /\ KeptInv
    BY Bounds DEF Init, CallInit, NoFormats, Formats, CallTypes, HeldAt, AsSet, KeptInv
  <1>3. TurnInv
    BY Bounds DEF Init, TurnInv
  <1>4. NothingTakenFromBrokenCalls
    BY DEF Init, NoResponse, NothingTakenFromBrokenCalls
  <1>5. RequestsPairCalls
    <2>1. request = <<>> /\ formats.body = None /\ None # "openai"
      BY DEF Init, CallInit, NoFormats, None
    <2> QED BY <2>1 DEF RequestsPairCalls, AnthropicPaired
  <1> QED BY <1>1, <1>2, <1>3, <1>4, <1>5 DEF IInv

LEMMA NextInv == IInv /\ [Next]_vars => IInv'
  <1> SUFFICES ASSUME IInv, [Next]_vars PROVE IInv'
    OBVIOUS
  <1>1. Command \/ Write \/ LoadSettings \/ UNCHANGED settingsVars
    BY StepKinds, CallStepFrame
    DEF vars, Begin, Refuse, BuildRequest, Fail, TakeResponse, Console, Restart
  <1>2. SettingsInv'
    BY <1>1, SettingsInvStep DEF IInv
  <1> QED
    BY <1>2, NextCallTypes, NextHeldAt, NextAsSet, NextKept, NextTurn, NextTaken, NextRequest DEF IInv

LEMMA InvTypes == IInv => TypeOK
  <1> SUFFICES ASSUME IInv PROVE TypeOK
    OBVIOUS
  <1>1. SettingsTypeOK
    BY DEF IInv, SettingsInv
  <1>2. DOMAIN formats = DOMAIN NoFormats
    BY DEF IInv, CallTypes, Formats, NoFormats
  <1>3. messages \in Seq(Messages) /\ Len(messages) <= 2 * MaxIter + 1
    <2>1. CASE pc = "idle"
      <3>1. messages = <<>>
        BY <2>1 DEF IInv, TurnInv
      <3> QED BY <3>1, EmptySeq, Bounds
    <2>2. CASE pc # "idle"
      <3>1. messages \in Seq(Messages) /\ Len(messages) = 2 * iteration + 1 /\ iteration \in 0..MaxIter
        BY <2>2 DEF IInv, TurnInv, Conversation
      <3> QED BY <3>1, Bounds
    <2> QED BY <2>1, <2>2
  <1> QED BY <1>1, <1>2, <1>3 DEF IInv, TurnInv, CallTypes, TypeOK, Messages

LEMMA InvConsistent == IInv => QuietCallsAreConsistent
  <1> SUFFICES ASSUME IInv PROVE QuietCallsAreConsistent
    OBVIOUS
  <1>1. DOMAIN formats = {"body", "address", "header", "parser"}
    BY DEF IInv, CallTypes, Formats
  <1> QED BY <1>1 DEF IInv, AsSet, QuietCallsAreConsistent

LEMMA Invariance == Spec => []IInv
  <1> QED BY InitInv, NextInv, PTL DEF Spec

(* Every variable has its type in every state: what the agent, the console *)
(* and a reset write is what the others read.                              *)
THEOREM TypeCorrect == Spec => []TypeOK
  BY Invariance, InvTypes, PTL

(* On each way in which llm_http_direct and llm_http_via_proxy can end,    *)
(* the buffers, the address, the socket and the TLS session are given      *)
(* back.                                                                   *)
THEOREM CallsGiveBack == Spec => []NothingLeftOpen
  <1>1. IInv => NothingLeftOpen
    BY DEF IInv, HeldAt, NothingLeftOpen
  <1> QED BY Invariance, <1>1, PTL

(* While no command changes a setting, the four reads of the provider and  *)
(* the two of the proxy in one call agree with each other.                 *)
THEOREM QuietCallsAgree == Spec => []QuietCallsAreConsistent
  BY Invariance, InvConsistent, PTL

(* A call that a command broke in the middle gives the agent neither text  *)
(* nor tool calls, and the proxy's path never gives it a response with a   *)
(* hole.                                                                   *)
THEOREM BrokenCallsGiveNothing == Spec => []NothingTakenFromBrokenCalls
  <1>1. IInv => NothingTakenFromBrokenCalls
    BY DEF IInv
  <1> QED BY Invariance, <1>1, PTL

(* Whichever provider is set when a round begins, the request pairs each   *)
(* tool call with its result: convert_messages_openai keeps the pairing of *)
(* the conversation the agent built.                                       *)
THEOREM CallsArePaired == Spec => []RequestsPairCalls
  <1>1. IInv => RequestsPairCalls
    BY DEF IInv
  <1> QED BY Invariance, <1>1, PTL

(* When no command is at work and config_reset was not given, a reset      *)
(* keeps every setting, but for one that is empty or zero and for a key or *)
(* a host that is too long to be read back.                                *)
THEOREM RestartKeepsSettings == Spec => []RestartIsTransparent
  <1>1. IInv => RestartIsTransparent
    BY TransparentWhenDone DEF IInv
  <1> QED BY Invariance, <1>1, PTL
=============================================================================

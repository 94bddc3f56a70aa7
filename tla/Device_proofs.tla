--------------------------- MODULE Device_proofs ----------------------------
(***************************************************************************)
(* Proofs about what the device is made of beside its conversations: Boot, *)
(* the boot and the Wi-Fi connection, for every number of events and of    *)
(* commands; Panel and its button, for every time of the button and every  *)
(* number and width of lines.                                              *)
(***************************************************************************)
EXTENDS Boot, Panel, SequenceTheorems, TLAPS

----------------------------------------------------------------------------
(* Boot                                                                    *)

EventNames == {"start", "disconnected", "got_ip"}
Stages == {"none", "begin", "paused", "scanning", "aborted", "stop", "restart", "again", "set"}

----------------------------------------------------------------------------
(* The events: those that connect, in a queue that others join and leave.  *)

Connecting(q) == \E i \in 1..Len(q) : q[i] \in {"start", "disconnected"}

LEMMA Posted ==
  ASSUME NEW q \in Seq(EventNames), NEW e \in EventNames
  PROVE  /\ Append(q, e) \in Seq(EventNames) /\ Len(Append(q, e)) = Len(q) + 1
         /\ Connecting(q) \/ e # "got_ip" => Connecting(Append(q, e))
  <1> DEFINE p == Append(q, e)
  <1>1. /\ p \in Seq(EventNames) /\ Len(p) = Len(q) + 1 /\ Len(q) \in Nat
        /\ \A i \in 1..Len(q) : p[i] = q[i]
        /\ p[Len(q) + 1] = e
    BY AppendProperties, LenProperties
  <1> HIDE DEF p
  <1>2. \A i \in 1..Len(q) : i \in 1..Len(p)
    BY <1>1
  <1>3. Len(q) + 1 \in 1..Len(p)
    BY <1>1
  <1>4. e # "got_ip" => e \in {"start", "disconnected"}
    BY DEF EventNames
  <1>5. Connecting(q) \/ e # "got_ip" => Connecting(p)
    BY <1>1, <1>2, <1>3, <1>4 DEF Connecting
  <1> QED BY <1>1, <1>5 DEF p

LEMMA TakenOut ==
  ASSUME NEW q \in Seq(EventNames), q # <<>>
  PROVE  /\ Tail(q) \in Seq(EventNames) /\ Len(Tail(q)) = Len(q) - 1 /\ Len(q) \in Nat \ {0}
         /\ Head(q) \in EventNames
         /\ Connecting(q) /\ Head(q) = "got_ip" => Connecting(Tail(q))
  <1> DEFINE t == Tail(q)
  <1>1. /\ t \in Seq(EventNames) /\ Len(t) = Len(q) - 1 /\ Len(q) \in Nat \ {0}
        /\ Head(q) = q[1] /\ Head(q) \in EventNames
        /\ \A i \in 1..Len(t) : t[i] = q[i + 1]
    BY HeadTailProperties, EmptySeq
  <1> HIDE DEF t
  <1>2. ASSUME NEW i \in 1..Len(q), q[i] \in {"start", "disconnected"}, q[1] = "got_ip"
        PROVE  i - 1 \in 1..Len(t) /\ t[i - 1] = q[i]
    <2>1. i # 1 /\ i \in Nat
      BY <1>2
    <2> DEFINE k == i - 1
    <2>2. k \in 1..Len(t) /\ k + 1 = i
      BY <1>1, <2>1
    <2> HIDE DEF k
    <2>3. t[k] = q[i]
      BY <1>1, <2>2
    <2> QED BY <2>2, <2>3 DEF k
  <1>3. Connecting(q) /\ Head(q) = "got_ip" => Connecting(t)
    BY <1>1, <1>2 DEF Connecting
  <1> QED BY <1>1, <1>3 DEF t

----------------------------------------------------------------------------
(* Types *)

LEMMA Steps ==
  [BootNext]_bootVars <=>
      \/ ApChanges \/ Associates \/ GetsIp \/ Drops \/ Handle \/ ConsoleCommand \/ StatusSets
      \/ NoCredentials \/ StartWifi \/ BootEnds
      \/ \E t \in Tasks : \/ ScanPauses(t) \/ ScanStarts(t) \/ ScanStops(t)
                          \/ ScanRestarts(t) \/ ScanEnds(t)
      \/ UNCHANGED bootVars
  BY DEF BootNext, Driver, Console, Main, Scan, Tasks

Drivers == {"off", "idle", "connecting", "linked", "online"}
Events  == {q \in Seq(EventNames) : Len(q) <= MaxEvents}
Stations == driver \in Drivers /\ events \in Events /\ pc \in [Tasks -> Stages]

(* What the parts of a step make of the station. *)
LEMMA Posts ==
  ASSUME NEW e \in EventNames, events \in Events, Post(e)
  PROVE  events' \in Events /\ (Connecting(events) \/ e # "got_ip" => Connecting(events'))
  BY Posted, BootAssumption, LenProperties DEF Post, Events

LEMMA Moves ==
  ASSUME pc \in [Tasks -> Stages], NEW t \in Tasks, NEW from, NEW to \in Stages, At(t, from, to)
  PROVE  /\ pc' \in [Tasks -> Stages] /\ pc[t] = from /\ pc'[t] = to
         /\ \A u \in Tasks : u # t => pc'[u] = pc[u]
  BY DEF At

LEMMA Connects ==
  ASSUME NEW d \in Drivers, NEW p \in [Tasks -> Stages], ConnectFrom(d, p)
  PROVE  /\ driver' \in Drivers \ {"idle"} /\ (driver' = "off" => d = "off")
         /\ pc' \in [Tasks -> Stages]
         /\ \A u \in Tasks : p[u] # "scanning" => pc'[u] = p[u]
  BY DEF ConnectFrom, Drivers, Stages

LEMMA Leaves ==
  ASSUME NEW d \in Drivers, events \in Events, Leave(d)
  PROVE  driver' = d /\ events' \in Events /\ (Connecting(events) => Connecting(events'))
  <1>1. driver' = d /\ (Post("disconnected") \/ events' = events)
    BY DEF Leave
  <1>2. "disconnected" \in EventNames
    BY DEF EventNames
  <1> QED BY <1>1, <1>2, Posts

LEMMA Handles ==
  ASSUME Stations, Handle
  PROVE  /\ events' \in Events
         /\ \/ /\ driver' \in Drivers \ {"idle"} /\ (driver' = "off" => driver = "off")
               /\ pc' \in [Tasks -> Stages]
               /\ \A u \in Tasks : pc[u] # "scanning" => pc'[u] = pc[u]
            \/ UNCHANGED <<driver, pc>> /\ (Connecting(events) => Connecting(events'))
         /\ UNCHANGED <<world, boot, commands, ranOut>>
  <1>1. /\ events # <<>> /\ events' = Tail(events)
        /\ \/ Head(events) = "start" /\ Reconnect
           \/ Head(events) = "disconnected" /\ Reconnect
           \/ Head(events) = "got_ip" /\ UNCHANGED <<driver, pc>>
        /\ UNCHANGED <<world, boot, commands, ranOut>>
    <2>1. events # <<>> /\ events \in Seq(EventNames)
      BY DEF Stations, Events, Handle
    <2>2. Head(events) \in {"start", "disconnected", "got_ip"}
      BY <2>1, TakenOut DEF EventNames
    <2>3. CASE Head(events) = "start"
      BY <2>3 DEF Handle
    <2>4. CASE Head(events) = "disconnected"
      BY <2>4 DEF Handle
    <2>5. CASE Head(events) = "got_ip"
      BY <2>5 DEF Handle
    <2> QED BY <2>2, <2>3, <2>4, <2>5
  <1>2. /\ events' \in Events
        /\ Head(events) = "got_ip" /\ Connecting(events) => Connecting(events')
    BY <1>1, TakenOut, BootAssumption DEF Stations, Events
  <1>3. Reconnect => /\ driver' \in Drivers \ {"idle"} /\ (driver' = "off" => driver = "off")
                     /\ pc' \in [Tasks -> Stages]
                     /\ \A u \in Tasks : pc[u] # "scanning" => pc'[u] = pc[u]
    BY Connects DEF Reconnect, Stations
  <1> QED BY <1>1, <1>2, <1>3

(* What a step of a scan by task t makes of the station.                   *)
Elsewhere(t) == \A u \in Tasks : u # t /\ pc[u] # "scanning" => pc'[u] = pc[u]

LEMMA Scans ==
  ASSUME Stations, NEW t \in Tasks
  PROVE  /\ ScanPauses(t) => /\ Stations' /\ Elsewhere(t) /\ (driver' = "off" => driver = "off")
                             /\ pc[t] = "begin" /\ pc'[t] = "paused"
                             /\ UNCHANGED <<world, boot, ranOut>>
         /\ ScanStarts(t) => /\ Stations' /\ Elsewhere(t) /\ UNCHANGED <<driver, events>>
                             /\ pc[t] \in {"paused", "again"}
                             /\ pc'[t] \in {"scanning", "stop", "aborted"}
                             /\ UNCHANGED <<world, boot, ranOut>>
         /\ ScanStops(t) => /\ Stations' /\ pc'[t] = "restart"
                            /\ UNCHANGED <<world, boot, ranOut>>
         /\ ScanRestarts(t) => /\ Stations' /\ driver' # "off" /\ pc'[t] = "again"
                               /\ UNCHANGED <<world, boot, ranOut>>
         /\ ScanEnds(t) => /\ Stations' /\ Elsewhere(t) /\ events' = events
                           /\ (driver' = "off" => driver = "off")
                           /\ pc[t] \in {"scanning", "aborted"}
                           /\ driver' # "idle" \/ ranOut'
                           /\ UNCHANGED <<world, boot>>
  <1> USE DEF Stations
  <1>1. ASSUME ScanPauses(t) PROVE /\ Stations' /\ Elsewhere(t) /\ (driver' = "off" => driver = "off")
                                   /\ pc[t] = "begin" /\ pc'[t] = "paused"
                                   /\ UNCHANGED <<world, boot, ranOut>>
    <2>1. /\ At(t, "begin", "paused") /\ UNCHANGED <<world, boot, ranOut>>
          /\ Leave("idle") \/ (driver = "off" /\ Leave("off"))
      BY <1>1 DEF ScanPauses
    <2>2. driver' \in Drivers /\ events' \in Events /\ (driver' = "off" => driver = "off")
      BY <2>1, Leaves DEF Drivers
    <2>3. /\ pc' \in [Tasks -> Stages] /\ pc[t] = "begin" /\ pc'[t] = "paused"
          /\ \A u \in Tasks : u # t => pc'[u] = pc[u]
      BY <2>1, Moves DEF Stages
    <2> QED BY <2>1, <2>2, <2>3 DEF Elsewhere
  <1>2. ASSUME ScanStarts(t) PROVE /\ Stations' /\ Elsewhere(t) /\ UNCHANGED <<driver, events>>
                                   /\ pc[t] \in {"paused", "again"}
                                   /\ pc'[t] \in {"scanning", "stop", "aborted"}
                                   /\ UNCHANGED <<world, boot, ranOut>>
    <2>1. /\ UNCHANGED <<world, driver, events, boot, ranOut>>
          /\ \E from \in {"paused", "again"}, to \in {"scanning", "stop", "aborted"} : At(t, from, to)
      BY <1>2 DEF ScanStarts
    <2>2. PICK from \in {"paused", "again"}, to \in {"scanning", "stop", "aborted"} : At(t, from, to)
      BY <2>1
    <2>3. to \in Stages
      BY DEF Stages
    <2>4. /\ pc' \in [Tasks -> Stages] /\ pc[t] = from /\ pc'[t] = to
          /\ \A u \in Tasks : u # t => pc'[u] = pc[u]
      BY <2>2, <2>3, Moves
    <2> QED BY <2>1, <2>4 DEF Elsewhere
  <1>3. ASSUME ScanStops(t) PROVE /\ Stations' /\ pc'[t] = "restart"
                                  /\ UNCHANGED <<world, boot, ranOut>>
    <2>1. driver' \in Drivers /\ events' \in Events
      BY <1>3, Leaves DEF ScanStops, Drivers
    <2>2. pc' \in [Tasks -> Stages] /\ pc'[t] = "restart"
      BY <1>3 DEF ScanStops, Stages
    <2> QED BY <1>3, <2>1, <2>2 DEF ScanStops
  <1>4. ASSUME ScanRestarts(t) PROVE /\ Stations' /\ driver' # "off" /\ pc'[t] = "again"
                                     /\ UNCHANGED <<world, boot, ranOut>>
    <2>1. pc' \in [Tasks -> Stages] /\ pc'[t] = "again"
      BY <1>4, Moves DEF ScanRestarts, Stages
    <2>2. \/ driver' = "idle" /\ Post("start")
          \/ driver # "off" /\ UNCHANGED <<driver, events>>
      BY <1>4 DEF ScanRestarts
    <2>3. driver' \in Drivers \ {"off"} /\ events' \in Events
      BY <2>2, Posts DEF Drivers, EventNames
    <2> QED BY <1>4, <2>1, <2>3 DEF ScanRestarts
  <1>5. ASSUME ScanEnds(t) PROVE /\ Stations' /\ Elsewhere(t) /\ events' = events
                                 /\ (driver' = "off" => driver = "off")
                                 /\ pc[t] \in {"scanning", "aborted"}
                                 /\ driver' # "idle" \/ ranOut'
                                 /\ UNCHANGED <<world, boot>>
    <2> DEFINE p == [pc EXCEPT ![t] = "none"]
    <2>1. p \in [Tasks -> Stages] /\ \A u \in Tasks : u # t => p[u] = pc[u]
      BY DEF Stages
    <2>2. /\ UNCHANGED <<world, events, boot>>
          /\ \/ pc[t] \in {"scanning", "aborted"} /\ ConnectFrom(driver, p)
             \/ At(t, "scanning", "none") /\ UNCHANGED driver /\ ranOut' = TRUE
      BY <1>5 DEF ScanEnds
    <2> HIDE DEF p
    <2>3. CASE pc[t] \in {"scanning", "aborted"} /\ ConnectFrom(driver, p)
      BY <2>1, <2>2, <2>3, Connects DEF Elsewhere
    <2>4. CASE At(t, "scanning", "none") /\ UNCHANGED driver /\ ranOut' = TRUE
      <3>1. "none" \in Stages
        BY DEF Stages
      <3> QED BY <2>2, <2>4, <3>1, Moves DEF Elsewhere
    <2> QED BY <2>2, <2>3, <2>4
  <1> QED BY <1>1, <1>2, <1>3, <1>4, <1>5

----------------------------------------------------------------------------
(* The inductive invariant: a station that a scan stopped is started again *)
(* by it, and an idle one is connected by an event or by a scan to come.   *)

Booted == boot \notin {"start", "no_wifi"}
Busy   == \E t \in Tasks : pc[t] \notin {"none", "set"}

OffInv  == Booted /\ driver = "off" => \E t \in Tasks : pc[t] = "restart"
IdleInv == Booted /\ driver = "idle" /\ ~ranOut => Connecting(events) \/ Busy

BootTypes == /\ device \in {"mimi", "atom"} /\ {ap, connected, bit, ranOut} \subseteq BOOLEAN
             /\ boot \in {"start", "waiting", "no_wifi", "no_services", "services", "half"}

BootInv == BootTypes /\ Stations /\ OffInv /\ IdleInv

LEMMA NextBootTypes ==
  ASSUME BootTypes, Stations, [BootNext]_bootVars
  PROVE  BootTypes'
  <1> USE DEF BootTypes
  <1>1. CASE ApChanges
    BY <1>1 DEF ApChanges
  <1>2. CASE Associates \/ GetsIp \/ Drops
    BY <1>2 DEF Associates, GetsIp, Drops, world
  <1>3. CASE Handle
    <2>1. Head(events) \in {"start", "disconnected", "got_ip"} /\ events # <<>>
      BY <1>3, TakenOut DEF Handle, Stations, Events, EventNames
    <2>2. /\ UNCHANGED <<world, boot, ranOut>>
          /\ connected' \in {connected, connected /\ device = "atom", connected \/ device = "mimi"}
          /\ bit' \in {bit, TRUE}
      <3>1. CASE Head(events) = "start"
        BY <1>3, <3>1 DEF Handle
      <3>2. CASE Head(events) = "disconnected"
        BY <1>3, <3>2 DEF Handle
      <3>3. CASE Head(events) = "got_ip"
        BY <1>3, <3>3 DEF Handle
      <3> QED BY <2>1, <3>1, <3>2, <3>3
    <2>3. connected' \in BOOLEAN /\ bit' \in BOOLEAN
      BY <2>2
    <2> QED BY <2>2, <2>3 DEF world
  <1>4. CASE ConsoleCommand \/ StatusSets
    BY <1>4 DEF ConsoleCommand, StatusSets, world
  <1>5. CASE NoCredentials \/ StartWifi \/ BootEnds
    BY <1>5 DEF NoCredentials, StartWifi, BootEnds, world
  <1>6. ASSUME NEW t \in Tasks, ScanPauses(t) \/ ScanStarts(t) \/ ScanStops(t) \/ ScanRestarts(t) \/ ScanEnds(t)
        PROVE  BootTypes'
    <2>1. UNCHANGED <<world, connected, bit, boot>> /\ (ranOut' = ranOut \/ ranOut' = TRUE)
      BY <1>6 DEF ScanPauses, ScanStarts, ScanStops, ScanRestarts, ScanEnds
    <2> QED BY <2>1 DEF world
  <1>7. CASE UNCHANGED bootVars
    BY <1>7 DEF bootVars, world
  <1> QED BY <1>1, <1>2, <1>3, <1>4, <1>5, <1>6, <1>7, Steps

(* The steps that are no scan's. *)
LEMMA OtherSteps ==
  ASSUME Stations
  PROVE  /\ ApChanges \/ NoCredentials \/ BootEnds \/ UNCHANGED bootVars =>
                UNCHANGED <<driver, events, pc, ranOut>>
         /\ Associates \/ GetsIp => Stations' /\ driver' \notin {"off", "idle"}
         /\ Drops => /\ Stations' /\ Connecting(events') /\ driver' = "idle"
         /\ StartWifi => /\ Stations' /\ Connecting(events') /\ driver' = "idle"
         /\ ConsoleCommand \/ StatusSets =>
                /\ Stations' /\ UNCHANGED <<driver, events, boot, ranOut>>
                /\ \A t \in Tasks : pc[t] \notin {"none", "set"} => pc'[t] = pc[t]
  <1> USE DEF Stations
  <1>1. ApChanges \/ NoCredentials \/ BootEnds \/ UNCHANGED bootVars => UNCHANGED <<driver, events, pc, ranOut>>
    BY DEF ApChanges, NoCredentials, BootEnds, bootVars
  <1>2. Associates \/ GetsIp => Stations' /\ driver' \notin {"off", "idle"}
    BY Posts DEF Associates, GetsIp, Drivers, EventNames
  <1>3. Drops => Stations' /\ Connecting(events') /\ driver' = "idle"
    BY Posts DEF Drops, Drivers, EventNames
  <1>4. StartWifi => Stations' /\ Connecting(events') /\ driver' = "idle"
    <2>1. StartWifi => pc' \in [Tasks -> Stages]
      BY DEF StartWifi, Stages
    <2> QED BY <2>1, Posts DEF StartWifi, Drivers, EventNames
  <1>5. ASSUME ConsoleCommand \/ StatusSets
        PROVE  /\ Stations' /\ UNCHANGED <<driver, events, boot, ranOut>>
               /\ \A t \in Tasks : pc[t] \notin {"none", "set"} => pc'[t] = pc[t]
    <2>1. /\ UNCHANGED <<driver, events, boot, ranOut>>
          /\ \/ At("console", "none", "begin") \/ At("console", "none", "set")
             \/ At("console", "set", "none")
      BY <1>5 DEF ConsoleCommand, StatusSets
    <2>2. "console" \in Tasks /\ {"none", "begin", "set"} \subseteq Stages
      BY DEF Tasks, Stages
    <2>3. /\ pc' \in [Tasks -> Stages] /\ pc["console"] \in {"none", "set"}
          /\ \A t \in Tasks : t # "console" => pc'[t] = pc[t]
      BY <2>1, <2>2, Moves
    <2> QED BY <2>1, <2>3
  <1> QED BY <1>1, <1>2, <1>3, <1>4, <1>5

LEMMA NextStations ==
  ASSUME Stations, [BootNext]_bootVars
  PROVE  Stations'
  <1>1. CASE ApChanges \/ NoCredentials \/ BootEnds \/ UNCHANGED bootVars
    BY <1>1, OtherSteps DEF Stations
  <1>2. CASE Handle
    BY <1>2, Handles DEF Stations
  <1>3. CASE \E t \in Tasks : ScanPauses(t) \/ ScanStarts(t) \/ ScanStops(t) \/ ScanRestarts(t) \/ ScanEnds(t)
    BY <1>3, Scans
  <1> QED BY <1>1, <1>2, <1>3, OtherSteps, Steps

(* The boot leaves its first stage once, with Wi-Fi or without it.         *)
LEMMA BootedBefore ==
  ASSUME [BootNext]_bootVars, Booted'
  PROVE  Booted \/ StartWifi
  <1>1. CASE ApChanges \/ Associates \/ GetsIp \/ Drops \/ Handle \/ ConsoleCommand \/ StatusSets
    BY <1>1 DEF ApChanges, Associates, GetsIp, Drops, Handle, ConsoleCommand, StatusSets, Booted
  <1>2. CASE NoCredentials \/ BootEnds
    BY <1>2 DEF NoCredentials, BootEnds, Booted
  <1>3. CASE \E t \in Tasks : ScanPauses(t) \/ ScanStarts(t) \/ ScanStops(t) \/ ScanRestarts(t) \/ ScanEnds(t)
    BY <1>3 DEF ScanPauses, ScanStarts, ScanStops, ScanRestarts, ScanEnds, Booted
  <1>4. CASE UNCHANGED bootVars
    BY <1>4 DEF bootVars, Booted
  <1> QED BY <1>1, <1>2, <1>3, <1>4, Steps

LEMMA NextOff ==
  ASSUME Stations, OffInv, [BootNext]_bootVars
  PROVE  OffInv'
  <1> SUFFICES ASSUME Booted', driver' = "off" PROVE \E t \in Tasks : pc'[t] = "restart"
    BY DEF OffInv
  <1>1. CASE StartWifi
    BY <1>1, OtherSteps
  <1>2. CASE ~StartWifi /\ driver = "off"
    <2>1. PICK t \in Tasks : pc[t] = "restart"
      BY <1>2, BootedBefore DEF OffInv
    <2>2. CASE Handle
      BY <2>1, <2>2, Handles
    <2>3. ASSUME NEW u \in Tasks, ScanPauses(u) \/ ScanStarts(u) \/ ScanStops(u) \/ ScanRestarts(u) \/ ScanEnds(u)
          PROVE  \E v \in Tasks : pc'[v] = "restart"
      <3>1. CASE ScanStops(u)
        BY <3>1, Scans
      <3>2. CASE ScanRestarts(u)
        BY <3>2, Scans
      <3>3. CASE ScanPauses(u) \/ ScanStarts(u) \/ ScanEnds(u)
        <4>1. Elsewhere(u) /\ pc[u] \in {"begin", "paused", "again", "scanning", "aborted"}
          BY <3>3, Scans
        <4> QED BY <2>1, <4>1 DEF Elsewhere
      <3> QED BY <2>3, <3>1, <3>2, <3>3
    <2>4. CASE Associates \/ GetsIp \/ Drops \/ ConsoleCommand \/ StatusSets
      BY <2>1, <2>4, OtherSteps
    <2>5. CASE ApChanges \/ NoCredentials \/ BootEnds \/ UNCHANGED bootVars
      BY <2>1, <2>5, OtherSteps
    <2> QED BY <1>2, <2>2, <2>3, <2>4, <2>5, Steps
  <1>3. CASE ~StartWifi /\ driver # "off"
    <2>1. \E t \in Tasks : ScanStops(t)
      BY <1>3, OtherSteps, Handles, Scans, Steps
    <2> QED BY <2>1, Scans
  <1> QED BY <1>1, <1>2, <1>3

LEMMA NextIdle ==
  ASSUME Stations, OffInv, IdleInv, [BootNext]_bootVars
  PROVE  IdleInv'
  <1> SUFFICES ASSUME Booted', driver' = "idle", ~ranOut'
               PROVE  Connecting(events') \/ \E t \in Tasks : pc'[t] \notin {"none", "set"}
    BY DEF IdleInv, Busy
  <1>1. CASE StartWifi \/ Drops
    BY <1>1, OtherSteps
  <1>2. CASE Handle
    <2>1. UNCHANGED <<driver, pc, ranOut>> /\ (Connecting(events) => Connecting(events'))
      BY <1>2, Handles
    <2>2. Booted
      BY <1>2, BootedBefore DEF Handle, StartWifi, Booted
    <2> QED BY <2>1, <2>2 DEF IdleInv, Busy
  <1>3. ASSUME NEW t \in Tasks, ScanPauses(t) \/ ScanStarts(t) \/ ScanStops(t) \/ ScanRestarts(t) \/ ScanEnds(t)
        PROVE  \E u \in Tasks : pc'[u] \notin {"none", "set"}
    BY <1>3, Scans
  <1>4. CASE ConsoleCommand \/ StatusSets
    <2>1. /\ UNCHANGED <<driver, events, boot, ranOut>>
          /\ \A t \in Tasks : pc[t] \notin {"none", "set"} => pc'[t] = pc[t]
      BY <1>4, OtherSteps
    <2> QED BY <2>1 DEF IdleInv, Busy, Booted
  <1>5. CASE ApChanges \/ BootEnds \/ NoCredentials \/ UNCHANGED bootVars
    <2>1. UNCHANGED <<driver, events, pc, ranOut>>
      BY <1>5, OtherSteps
    <2>2. Booted
      BY <1>5 DEF ApChanges, BootEnds, NoCredentials, bootVars, Booted
    <2> QED BY <2>1, <2>2 DEF IdleInv, Busy
  <1>6. CASE Associates \/ GetsIp
    BY <1>6, OtherSteps
  <1> QED BY <1>1, <1>2, <1>3, <1>4, <1>5, <1>6, Steps

----------------------------------------------------------------------------
LEMMA InitBoot == BootInit => BootInv
  <1> SUFFICES ASSUME BootInit PROVE BootInv
    OBVIOUS
  <1>1. BootTypes
    BY DEF BootInit, BootTypes
  <1>2. events \in Events
    BY BootAssumption, EmptySeq DEF BootInit, Events
  <1>3. Stations
    BY <1>2 DEF BootInit, Stations, Drivers, Stages
  <1> QED BY <1>1, <1>3 DEF BootInv, OffInv, IdleInv, Booted, BootInit

LEMMA NextBoot == BootInv /\ [BootNext]_bootVars => BootInv'
  BY NextBootTypes, NextStations, NextOff, NextIdle DEF BootInv

LEMMA BootInvariant == BootSpec => []BootInv
  BY InitBoot, NextBoot, PTL DEF BootSpec

(* Every variable of the boot, the station and the scans has its type, and *)
(* the events fit their queue.                                             *)
THEOREM BootTypeCorrect == BootSpec => []TypeOK
  <1>1. BootInv => TypeOK
    BY DEF BootInv, BootTypes, Stations, Drivers, Stages, Events, EventNames, TypeOK
  <1> QED BY <1>1, BootInvariant, PTL

(* wifi_manager_scan_and_print disconnects and even stops the station, in  *)
(* two tasks at a time and while the event task connects it again; still   *)
(* only a scan that ends for want of memory, which does not connect, can   *)
(* leave a booted station with nothing to come that will connect it.       *)
THEOREM ScansLeaveAWayBack == BootSpec => []OnlyNoMemoryStrands
  <1>1. ASSUME BootInv PROVE OnlyNoMemoryStrands
    <2> SUFFICES ASSUME Booted, driver \in {"off", "idle"}, ~ranOut
                 PROVE  Connecting(events) \/ Busy
      BY DEF OnlyNoMemoryStrands, Connecting, Busy, Booted
    <2>1. CASE driver = "off"
      BY <1>1, <2>1 DEF BootInv, OffInv, Busy
    <2>2. CASE driver = "idle"
      BY <1>1, <2>2 DEF BootInv, IdleInv
    <2> QED BY <2>1, <2>2
  <1> QED BY <1>1, BootInvariant, PTL
----------------------------------------------------------------------------
(* The button: what its state, its ticks and its count say of how long the *)
(* level has lasted and of the presses of the burst.                       *)

Levels == /\ pressed \in BOOLEAN /\ state \in {0, 1, 2, 3, 5}
          /\ pressed <=> state \in {1, 3, 5}
Counts == /\ since \in 0..LONG_TICKS + 2 /\ ticks \in Nat /\ repeat \in Nat /\ presses \in 0..3
          /\ debounce_cnt \in 0..DEBOUNCE_TICKS - 1

Released  == state = 0 => presses = 0 \/ since > SHORT_TICKS
Counting  == state \in {1, 2, 3} => /\ ticks = since /\ repeat >= 1
                                    /\ presses = IF repeat < 3 THEN repeat ELSE 3
FirstDown == state = 1 => since <= LONG_TICKS /\ (presses > 1 => since > SHORT_TICKS)
Short     == /\ state \in {2, 3} => since <= SHORT_TICKS
             /\ state = 3 => repeat >= 2
Long      == state = 5 => since > LONG_TICKS

ButtonInv == /\ Levels /\ Counts /\ Released /\ Counting /\ FirstDown /\ Short /\ Long
             /\ ClicksMatchPresses

LEMMA Times ==
  /\ DEBOUNCE_TICKS \in Nat /\ DEBOUNCE_TICKS > 0 /\ SHORT_TICKS \in Nat /\ SHORT_TICKS > 0
  /\ LONG_TICKS \in Nat /\ SHORT_TICKS + 1 < LONG_TICKS
  /\ PRESS_REPEAT_MAX_NUM \in Nat /\ PRESS_REPEAT_MAX_NUM > 2
  BY ButtonAssumption

LEMMA Debounced ==
  ASSUME ButtonInv, NEW down \in BOOLEAN, Debounce(down)
  PROVE  pressed' \in BOOLEAN /\ debounce_cnt' \in 0..DEBOUNCE_TICKS - 1
  BY Times DEF Debounce, ButtonInv, Levels, Counts

(* How a tick changes the two histories. *)
LEMMA Since ==
  ASSUME ButtonInv, NEW down, ButtonTick(down)
  PROVE  /\ since' \in 0..LONG_TICKS + 2
         /\ pressed' # pressed => since' = 0
         /\ pressed' = pressed => \/ since' = since + 1 /\ since <= LONG_TICKS + 1
                                  \/ since' = since /\ since = LONG_TICKS + 2
         /\ presses' \in 0..3
         /\ pressed' = pressed => presses' = presses
         /\ pressed' # pressed /\ BurstEnds => presses' = IF pressed' THEN 1 ELSE 0
         /\ pressed' # pressed /\ ~BurstEnds =>
                presses' = IF pressed' /\ presses < 3 THEN presses + 1 ELSE presses
  <1>1. since \in 0..LONG_TICKS + 2 /\ presses \in 0..3
    BY DEF ButtonInv, Counts
  <1>2. since' = IF pressed' # pressed THEN 0
                 ELSE IF since > LONG_TICKS + 1 THEN since ELSE since + 1
    BY DEF ButtonTick
  <1>3. /\ pressed' = pressed => presses' = presses
        /\ pressed' # pressed /\ BurstEnds => presses' = IF pressed' THEN 1 ELSE 0
        /\ pressed' # pressed /\ ~BurstEnds =>
                presses' = IF pressed' /\ presses < 3 THEN presses + 1 ELSE presses
    <2>1. CASE pressed' = pressed
      BY <2>1 DEF ButtonTick
    <2>2. CASE pressed' # pressed /\ BurstEnds
      BY <2>2 DEF ButtonTick
    <2>3. CASE pressed' # pressed /\ ~BurstEnds
      <3>1. presses' = presses + (IF pressed' /\ presses < 3 THEN 1 ELSE 0)
        BY <2>3 DEF ButtonTick
      <3> QED BY <1>1, <2>3, <3>1
    <2> QED BY <2>1, <2>2, <2>3
  <1>4. presses' \in 0..3
    BY <1>1, <1>3
  <1> QED BY <1>1, <1>2, <1>3, <1>4, Times

(* The machine's next state, tick count, count of presses and callback.    *)
Moved(s, t, r, e) == state' = s /\ ticks' = t /\ repeat' = r /\ event' = e

LEMMA Machine ==
  ASSUME ButtonInv, NEW down, ButtonTick(down)
  PROVE  /\ state = 0 => IF pressed' THEN Moved(1, 0, 1, "none") ELSE Moved(0, ticks, repeat, "none")
         /\ state = 1 /\ ~pressed' => Moved(2, 0, repeat, "none")
         /\ state = 1 /\ pressed' => IF ticks + 1 > LONG_TICKS THEN Moved(5, ticks + 1, repeat, "long")
                                     ELSE Moved(1, ticks + 1, repeat, "none")
         /\ state = 2 /\ pressed' => Moved(3, 0, IF repeat # PRESS_REPEAT_MAX_NUM THEN repeat + 1 ELSE repeat, "none")
         /\ state = 2 /\ ~pressed' => IF ticks + 1 > SHORT_TICKS THEN Moved(0, ticks + 1, repeat, Clicked)
                                      ELSE Moved(2, ticks + 1, repeat, "none")
         /\ state = 3 /\ ~pressed' => IF ticks + 1 < SHORT_TICKS THEN Moved(2, 0, repeat, "none")
                                      ELSE Moved(0, ticks + 1, repeat, "none")
         /\ state = 3 /\ pressed' => Moved(IF ticks + 1 > SHORT_TICKS THEN 1 ELSE 3, ticks + 1, repeat, "none")
         /\ state = 5 => Moved(IF pressed' THEN 5 ELSE 0, ticks, repeat, "none")
  <1> DEFINE t == IF state > 0 THEN ticks + 1 ELSE ticks
  <1>1. StateMachine(pressed', t) /\ state \in {0, 1, 2, 3, 5}
    BY DEF ButtonTick, ButtonInv, Levels
  <1>2. state \in {1, 2, 3, 5} => t = ticks + 1
    OBVIOUS
  <1> HIDE DEF t
  <1>3. CASE state = 0
    BY <1>1, <1>3 DEF StateMachine, Go, Moved
  <1>4. CASE state = 1
    BY <1>1, <1>2, <1>4 DEF StateMachine, Go, Moved
  <1>5. CASE state = 2
    BY <1>1, <1>2, <1>5 DEF StateMachine, Go, Again, Moved
  <1>6. CASE state = 3
    BY <1>1, <1>2, <1>6 DEF StateMachine, Go, Moved
  <1>7. CASE state = 5
    BY <1>1, <1>2, <1>7 DEF StateMachine, Go, Moved
  <1> QED BY <1>1, <1>3, <1>4, <1>5, <1>6, <1>7

LEMMA NextButton ==
  ASSUME ButtonInv, NEW down \in BOOLEAN, ButtonTick(down)
  PROVE  ButtonInv'
  <1> USE DEF Moved
  <1>1. pressed' \in BOOLEAN /\ debounce_cnt' \in 0..DEBOUNCE_TICKS - 1 /\ pressed \in BOOLEAN
    BY Debounced DEF ButtonTick, ButtonInv, Levels
  <1>2. /\ since \in 0..LONG_TICKS + 2 /\ ticks \in Nat /\ repeat \in Nat /\ presses \in 0..3
        /\ pressed <=> state \in {1, 3, 5}
        /\ state \in {0, 1, 2, 3, 5}
    BY DEF ButtonInv, Levels, Counts
  <1>3. ASSUME Levels', Released', Counting', FirstDown', Short', Long', ClicksMatchPresses',
               ticks' \in Nat, repeat' \in Nat
        PROVE  ButtonInv'
    BY <1>1, <1>3, Since DEF ButtonInv, Counts
  <1>4. CASE state = 0
    <2>1. presses = 0 \/ since > SHORT_TICKS
      BY <1>4 DEF ButtonInv, Released
    <2>2. CASE pressed'
      <3>0. pressed' # pressed
        <4>1. ~pressed
          BY <1>1, <1>2, <1>4
        <4> QED BY <2>2, <4>1, Zenon
      <3>1. state' = 1 /\ ticks' = 0 /\ repeat' = 1 /\ event' = "none" /\ since' = 0
        BY <1>1, <1>2, <1>4, <2>2, <3>0, Machine, Since
      <3>2. presses' = 1
        <4>1. CASE BurstEnds
          BY <2>2, <3>0, <4>1, Since
        <4>2. CASE ~BurstEnds
          <5>1. presses = 0
            BY <1>1, <1>2, <1>4, <2>1, <4>2 DEF BurstEnds
          <5>2. presses' = IF pressed' /\ presses < 3 THEN presses + 1 ELSE presses
            BY <3>0, <4>2, Since
          <5> QED BY <2>2, <5>1, <5>2
        <4> QED BY <4>1, <4>2
      <3> QED BY <1>1, <1>3, <2>2, <3>1, <3>2, Times
              DEF Levels, Released, Counting, FirstDown, Short, Long, ClicksMatchPresses
    <2>3. CASE ~pressed'
      <3>1. /\ state' = 0 /\ ticks' = ticks /\ repeat' = repeat /\ event' = "none" /\ presses' = presses
            /\ since' = since + 1 \/ (since' = since /\ since = LONG_TICKS + 2)
        BY <1>1, <1>2, <1>4, <2>3, Machine, Since
      <3>2. presses = 0 \/ since' > SHORT_TICKS + 1
        BY <1>2, <2>1, <3>1, Times
      <3> QED BY <1>1, <1>2, <1>3, <2>3, <3>1, <3>2, Times
              DEF Levels, Released, Counting, FirstDown, Short, Long, ClicksMatchPresses
    <2> QED BY <2>2, <2>3
  <1>5. CASE state = 1
    <2>1. /\ ticks = since /\ repeat >= 1 /\ presses = IF repeat < 3 THEN repeat ELSE 3
          /\ since <= LONG_TICKS /\ (presses > 1 => since > SHORT_TICKS)
      BY <1>5 DEF ButtonInv, Counting, FirstDown
    <2>2. CASE pressed'
      <3>1. /\ repeat' = repeat /\ presses' = presses /\ since' = since + 1 /\ ticks' = since + 1
            /\ \/ since + 1 > LONG_TICKS /\ state' = 5 /\ event' = "long"
               \/ since + 1 <= LONG_TICKS /\ state' = 1 /\ event' = "none"
        BY <1>1, <1>2, <1>5, <2>1, <2>2, Machine, Since, Times
      <3> QED BY <1>1, <1>2, <1>3, <2>1, <2>2, <3>1, Times
              DEF Levels, Released, Counting, FirstDown, Short, Long, ClicksMatchPresses
    <2>3. CASE ~pressed'
      <3>0. pressed' # pressed
        <4>1. pressed
          BY <1>1, <1>2, <1>5
        <4> QED BY <2>3, <4>1, Zenon
      <3>1. state' = 2 /\ ticks' = 0 /\ repeat' = repeat /\ event' = "none" /\ since' = 0
        BY <1>1, <1>2, <1>5, <2>3, Machine, Since
      <3>2. presses' = presses
        <4>1. ~BurstEnds
          BY <1>1, <1>2, <1>5, <2>1, <2>3, Times DEF BurstEnds
        <4> QED BY <2>3, <3>0, <4>1, Since
      <3> QED BY <1>1, <1>2, <1>3, <2>1, <2>3, <3>1, <3>2, Times
              DEF Levels, Released, Counting, FirstDown, Short, Long, ClicksMatchPresses
    <2> QED BY <2>2, <2>3
  <1>6. CASE state = 2
    <2>1. /\ ticks = since /\ repeat >= 1 /\ presses = IF repeat < 3 THEN repeat ELSE 3
          /\ since <= SHORT_TICKS
      BY <1>6 DEF ButtonInv, Counting, Short
    <2>2. CASE pressed'
      <3>0. pressed' # pressed
        <4>1. ~pressed
          BY <1>1, <1>2, <1>6
        <4> QED BY <2>2, <4>1, Zenon
      <3>1. /\ state' = 3 /\ ticks' = 0 /\ event' = "none" /\ since' = 0
            /\ repeat' = IF repeat # PRESS_REPEAT_MAX_NUM THEN repeat + 1 ELSE repeat
        BY <1>1, <1>2, <1>6, <2>2, <3>0, Machine, Since
      <3>2. presses' = IF presses < 3 THEN presses + 1 ELSE presses
        <4>1. ~BurstEnds
          BY <1>1, <1>2, <1>6, <2>1, <2>2, Times DEF BurstEnds
        <4> QED BY <2>2, <3>0, <4>1, Since
      <3> QED BY <1>1, <1>2, <1>3, <2>1, <2>2, <3>1, <3>2, Times
              DEF Levels, Released, Counting, FirstDown, Short, Long, ClicksMatchPresses
    <2>3. CASE ~pressed'
      <3>1. /\ repeat' = repeat /\ presses' = presses /\ since' = since + 1 /\ ticks' = since + 1
            /\ \/ since + 1 > SHORT_TICKS /\ state' = 0 /\ event' = Clicked
               \/ since + 1 <= SHORT_TICKS /\ state' = 2 /\ event' = "none"
        BY <1>1, <1>2, <1>6, <2>1, <2>3, Machine, Since, Times
      <3>2. Clicked = IF presses = 1 THEN "single" ELSE IF presses = 2 THEN "double" ELSE "none"
        BY <1>2, <2>1 DEF Clicked
      <3>3. ClicksMatchPresses'
        BY <1>1, <1>2, <2>1, <2>3, <3>1, <3>2, Times DEF ClicksMatchPresses
      <3> QED BY <1>1, <1>2, <1>3, <2>1, <2>3, <3>1, <3>3, Times
              DEF Levels, Released, Counting, FirstDown, Short, Long
    <2> QED BY <2>2, <2>3
  <1>7. CASE state = 3
    <2>1. /\ ticks = since /\ repeat >= 2 /\ presses = IF repeat < 3 THEN repeat ELSE 3
          /\ since <= SHORT_TICKS
      BY <1>7 DEF ButtonInv, Counting, Short
    <2>2. CASE pressed'
      <3>1. /\ repeat' = repeat /\ presses' = presses /\ since' = since + 1 /\ ticks' = since + 1
            /\ event' = "none" /\ state' = IF since + 1 > SHORT_TICKS THEN 1 ELSE 3
        BY <1>1, <1>2, <1>7, <2>1, <2>2, Machine, Since, Times
      <3> QED BY <1>1, <1>2, <1>3, <2>1, <2>2, <3>1, Times
              DEF Levels, Released, Counting, FirstDown, Short, Long, ClicksMatchPresses
    <2>3. CASE ~pressed' /\ since + 1 < SHORT_TICKS
      <3>0. pressed' # pressed
        <4>1. pressed
          BY <1>1, <1>2, <1>7
        <4> QED BY <2>3, <4>1, Zenon
      <3>1. state' = 2 /\ ticks' = 0 /\ repeat' = repeat /\ event' = "none" /\ since' = 0
        BY <1>1, <1>2, <1>7, <2>1, <2>3, Machine, Since
      <3>2. presses' = presses
        <4>1. ~BurstEnds
          BY <1>1, <1>2, <1>7, <2>1, <2>3, Times DEF BurstEnds
        <4> QED BY <2>3, <3>0, <4>1, Since
      <3> QED BY <1>1, <1>2, <1>3, <2>1, <2>3, <3>1, <3>2, Times
              DEF Levels, Released, Counting, FirstDown, Short, Long, ClicksMatchPresses
    <2>4. CASE ~pressed' /\ ~(since + 1 < SHORT_TICKS)
      <3>1. state' = 0 /\ ticks' = since + 1 /\ repeat' = repeat /\ event' = "none" /\ since' = 0
        BY <1>1, <1>2, <1>7, <2>1, <2>4, Machine, Since
      <3>2. BurstEnds
        BY <1>1, <1>2, <1>7, <2>1, <2>4, Times DEF BurstEnds
      <3>3. presses' = 0
        BY <1>1, <1>2, <1>7, <2>4, <3>2, Since
      <3> QED BY <1>1, <1>2, <1>3, <2>1, <2>4, <3>1, <3>3, Times
              DEF Levels, Released, Counting, FirstDown, Short, Long, ClicksMatchPresses
    <2> QED BY <2>2, <2>3, <2>4
  <1>8. CASE state = 5
    <2>1. since > LONG_TICKS
      BY <1>8 DEF ButtonInv, Long
    <2>2. CASE pressed'
      <3>1. /\ state' = 5 /\ ticks' = ticks /\ repeat' = repeat /\ event' = "none"
            /\ since' = LONG_TICKS + 2
        BY <1>1, <1>2, <1>8, <2>1, <2>2, Machine, Since, Times
      <3> QED BY <1>1, <1>2, <1>3, <2>2, <3>1, Times
              DEF Levels, Released, Counting, FirstDown, Short, Long, ClicksMatchPresses
    <2>3. CASE ~pressed'
      <3>1. state' = 0 /\ ticks' = ticks /\ repeat' = repeat /\ event' = "none" /\ since' = 0
        BY <1>1, <1>2, <1>8, <2>3, Machine, Since
      <3>2. BurstEnds
        BY <1>1, <1>2, <1>8, <2>1 DEF BurstEnds
      <3>3. presses' = 0
        BY <1>1, <1>2, <1>8, <2>3, <3>2, Since
      <3> QED BY <1>1, <1>2, <1>3, <2>3, <3>1, <3>3, Times
              DEF Levels, Released, Counting, FirstDown, Short, Long, ClicksMatchPresses
    <2> QED BY <2>2, <2>3
  <1> QED BY <1>2, <1>4, <1>5, <1>6, <1>7, <1>8

----------------------------------------------------------------------------
(* Draws *)

Kinds == {"banner", "text", "mixed", "nothing", "config"}
Views == [kind : Kinds, line : Nat, px : Int, clean : BOOLEAN]

LEMMA Pictures ==
  /\ {Banner, Text, Mixed, Nothing} \subseteq Views
  /\ Banner # Nothing /\ Text # Nothing /\ Mixed # Nothing
  /\ Banner.clean /\ Text.clean /\ Nothing.clean
  /\ \A line \in Nat, px \in Int :
        /\ View("config", line, px, TRUE) \in Views
        /\ View("config", line, px, TRUE) # Nothing
        /\ View("config", line, px, TRUE).clean
  BY DEF Banner, Text, Mixed, Nothing, View, Views, Kinds

WithClean(v, b) == [v EXCEPT !.clean = b]

LEMMA Marked ==
  ASSUME NEW v \in Views, NEW b \in BOOLEAN
  PROVE  LET w == WithClean(v, b)
         IN /\ w \in Views /\ w.kind = v.kind /\ (w.clean <=> b)
            /\ b /\ v.clean => w = v
  <1> DEFINE w == WithClean(v, b)
  <1>1. w \in Views /\ w.kind = v.kind
    BY DEF WithClean, Views
  <1>2. w.clean = b
    <2>1. v = [kind |-> v.kind, line |-> v.line, px |-> v.px, clean |-> v.clean]
      BY DEF Views
    <2> QED BY DEF WithClean, Views
  <1>3. ASSUME b, v.clean PROVE w = v
    <2>1. b = TRUE /\ v.clean = TRUE
      BY <1>3 DEF Views
    <2> QED BY <2>1 DEF WithClean, Views
  <1> QED BY <1>1, <1>2, <1>3

(* A draw that begins: the draws under way are no longer clean, and it is  *)
(* clean when there are none.                                              *)
LEMMA Begun ==
  ASSUME drawing \in [Drawers -> Views], NEW d \in Drawers, NEW v \in Views,
         v.clean, v # Nothing, v.kind # "nothing", Draw(d, v)
  PROVE  /\ drawing' \in [Drawers -> Views]
         /\ drawing'[d] # Nothing /\ (drawing'[d].clean => drawing'[d] = v)
         /\ \A e \in Drawers \ {d} :
               /\ drawing[e] = Nothing => drawing'[e] = Nothing
               /\ drawing[e] # Nothing => drawing'[e] # Nothing /\ ~drawing'[e].clean
  <1> DEFINE others == {e \in Drawers \ {d} : drawing[e] # Nothing}
             clean  == others = {}
  <1>1. drawing' = [e \in Drawers |->
            IF e = d THEN WithClean(v, clean)
            ELSE IF e \in others THEN WithClean(drawing[e], FALSE) ELSE Nothing]
    BY DEF Draw, WithClean
  <1>2. clean \in BOOLEAN
    OBVIOUS
  <1> HIDE DEF clean
  <1>3. LET w == WithClean(v, clean)
        IN w \in Views /\ w.kind = v.kind /\ (w.clean <=> clean) /\ (clean => w = v)
    BY <1>2, Marked
  <1>4. \A e \in Drawers : LET w == WithClean(drawing[e], FALSE) IN w \in Views /\ ~w.clean
    BY Marked
  <1>5. Nothing \in Views /\ Nothing.clean /\ Nothing.kind = "nothing"
    BY Pictures DEF Nothing, View
  <1>6. drawing'[d] = WithClean(v, clean)
    BY <1>1
  <1>7. \A e \in Drawers \ {d} : drawing'[e] = IF drawing[e] # Nothing THEN WithClean(drawing[e], FALSE) ELSE Nothing
    BY <1>1
  <1>8. drawing' \in [Drawers -> Views]
    BY <1>1, <1>3, <1>4, <1>5
  <1>9. drawing'[d] # Nothing /\ (drawing'[d].clean => drawing'[d] = v)
    BY <1>3, <1>5, <1>6
  <1>10. ASSUME NEW e \in Drawers \ {d}
         PROVE  /\ drawing[e] = Nothing => drawing'[e] = Nothing
                /\ drawing[e] # Nothing => drawing'[e] # Nothing /\ ~drawing'[e].clean
    BY <1>4, <1>5, <1>7
  <1> QED BY <1>8, <1>9, <1>10

LEMMA Ended ==
  ASSUME drawing \in [Drawers -> Views], NEW d \in Drawers, Drawn(d)
  PROVE  /\ drawing' \in [Drawers -> Views] /\ drawing[d] # Nothing /\ drawing'[d] = Nothing
         /\ \A e \in Drawers \ {d} : drawing'[e] = drawing[e]
         /\ screen' = IF drawing[d].clean THEN drawing[d] ELSE Mixed
         /\ UNCHANGED <<config, shaken, buttonVars>>
  BY Pictures DEF Drawn

----------------------------------------------------------------------------
(* The configuration screen *)

Current == IF active THEN View("config", selected, offset, TRUE) ELSE Banner

Lines == 0..CONFIG_LINES - 1
ConfigInv == /\ lines \in [Lines -> Overhangs] /\ active \in BOOLEAN
             /\ selected \in Lines /\ offset \in Int /\ dir \in {-1, 1}
             /\ active => 0 <= offset /\ offset <= lines[selected]

(* Where the shake task is with the screen on or off; outside its drawing  *)
(* it draws nothing.                                                       *)
ShakeInv == /\ shaken \in {"no", "off", "built", "on", "drawing"}
            /\ shaken = "on" => active
            /\ shaken \in {"off", "built"} => ~active
            /\ shaken # "drawing" => drawing["imu"] = Nothing

(* A clean draw of the agent's is of a text; and while the shake task has  *)
(* nothing to draw, or has begun to, a clean one of another task's is of   *)
(* the state as it is, and the panel shows that, unless such a draw is     *)
(* under way, or the agent or two draws at a time came last.               *)
DrawInv ==
    /\ drawing \in [Drawers -> Views]
    /\ drawing["agent"] # Nothing /\ drawing["agent"].clean => drawing["agent"] = Text
    /\ shaken \in {"no", "drawing"} =>
         /\ \A d \in {"timer", "imu"} :
               drawing[d] # Nothing /\ drawing[d].clean => drawing[d] = Current
         /\ \/ screen \in {Text, Mixed, Current}
            \/ drawing["timer"] # Nothing \/ drawing["imu"] # Nothing

PanelInv == ConfigInv /\ ShakeInv /\ DrawInv

LEMMA Sizes ==
  /\ CONFIG_LINES \in Nat /\ CONFIG_LINES > 0 /\ SCROLL_STEP \in Nat /\ SCROLL_STEP > 0
  /\ \A o \in Overhangs : o \in Nat
  /\ 0 \in Lines /\ Lines \subseteq Nat
  BY PanelAssumption DEF Lines

LEMMA Shown ==
  ASSUME ConfigInv
  PROVE  Current \in Views /\ Current # Nothing /\ Current.clean /\ Current.kind # "nothing"
  <1>1. /\ Banner \in Views /\ Banner # Nothing /\ Banner.clean /\ Banner.kind # "nothing"
    BY Pictures DEF Banner, View
  <1>2. \A line \in Nat, px \in Int : View("config", line, px, TRUE).kind # "nothing"
    BY DEF View
  <1>3. selected \in Nat /\ offset \in Int
    BY Sizes DEF ConfigInv
  <1> QED BY <1>1, <1>2, <1>3, Pictures DEF Current

LEMMA Redrawn ==
  ASSUME PanelInv, ConfigInv', NEW d \in {"timer", "imu"}, NEW v, v = Current', Draw(d, v)
  PROVE  DrawInv'
  <1>1. v \in Views /\ v # Nothing /\ v.clean /\ v.kind # "nothing"
    <2>1. (Current \in Views /\ Current # Nothing /\ Current.clean /\ Current.kind # "nothing")'
      BY Shown, PTL
    <2> QED BY <2>1
  <1>2. d \in Drawers /\ "agent" \in Drawers \ {d}
    BY DEF Drawers
  <1>3. /\ drawing' \in [Drawers -> Views]
        /\ drawing'[d] # Nothing /\ (drawing'[d].clean => drawing'[d] = v)
        /\ \A e \in Drawers \ {d} : drawing'[e] # Nothing => ~drawing'[e].clean
    BY <1>1, <1>2, Begun DEF PanelInv, DrawInv
  <1>4. \A e \in {"timer", "imu"} : drawing'[e] # Nothing /\ drawing'[e].clean => drawing'[e] = Current'
    BY <1>3 DEF Drawers
  <1> QED BY <1>2, <1>3, <1>4 DEF DrawInv

LEMMA StillDrawn ==
  ASSUME PanelInv, UNCHANGED <<drawing, screen>>, Current' = Current,
         shaken' \in {"no", "drawing"} => shaken \in {"no", "drawing"}
  PROVE  DrawInv'
  BY DEF PanelInv, DrawInv

LEMMA NextScrollDown ==
  ASSUME PanelInv, ScrollDown, active, UNCHANGED shaken
  PROVE  PanelInv'
  <1> DEFINE next == (selected + 1) % CONFIG_LINES
  <1>1. selected' = next /\ offset' = 0 /\ dir' = 1 /\ Draw("timer", View("config", next, 0, TRUE))
        /\ UNCHANGED <<lines, active>>
    BY DEF ScrollDown
  <1>2. next \in Lines
    BY Sizes DEF PanelInv, ConfigInv, Lines
  <1> HIDE DEF next
  <1>3. ConfigInv'
    BY <1>1, <1>2, Sizes DEF PanelInv, ConfigInv
  <1>4. Current' = View("config", next, 0, TRUE)
    BY <1>1 DEF Current
  <1>5. DrawInv'
    BY <1>1, <1>3, <1>4, Redrawn
  <1>6. ShakeInv'
    <2>1. View("config", next, 0, TRUE) \in Views /\ View("config", next, 0, TRUE) # Nothing
          /\ View("config", next, 0, TRUE).clean /\ View("config", next, 0, TRUE).kind # "nothing"
      BY <1>2, Sizes, Pictures DEF View
    <2>2. "timer" \in Drawers /\ "imu" \in Drawers \ {"timer"}
      BY DEF Drawers
    <2>3. drawing["imu"] = Nothing => drawing'["imu"] = Nothing
      BY <1>1, <2>1, <2>2, Begun DEF PanelInv, DrawInv
    <2> QED BY <1>1, <2>3 DEF PanelInv, ShakeInv
  <1> QED BY <1>3, <1>5, <1>6 DEF PanelInv

LEMMA NextScrollTick ==
  ASSUME PanelInv, ScrollTick
  PROVE  PanelInv'
  <1> DEFINE end == lines[selected]
             to  == offset + dir * SCROLL_STEP
  <1>1. active /\ UNCHANGED <<lines, active, selected, shaken, screen>>
    BY DEF ScrollTick
  <1>2. end \in Nat /\ offset \in Int /\ dir \in {-1, 1} /\ 0 <= offset /\ offset <= end /\ selected \in Lines
    BY <1>1, Sizes DEF PanelInv, ConfigInv
  <1>3. to \in Int
    BY <1>2, Sizes
  <1>4. \/ end = 0 /\ offset' = 0 /\ dir' = 1 /\ UNCHANGED drawing
        \/ /\ offset' = IF to >= end THEN end ELSE IF to <= 0 THEN 0 ELSE to
           /\ dir' = IF to >= end THEN -1 ELSE IF to <= 0 THEN 1 ELSE dir
           /\ Draw("timer", View("config", selected, offset', TRUE))
    BY DEF ScrollTick
  <1>5. lines[selected] = end
    OBVIOUS
  <1> HIDE DEF end, to
  <1>6. offset' \in Int /\ 0 <= offset' /\ offset' <= end /\ dir' \in {-1, 1}
    <2>1. CASE end = 0 /\ offset' = 0 /\ dir' = 1
      BY <2>1
    <2>2. CASE /\ offset' = IF to >= end THEN end ELSE IF to <= 0 THEN 0 ELSE to
               /\ dir' = IF to >= end THEN -1 ELSE IF to <= 0 THEN 1 ELSE dir
      <3>1. offset' \in Int /\ 0 <= offset' /\ offset' <= end
        BY <1>2, <1>3, <2>2
      <3>2. dir' \in {-1, 1}
        BY <1>2, <2>2
      <3> QED BY <3>1, <3>2
    <2> QED BY <1>4, <2>1, <2>2
  <1>7. ConfigInv'
    BY <1>1, <1>2, <1>5, <1>6 DEF PanelInv, ConfigInv
  <1>8. CASE end = 0 /\ offset' = 0 /\ dir' = 1 /\ UNCHANGED drawing
    <2>1. Current' = Current
      <3>1. offset' = offset
        BY <1>2, <1>8
      <3> QED BY <1>1, <3>1 DEF Current
    <2> QED BY <1>1, <1>7, <1>8, <2>1, StillDrawn DEF PanelInv, ShakeInv
  <1>9. CASE Draw("timer", View("config", selected, offset', TRUE))
    <2>1. PICK v : v = View("config", selected, offset', TRUE)
      OBVIOUS
    <2>2. v = Current' /\ Draw("timer", v)
      BY <1>1, <1>9, <2>1 DEF Current
    <2>3. DrawInv'
      BY <1>7, <2>2, Redrawn
    <2>4. v \in Views /\ v # Nothing /\ v.clean /\ v.kind # "nothing"
      BY <1>2, <1>6, <2>1, Sizes, Pictures DEF View
    <2>5. "timer" \in Drawers /\ "imu" \in Drawers \ {"timer"}
      BY DEF Drawers
    <2>6. drawing["imu"] = Nothing => drawing'["imu"] = Nothing
      BY <2>2, <2>4, <2>5, Begun DEF PanelInv, DrawInv
    <2> QED BY <1>1, <1>7, <2>3, <2>6 DEF PanelInv, ShakeInv
  <1> QED BY <1>4, <1>8, <1>9

LEMMA NextTick ==
  ASSUME PanelInv, ButtonInv, Tick
  PROVE  PanelInv' /\ ButtonInv'
  <1>1. UNCHANGED <<shaken, screen>> /\ \E down \in BOOLEAN : ButtonTick(down)
    BY DEF Tick
  <1>2. ButtonInv'
    BY <1>1, NextButton
  <1>3. CASE event' = "single" /\ active
    <2>1. ScrollDown
      BY <1>3 DEF Tick
    <2> QED BY <1>1, <1>2, <1>3, <2>1, NextScrollDown
  <1>4. CASE ~(event' = "single" /\ active)
    <2>1. UNCHANGED <<config, drawing>>
      <3>1. CASE event' = "single" /\ ~active
        BY <3>1 DEF Tick, CycleBacklight
      <3>2. CASE event' # "single"
        BY <3>2 DEF Tick
      <3> QED BY <1>4, <3>1, <3>2
    <2>2. UNCHANGED <<lines, active, selected, offset, dir>>
      BY <2>1 DEF config
    <2>3. Current' = Current
      BY <2>2 DEF Current
    <2> QED BY <1>1, <1>2, <2>1, <2>2, <2>3, StillDrawn DEF PanelInv, ConfigInv, ShakeInv
  <1> QED BY <1>3, <1>4

LEMMA NextShake ==
  ASSUME PanelInv, SwitchOff \/ Rebuild \/ SwitchOn \/ DrawSwitched \/ ToggleEnds
  PROVE  PanelInv'
  <1>1. CASE SwitchOff
    <2>1. /\ active' = FALSE /\ shaken = "no" /\ shaken' = "off"
          /\ UNCHANGED <<lines, selected, offset, dir, drawing, screen>>
      BY <1>1 DEF SwitchOff, Shaken
    <2> QED BY <2>1 DEF PanelInv, ConfigInv, ShakeInv, DrawInv
  <1>2. CASE Rebuild
    <2>1. /\ ~active /\ shaken = "no" /\ shaken' = "built" /\ lines' \in [Lines -> Overhangs]
          /\ UNCHANGED <<active, selected, offset, dir, drawing, screen>>
      BY <1>2 DEF Rebuild, Shaken, Lines
    <2> QED BY <2>1 DEF PanelInv, ConfigInv, ShakeInv, DrawInv
  <1>3. CASE SwitchOn
    <2>1. /\ selected' = 0 /\ offset' = 0 /\ dir' = 1 /\ active' = TRUE /\ shaken = "built" /\ shaken' = "on"
          /\ UNCHANGED <<lines, drawing, screen>>
      BY <1>3 DEF SwitchOn, Shaken
    <2>2. ConfigInv'
      BY <2>1, Sizes DEF PanelInv, ConfigInv
    <2> QED BY <2>1, <2>2 DEF PanelInv, ShakeInv, DrawInv
  <1>4. CASE DrawSwitched
    <2>1. /\ shaken' = "drawing" /\ UNCHANGED <<config, screen>>
          /\ \/ shaken = "off" /\ Draw("imu", Banner)
             \/ shaken = "on" /\ Draw("imu", View("config", selected, offset, TRUE))
      BY <1>4 DEF DrawSwitched, Shaken
    <2>2. UNCHANGED <<lines, active, selected, offset, dir>>
      BY <2>1 DEF config
    <2>3. Draw("imu", Current)
      BY <2>1 DEF Current, PanelInv, ShakeInv
    <2>4. PICK v : v = Current
      OBVIOUS
    <2>5. v = Current' /\ Draw("imu", v)
      BY <2>2, <2>3, <2>4 DEF Current
    <2>6. ConfigInv'
      BY <2>2 DEF PanelInv, ConfigInv
    <2>7. DrawInv'
      BY <2>5, <2>6, Redrawn
    <2> QED BY <2>1, <2>6, <2>7 DEF PanelInv, ShakeInv
  <1>5. CASE ToggleEnds
    <2>1. /\ shaken = "drawing" /\ shaken' = "no" /\ drawing["imu"] = Nothing
          /\ UNCHANGED <<config, drawing, screen>>
      BY <1>5 DEF ToggleEnds, Shaken
    <2>2. UNCHANGED <<lines, active, selected, offset, dir>>
      BY <2>1 DEF config
    <2>3. Current' = Current
      BY <2>2 DEF Current
    <2> QED BY <2>1, <2>2, <2>3, StillDrawn DEF PanelInv, ConfigInv, ShakeInv
  <1> QED BY <1>1, <1>2, <1>3, <1>4, <1>5

LEMMA NextDrawText ==
  ASSUME PanelInv, DrawText
  PROVE  PanelInv'
  <1>1. Draw("agent", Text) /\ UNCHANGED <<lines, active, selected, offset, dir, shaken, screen>>
    BY DEF DrawText, config
  <1>2. Text \in Views /\ Text # Nothing /\ Text.clean /\ Text.kind # "nothing"
    BY Pictures DEF Text, View
  <1>3. "agent" \in Drawers /\ "timer" \in Drawers \ {"agent"} /\ "imu" \in Drawers \ {"agent"}
    BY DEF Drawers
  <1>4. /\ drawing' \in [Drawers -> Views]
        /\ drawing'["agent"] # Nothing /\ (drawing'["agent"].clean => drawing'["agent"] = Text)
        /\ \A e \in {"timer", "imu"} :
               /\ drawing[e] = Nothing => drawing'[e] = Nothing
               /\ drawing[e] # Nothing => drawing'[e] # Nothing /\ ~drawing'[e].clean
    BY <1>1, <1>2, <1>3, Begun DEF PanelInv, DrawInv
  <1>5. Current' = Current
    BY <1>1 DEF Current
  <1>6. DrawInv'
    BY <1>1, <1>4, <1>5 DEF PanelInv, DrawInv
  <1> QED BY <1>1, <1>4, <1>6 DEF PanelInv, ConfigInv, ShakeInv

LEMMA NextDrawn ==
  ASSUME PanelInv, NEW d \in Drawers, Drawn(d)
  PROVE  PanelInv'
  <1>1. /\ drawing' \in [Drawers -> Views] /\ drawing[d] # Nothing /\ drawing'[d] = Nothing
        /\ \A e \in Drawers \ {d} : drawing'[e] = drawing[e]
        /\ screen' = IF drawing[d].clean THEN drawing[d] ELSE Mixed
        /\ UNCHANGED <<lines, active, selected, offset, dir, shaken>>
    BY Ended DEF PanelInv, DrawInv, config
  <1>2. Current' = Current
    BY <1>1 DEF Current
  <1>3. \A e \in Drawers : drawing'[e] # Nothing => drawing'[e] = drawing[e]
    BY <1>1
  <1>4. {"agent", "timer", "imu"} \subseteq Drawers /\ d \in {"agent", "timer", "imu"}
    BY DEF Drawers
  <1>5. shaken \in {"no", "drawing"} => screen' \in {Text, Mixed, Current}
    BY <1>1, <1>4 DEF PanelInv, DrawInv
  <1>6. DrawInv'
    BY <1>1, <1>2, <1>3, <1>4, <1>5 DEF PanelInv, DrawInv
  <1>7. drawing["imu"] = Nothing => drawing'["imu"] = Nothing
    BY <1>1, <1>4
  <1> QED BY <1>1, <1>6, <1>7 DEF PanelInv, ConfigInv, ShakeInv

----------------------------------------------------------------------------
(* The inductive invariant and the theorems *)

ScreenInv == ButtonInv /\ PanelInv

LEMMA InitScreen == Init => ScreenInv
  <1> SUFFICES ASSUME Init PROVE ScreenInv
    OBVIOUS
  <1>1. ButtonInv
    <2>1. Levels /\ Released /\ Counting /\ FirstDown /\ Short /\ Long
      <3>1. pressed = FALSE /\ state = 0 /\ presses = 0
        BY DEF Init, ButtonInit
      <3>2. state \notin {1, 2, 3, 5}
        BY <3>1
      <3> QED BY <3>1, <3>2 DEF Levels, Released, Counting, FirstDown, Short, Long
    <2>2. Counts
      BY Times DEF Init, ButtonInit, Counts
    <2>3. ClicksMatchPresses
      BY Times DEF Init, ButtonInit, ClicksMatchPresses
    <2> QED BY <2>1, <2>2, <2>3 DEF ButtonInv
  <1>2. ConfigInv
    <2>1. lines \in [Lines -> Overhangs] /\ active = FALSE /\ selected \in Lines
      BY Sizes DEF Init, Lines
    <2>2. offset \in Int /\ dir \in {-1, 1}
      BY DEF Init
    <2> QED BY <2>1, <2>2 DEF ConfigInv
  <1>3. \A d \in Drawers : drawing[d] = Nothing
    BY DEF Init
  <1>4. drawing \in [Drawers -> Views] /\ screen = Current
    BY Pictures DEF Init, Current
  <1>5. ShakeInv /\ DrawInv
    BY <1>3, <1>4 DEF Init, ShakeInv, DrawInv, Drawers
  <1> QED BY <1>1, <1>2, <1>5 DEF ScreenInv, PanelInv

LEMMA NextScreen == ScreenInv /\ [Next]_vars => ScreenInv'
  <1> SUFFICES ASSUME ScreenInv, [Next]_vars PROVE ScreenInv'
    OBVIOUS
  <1>2. CASE Tick
    BY <1>2, NextTick DEF ScreenInv
  <1>3. ButtonInv'
    <2>1. [Next]_vars => Tick \/ UNCHANGED buttonVars
      BY DEF Next, ScrollTick, DrawText, SwitchOff, Rebuild, SwitchOn, DrawSwitched, ToggleEnds, Drawn, vars
    <2>2. CASE UNCHANGED buttonVars
      BY <2>2 DEF ScreenInv, ButtonInv, Levels, Counts, Released, Counting, FirstDown, Short, Long,
                  ClicksMatchPresses, buttonVars
    <2> QED BY <1>2, <2>1, <2>2 DEF ScreenInv
  <1>4. CASE UNCHANGED vars
    <2>1. UNCHANGED <<lines, active, selected, offset, dir, shaken, drawing, screen>>
      BY <1>4 DEF vars, panelVars, config
    <2>2. Current' = Current
      BY <2>1 DEF Current
    <2>3. PanelInv'
      BY <2>1, <2>2, StillDrawn DEF ScreenInv, PanelInv, ConfigInv, ShakeInv
    <2> QED BY <1>3, <2>3 DEF ScreenInv
  <1>5. CASE ~Tick /\ Next
    <2>1. PanelInv'
      BY <1>5, NextScrollTick, NextDrawText, NextShake, NextDrawn DEF ScreenInv, Next
    <2> QED BY <1>3, <2>1 DEF ScreenInv
  <1> QED BY <1>2, <1>4, <1>5

LEMMA ScreenInvariant == Spec => []ScreenInv
  BY InitScreen, NextScreen, PTL DEF Spec

(* multi_button.c tells clicks from presses: whatever the times, the pin   *)
(* and its bounces, a single click is reported after exactly one short     *)
(* press, a double click after two, a long press while it lasts.           *)
THEOREM ClicksAreTold == Spec => []ClicksMatchPresses
  <1>1. ScreenInv => ClicksMatchPresses
    BY DEF ScreenInv, ButtonInv
  <1> QED BY <1>1, ScreenInvariant, PTL

(* config_screen.c keeps no lock between the shake task, the timer task    *)
(* and the agent: still, once they are done, the panel shows the selection *)
(* as it is, or the banner, unless the agent drew last or two draws met.   *)
THEOREM PanelShowsTheState == Spec => []ScreenFollows
  <1>1. ScreenInv => ScreenFollows
    BY DEF ScreenInv, PanelInv, ConfigInv, DrawInv, Drawers, Current, ScreenFollows
  <1> QED BY <1>1, ScreenInvariant, PTL
=============================================================================

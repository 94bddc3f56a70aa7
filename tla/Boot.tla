-------------------------------- MODULE Boot --------------------------------
(***************************************************************************)
(* The boot of both firmwares and their Wi-Fi connection                   *)
(* (wifi/wifi_manager.c, mimi.c, atom_main.c).  The event task connects    *)
(* again whenever the station starts or is disconnected; the boot waits    *)
(* for it once, and starts the services or never does.  A scan, which the  *)
(* boot of MimiClaw and the console run, disconnects the station, and      *)
(* nothing keeps two scans or a scan and the event task apart.             *)
(***************************************************************************)
EXTENDS Naturals, Sequences

CONSTANTS MaxEvents,   \* bound: Wi-Fi events posted and not handled yet
          MaxCommands  \* bound: wifi_scan and wifi_status commands

ASSUME BootAssumption == MaxEvents \in Nat \ {0} /\ MaxCommands \in Nat

Tasks == {"main", "console"}   \* the tasks that scan

VARIABLES device,     \* "mimi" or "atom"
          ap,         \* the access point is there and lets the station in
          driver,     \* the station: "off", "idle", "connecting", "linked", "online"
          events,     \* posted to the event task
          connected,  \* s_connected
          bit,        \* the event group's CONNECTED bit
          boot,       \* where app_main is
          pc,         \* pc[t]: where task t is in a scan or a status command
          commands,
          ranOut      \* history: a scan found no memory for its list

world    == <<device, ap>>
bootVars == <<world, driver, events, connected, bit, boot, pc, commands, ranOut>>

BootInit ==
    /\ device \in {"mimi", "atom"} /\ ap \in BOOLEAN
    /\ driver = "off" /\ events = <<>> /\ connected = FALSE /\ bit = FALSE
    /\ boot = "start" /\ pc = [t \in Tasks |-> "none"] /\ commands = 0
    /\ ranOut = FALSE

----------------------------------------------------------------------------
(* The Wi-Fi driver, as its documentation has it. *)

Linked == driver \in {"linked", "online"}

Post(e) == Len(events) < MaxEvents /\ events' = Append(events, e)

(* To connect ends every scan under way; it has no effect on a station     *)
(* that is off, connecting or connected.  p is what the program counters   *)
(* are otherwise.                                                          *)
ConnectFrom(d, p) ==
    /\ driver' = IF d = "idle" THEN "connecting" ELSE d
    /\ pc' = IF d = "idle"
             THEN [t \in Tasks |-> IF p[t] = "scanning" THEN "aborted" ELSE p[t]] ELSE p

(* A connected station that disconnects says so, one that is connecting    *)
(* may; stopped, it is off.                                                *)
Leave(d) ==
    /\ driver' = d
    /\ \/ (Linked \/ driver = "connecting") /\ Post("disconnected")
       \/ ~Linked /\ UNCHANGED events

ApChanges == ap' = ~ap /\ UNCHANGED <<device, driver, events, connected, bit, boot, pc, commands, ranOut>>

Associates ==
    /\ driver = "connecting" /\ ap /\ driver' = "linked"
    /\ UNCHANGED <<world, events, connected, bit, boot, pc, commands, ranOut>>

GetsIp ==
    /\ driver = "linked" /\ ap /\ driver' = "online" /\ Post("got_ip")
    /\ UNCHANGED <<world, connected, bit, boot, pc, commands, ranOut>>

(* The attempt fails, or the connection is lost. *)
Drops ==
    /\ ~ap /\ (Linked \/ driver = "connecting") /\ driver' = "idle" /\ Post("disconnected")
    /\ UNCHANGED <<world, connected, bit, boot, pc, commands, ranOut>>

----------------------------------------------------------------------------
(* The event task.  AtomClaw connects with a handler of its own, which     *)
(* leaves s_connected alone.                                               *)

Reconnect == ConnectFrom(driver, pc)

(* Fault: a disconnection leaves s_connected set. *)
HandleForgetful ==
    /\ events # <<>> /\ events' = Tail(events)
    /\ IF Head(events) = "got_ip"
       THEN /\ bit' = TRUE /\ connected' = (connected \/ device = "mimi")
            /\ UNCHANGED <<driver, pc>>
       ELSE Reconnect /\ UNCHANGED <<connected, bit>>
    /\ UNCHANGED <<world, boot, commands, ranOut>>

(* event_handler and diag_wifi_event_handler. *)
Handle ==
    /\ events # <<>> /\ events' = Tail(events)
    /\ CASE Head(events) = "start" ->
              Reconnect /\ UNCHANGED <<connected, bit>>
         [] Head(events) = "disconnected" ->
              Reconnect /\ connected' = (connected /\ device = "atom") /\ UNCHANGED bit
         [] Head(events) = "got_ip" ->
              /\ bit' = TRUE /\ connected' = (connected \/ device = "mimi")
              /\ UNCHANGED <<driver, pc>>
    /\ UNCHANGED <<world, boot, commands, ranOut>>

----------------------------------------------------------------------------
(* wifi_manager_scan_and_print, by task t *)

OtherScans(t) == \E u \in Tasks \ {t} : pc[u] = "scanning"

At(t, from, to) == pc[t] = from /\ pc' = [pc EXCEPT ![t] = to]

ScanPauses(t) ==
    /\ At(t, "begin", "paused")
    /\ Leave(IF driver = "off" THEN "off" ELSE "idle")
    /\ UNCHANGED <<world, connected, bit, boot, commands, ranOut>>

(* A station that is connecting refuses to scan, and so does one that      *)
(* scans, or is off; the first time, it is stopped and started again.      *)
ScanStarts(t) ==
    /\ \/ /\ driver # "off" /\ driver # "connecting" /\ ~OtherScans(t)
          /\ At(t, "paused", "scanning") \/ At(t, "again", "scanning")
       \/ /\ driver = "connecting" \/ OtherScans(t)
          /\ At(t, "paused", "stop") \/ At(t, "again", "aborted")
       \/ /\ driver = "off" \/ OtherScans(t)
          /\ At(t, "paused", "aborted") \/ At(t, "again", "aborted")
    /\ UNCHANGED <<world, driver, events, connected, bit, boot, commands, ranOut>>

ScanStops(t) ==
    /\ pc[t] = "stop"
    /\ pc' = [u \in Tasks |-> IF u = t THEN "restart"
                              ELSE IF pc[u] = "scanning" THEN "aborted" ELSE pc[u]]
    /\ Leave("off")
    /\ UNCHANGED <<world, connected, bit, boot, commands, ranOut>>

ScanRestarts(t) ==
    /\ At(t, "restart", "again")
    /\ IF driver = "off" THEN driver' = "idle" /\ Post("start") ELSE UNCHANGED <<driver, events>>
    /\ UNCHANGED <<world, connected, bit, boot, commands, ranOut>>

(* Fault: only a scan that failed connects again. *)
ScanEndsQuietly(t) ==
    /\ \/ pc[t] = "aborted" /\ ConnectFrom(driver, [pc EXCEPT ![t] = "none"]) /\ UNCHANGED ranOut
       \/ At(t, "scanning", "none") /\ UNCHANGED <<driver, ranOut>>
       \/ At(t, "scanning", "none") /\ UNCHANGED driver /\ ranOut' = TRUE
    /\ UNCHANGED <<world, events, connected, bit, boot, commands>>

(* The scan failed, found nothing or was printed; or there was no memory.  *)
ScanEnds(t) ==
    /\ \/ /\ pc[t] \in {"scanning", "aborted"}
          /\ ConnectFrom(driver, [pc EXCEPT ![t] = "none"]) /\ UNCHANGED ranOut
       \/ At(t, "scanning", "none") /\ UNCHANGED driver /\ ranOut' = TRUE
    /\ UNCHANGED <<world, events, connected, bit, boot, commands>>

Scan(t) == ScanPauses(t) \/ ScanStarts(t) \/ ScanStops(t) \/ ScanRestarts(t) \/ ScanEnds(t)

----------------------------------------------------------------------------
(* The console, which MimiClaw starts before Wi-Fi and AtomClaw after it.  *)

ConsoleRuns == device = "mimi" \/ boot \in {"no_services", "services", "half", "no_wifi"}

(* wifi_scan, or wifi_status: when s_connected is not set but the station  *)
(* is linked, wifi_manager_is_connected sets it a moment later.            *)
ConsoleCommand ==
    /\ ConsoleRuns /\ commands < MaxCommands /\ commands' = commands + 1
    /\ \/ At("console", "none", "begin")
       \/ ~connected /\ Linked /\ At("console", "none", "set")
    /\ UNCHANGED <<world, driver, events, connected, bit, boot, ranOut>>

StatusSets ==
    /\ At("console", "set", "none") /\ connected' = TRUE
    /\ UNCHANGED <<world, driver, events, bit, boot, commands, ranOut>>

----------------------------------------------------------------------------
(* app_main *)

NoCredentials ==
    /\ boot = "start" /\ boot' = "no_wifi"
    /\ UNCHANGED <<world, driver, events, connected, bit, pc, commands, ranOut>>

(* wifi_manager_start or wifi_connect_diag_style; then the scan. *)
StartWifi ==
    /\ boot = "start" /\ boot' = "waiting"
    /\ driver' = "idle" /\ Post("start")
    /\ pc' = [pc EXCEPT !["main"] = IF device = "mimi" THEN "begin" ELSE "none"]
    /\ UNCHANGED <<world, connected, bit, commands, ranOut>>

(* The wait ends with the bit, or after 30 seconds.  AtomClaw looks        *)
(* whether the agent and the dispatcher were created, its server already   *)
(* answering; MimiClaw does not.                                           *)
BootEnds ==
    /\ boot = "waiting" /\ pc["main"] = "none"
    /\ boot' \in IF bit THEN {"services", "half"} ELSE {"no_services"}
    /\ UNCHANGED <<world, driver, events, connected, bit, pc, commands, ranOut>>

Driver  == Associates \/ GetsIp \/ Drops
Console == Scan("console") \/ StatusSets
Main    == NoCredentials \/ StartWifi \/ Scan("main") \/ BootEnds

BootNext == ApChanges \/ Driver \/ Handle \/ ConsoleCommand \/ Console \/ Main

BootSpec == BootInit /\ [][BootNext]_bootVars

(* The driver and the tasks go on, each at its own pace. *)
FairSpec == /\ BootSpec
            /\ WF_bootVars(Driver) /\ WF_bootVars(Handle) /\ WF_bootVars(Console) /\ WF_bootVars(Main)

----------------------------------------------------------------------------
(* Properties *)

TypeOK ==
    /\ device \in {"mimi", "atom"} /\ {ap, connected, bit, ranOut} \subseteq BOOLEAN
    /\ driver \in {"off", "idle", "connecting", "linked", "online"}
    /\ events \in Seq({"start", "disconnected", "got_ip"}) /\ Len(events) <= MaxEvents
    /\ boot \in {"start", "waiting", "no_wifi", "no_services", "services", "half"}
    /\ pc \in [Tasks -> {"none", "begin", "paused", "scanning", "aborted", "stop",
                         "restart", "again", "set"}]

(* Although scans disconnect and stop the station behind its back, a       *)
(* station that does not try to connect soon will: an event or a scan is   *)
(* still to come that connects it.  Only a scan that ran out of memory,    *)
(* which does not connect again, can leave it idle for good.               *)
OnlyNoMemoryStrands ==
    boot \notin {"start", "no_wifi"} /\ driver \in {"off", "idle"} /\ ~ranOut =>
        \/ \E i \in 1..Len(events) : events[i] \in {"start", "disconnected"}
        \/ \E t \in Tasks : pc[t] \notin {"none", "set"}

(* When the access point stays, the station gets online and stays there,   *)
(* whatever scans were run; and s_connected settles: set when it stays, as *)
(* far as MimiClaw is concerned, and not set when it is gone; again unless *)
(* a scan ran out of memory.                                               *)
ConnectionSettles ==
    /\ <>[]ap => <>[](\/ boot = "no_wifi" \/ ranOut
                      \/ driver = "online" /\ (device = "mimi" => connected))
    /\ <>[](~ap) => <>[](device = "mimi" /\ ~ranOut => ~connected)
=============================================================================

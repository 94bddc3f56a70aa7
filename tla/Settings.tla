------------------------------ MODULE Settings ------------------------------
(***************************************************************************)
(* The settings of the model and the proxy: their copies in RAM            *)
(* (llm/llm_proxy.c, proxy/http_proxy.c), in flash (NVS) and in the build, *)
(* and the console commands that change them (cli/serial_cli.c).  A        *)
(* command writes to flash and then to RAM, one variable after another,    *)
(* while other tasks read RAM without a lock; the device may be reset      *)
(* between any two writes.  The model's name and the search and Telegram   *)
(* keys are kept in the same way as the API key and are left out.          *)
(***************************************************************************)
EXTENDS Naturals, Sequences

CONSTANTS Keys,         \* API keys given to set_api_key
          LongKeys,     \* those of 128 characters or more
          Hosts, Ports, \* what is given to set_proxy
          LongHosts,    \* hosts of 64 characters or more
          Build,        \* the settings compiled in
          MaxCommands   \* bound: console commands

Providers == {"anthropic", "openai"}
None      == ""       \* no string, in RAM, in flash or in the build
Torn      == "torn"   \* a string that another task reads while it is copied
CutKey    == "cut"    \* the first 127 characters of a long key
CutHost   == "cut"    \* the first 63 characters of a long host

PortNumbers == 0..65535   \* uint16_t

Settings == [provider : Providers \cup {None, Torn},
             api_key  : Keys \cup {None, Torn, CutKey, Build.api_key},
             host     : Hosts \cup {None, Torn, CutHost, Build.host},
             port     : PortNumbers]

ASSUME BuildAssumption ==
    Build \in [provider : Providers, api_key : STRING, host : STRING, port : PortNumbers]

ASSUME SettingsAssumption ==
    /\ Build.host = None => Build.port = 0    \* they are read together
    /\ LongKeys \subseteq Keys \ {None} /\ Keys \cap {Torn, CutKey} = {}
    /\ LongHosts \subseteq Hosts \ {None} /\ Hosts \cap {Torn, CutHost} = {}
    /\ Ports \subseteq Nat /\ MaxCommands \in Nat

VARIABLES nvs,       \* the flash; None or 0 when there is no entry, or an empty one
          ram,       \* s_provider, s_api_key, s_proxy_host, s_proxy_port
          todo,      \* the writes left to the command at work
          reverted,  \* history: config_reset was given since the last reset
          commands   \* the number of commands so far

settingsVars == <<nvs, ram, todo, reverted, commands>>

Erased == [provider |-> None, api_key |-> None, host |-> None, port |-> 0]

(* The entry of flash for k does not fit the buffer it is read into.       *)
TooLong(k) == \/ k = "api_key" /\ nvs[k] \in LongKeys
              \/ k = "host" /\ nvs[k] \in LongHosts
Kept(k)    == IF nvs[k] = None \/ TooLong(k) THEN Build[k] ELSE nvs[k]

(* Fault: the port of the proxy comes from the build. *)
LoadedHostOnly == [provider |-> Kept("provider"), api_key |-> Kept("api_key"),
                   host |-> Kept("host"), port |-> Build.port]

(* llm_proxy_init and http_proxy_init: flash before build, if it has a     *)
(* value that can be read; a port counts only with its host.               *)
Loaded == [provider |-> Kept("provider"), api_key |-> Kept("api_key"), host |-> Kept("host"),
           port |-> IF nvs.host = None \/ TooLong("host") \/ nvs.port = 0
                    THEN Build.port ELSE nvs.port]

SettingsInit ==
    /\ nvs = Erased /\ ram = Build
    /\ todo = <<>> /\ reverted = FALSE /\ commands = 0

----------------------------------------------------------------------------
(* The commands.  A string is copied to RAM byte by byte, unless it is     *)
(* empty or the one that is there already.                                 *)

Flash(k, v) == <<[to |-> "nvs", key |-> k, val |-> v]>>
Store(k, v) == <<[to |-> "ram", key |-> k, val |-> v]>>
Copy(k, v)  == IF v \in {None, ram[k]} THEN Store(k, v) ELSE Store(k, Torn) \o Store(k, v)

Kept127(key) == IF key \in LongKeys THEN CutKey ELSE key
Kept63(h)    == IF h \in LongHosts THEN CutHost ELSE h

SetProvider(p) == Flash("provider", p) \o Copy("provider", p)
SetApiKey(key) == Flash("api_key", key) \o Copy("api_key", Kept127(key))

(* The port is an int on the command line and a uint16_t from then on.     *)
SetProxy(h, p) == LET port == p % 65536 IN
    Flash("host", h) \o Flash("port", port) \o Copy("host", Kept63(h)) \o Store("port", port)
ClearProxy ==
    Flash("host", None) \o Flash("port", 0) \o Store("host", None) \o Store("port", 0)

(* What runs is left alone until the next reset. *)
ConfigReset ==
    Flash("provider", None) \o Flash("api_key", None) \o Flash("host", None) \o Flash("port", 0)

Command ==
    /\ todo = <<>> /\ commands < MaxCommands /\ commands' = commands + 1
    /\ \/ /\ \/ \E p \in Providers : todo' = SetProvider(p)
             \/ \E key \in Keys : todo' = SetApiKey(key)
             \/ \E h \in Hosts, p \in Ports : todo' = SetProxy(h, p)
             \/ todo' = ClearProxy
          /\ UNCHANGED reverted
       \/ todo' = ConfigReset /\ reverted' = TRUE
    /\ UNCHANGED <<nvs, ram>>

Write ==
    /\ todo # <<>> /\ todo' = Tail(todo)
    /\ LET w == Head(todo) IN
           IF w.to = "nvs" THEN nvs' = [nvs EXCEPT ![w.key] = w.val] /\ UNCHANGED ram
                           ELSE ram' = [ram EXCEPT ![w.key] = w.val] /\ UNCHANGED nvs
    /\ UNCHANGED <<reverted, commands>>

(* The restart command, or any other reset. *)
LoadSettings ==
    /\ ram' = Loaded /\ todo' = <<>> /\ reverted' = FALSE
    /\ UNCHANGED <<nvs, commands>>

----------------------------------------------------------------------------
(* Properties *)

SettingsTypeOK ==
    /\ nvs \in [provider : Providers \cup {None}, api_key : Keys \cup {None},
                host : Hosts \cup {None}, port : PortNumbers]
    /\ ram \in Settings
    /\ reverted \in BOOLEAN /\ commands \in 0..MaxCommands

(* Between two commands, a reset would change a setting only if            *)
(* config_reset was given; if the setting is empty (a cleared proxy gives  *)
(* way to the build's), or a port that is a multiple of 65536; or if the   *)
(* key, or the proxy's host, is too long to be read back.                  *)
RestartIsTransparent ==
    todo = <<>> /\ ~reverted =>
        /\ ram.provider = Loaded.provider
        /\ ram.api_key \in {Loaded.api_key, None, CutKey}
        /\ \/ ram.host \in {None, CutHost}
           \/ ram.host = Loaded.host /\ ram.port \in {Loaded.port, 0}
=============================================================================

------------------------------- MODULE Gateway -------------------------------
(***************************************************************************)
(* The gateway's configuration and its MQTT client: app_main.c,            *)
(* config_store.c, app_mqtt.c and the connected bit of wifi_manager.c.     *)
(*                                                                         *)
(* Three tasks share s_cfg and the client without a lock: the console task *)
(* runs the commands, the status task re-arms the client, the main task    *)
(* applies the configuration after a start.  Their steps interleave freely *)
(* at the client.  Power can go at any moment; so can the device, wherever *)
(* the code aborts or uses a client that another task has destroyed.       *)
(*                                                                         *)
(* A key of the configuration stands for several where these are written   *)
(* in a row: "broker" for mqtt_host, mqtt_port, mqtt_user and mqtt_pass.   *)
(* wifi_configured says no more than that there is an SSID.                *)
(***************************************************************************)
EXTENDS Integers, Sequences, FiniteSets

CONSTANTS
  Networks, Brokers,  \* what can be configured
  Clients,            \* the MQTT clients that can exist at a time: a bound
  Empty, None

ASSUME GatewayAssumption ==
  Empty \notin Networks \cup Brokers /\ None \notin Clients \cup Brokers \cup {Empty}

Task == {"console", "status", "main"}

\* The order in which config_store_save writes the keys.
Order  == <<"ssid", "pass", "en", "broker">>
Key    == {"ssid", "pass", "en", "broker"}
Config == [ssid : Networks \cup {Empty}, pass : Networks \cup {Empty},
           en : BOOLEAN, broker : Brokers \cup {Empty}]
Default == [ssid |-> Empty, pass |-> Empty, en |-> FALSE, broker |-> Empty]

VARIABLES
  on,       \* the device runs
  cfg,      \* s_cfg of app_main.c
  nvs,      \* what is stored; a key that is absent reads as its default
  promised, \* history: what each key may hold, after the commands acknowledged
  pc,       \* where each task is
  key,      \* console: the key to be saved next, Len(Order) + 1 if all are, 0 after an error
  bit,      \* WIFI_CONNECTED_BIT
  client,   \* s_client
  mqtt,     \* s_state of app_mqtt.c
  uses,     \* the broker of every client that exists, None for the others
  running,  \* the clients that are started
  met       \* history: a command has met another task at the client, since the start

store == <<nvs, promised>>
link  == <<client, mqtt, uses, running>>
vars  == <<on, cfg, store, pc, key, bit, link, met>>

AtRest == [t \in Task |-> "idle"]

Init ==
  /\ on = FALSE /\ cfg = Default /\ nvs = Default /\ promised = [k \in Key |-> {Default[k]}]
  /\ pc = AtRest /\ key = 0 /\ bit = FALSE
  /\ client = None /\ mqtt = "IDLE" /\ uses = [c \in Clients |-> None] /\ running = {}
  /\ met = FALSE

\* The positions in which a task is about to change the client.
AtClient ==
  {"guard", "stop", "destroy", "reset", "init", "start", "stop_only", "destroy_only", "reset_only"}

\* Task t goes on to a position.
Goto(t, at) ==
  /\ pc' = [pc EXCEPT ![t] = at]
  /\ met' = \/ met
            \/ /\ at \in AtClient
               /\ \E u \in Task \ {t} : pc[u] \in AtClient /\ "console" \in {t, u}

At(t, at) == on /\ pc[t] = at

\* Where a task is when it is done with the client.
Done(t) == IF t = "console" THEN "answer" ELSE "idle"

-----------------------------------------------------------------------------
(* Start and stop of the device.                                             *)

Restart ==
  /\ on' = FALSE /\ cfg' = Default /\ pc' = AtRest /\ key' = 0 /\ bit' = FALSE
  /\ client' = None /\ mqtt' = "IDLE" /\ uses' = [c \in Clients |-> None] /\ running' = {}
  /\ met' = FALSE

\* Power is lost, or the code aborts, or REBOOT.
Crash == on /\ Restart /\ UNCHANGED store

\* app_main up to apply_runtime_config: config_store_load.  What a start has found is settled.
Boot ==
  /\ ~on /\ on' = TRUE
  /\ cfg' = nvs /\ promised' = [k \in Key |-> {nvs[k]}]
  /\ pc' = [pc EXCEPT !["main"] = "apply"]
  /\ UNCHANGED <<nvs, key, bit, link, met>>

\* apply_runtime_config, as far as the client.
ApplyRuntimeConfig ==
  /\ At("main", "apply")
  /\ Goto("main", IF ~cfg.en THEN "stop_only" ELSE IF bit THEN "guard" ELSE "idle")
  /\ UNCHANGED <<on, cfg, store, key, bit, link>>

-----------------------------------------------------------------------------
(* The commands of the console.                                              *)

\* CLEAR_WIFI is SET_WIFI of an empty network.
Commands ==
  [op : {"SET_WIFI"}, value : Networks \cup {Empty}] \cup [op : {"SET_MQTT"}, value : Brokers \cup {Empty}]
    \cup [op : {"MQTT_ENABLE", "MQTT_DISABLE"}]

\* What a command makes of the configuration.
Edited(c) ==
  CASE c.op = "SET_WIFI"     -> [cfg EXCEPT !.ssid = c.value, !.pass = c.value]
    [] c.op = "SET_MQTT"     -> [cfg EXCEPT !.broker = c.value]
    [] c.op = "MQTT_ENABLE"  -> [cfg EXCEPT !.en = TRUE]
    [] c.op = "MQTT_DISABLE" -> [cfg EXCEPT !.en = FALSE]

\* A task that saves is at the name of its command.
Saving == {"SET_WIFI", "SET_MQTT", "MQTT_ENABLE", "MQTT_DISABLE"}

\* handle_command, up to config_store_save.
Command(c) ==
  /\ At("console", "idle")
  /\ cfg' = Edited(c)
  /\ promised' = [k \in Key |-> promised[k] \cup {cfg'[k]}]
  /\ key' = 1 /\ Goto("console", c.op)
  /\ UNCHANGED <<on, nvs, bit, link>>

\* (mutated: the last key is forgotten)
SaveButLast(n) == IF n = Len(Order) THEN nvs ELSE [nvs EXCEPT ![Order[n]] = cfg[Order[n]]]

\* nvs_set_*: the key is on the flash at once.
Saved(n) == [nvs EXCEPT ![Order[n]] = cfg[Order[n]]]

\* One key of config_store_save.  An error skips the others, and nobody looks at it.
SaveKey ==
  /\ on /\ pc["console"] \in Saving /\ key \in 1 .. Len(Order)
  /\ \/ nvs' = Saved(key) /\ key' = key + 1
     \/ nvs' = nvs /\ key' = 0
  /\ UNCHANGED <<on, cfg, promised, pc, bit, link, met>>

\* The rest of the command.  The Wi-Fi driver gets the new network here; the connected
\* bit follows from its events.
Act ==
  /\ on /\ pc["console"] \in Saving /\ key \notin 1 .. Len(Order)
  /\ LET op == pc["console"] IN
     Goto("console",
       IF op = "MQTT_DISABLE" THEN "stop_only"
       ELSE IF bit /\ (op = "MQTT_ENABLE" \/ (op = "SET_MQTT" /\ cfg.en)) THEN "guard"
       ELSE "answer")
  /\ UNCHANGED <<on, cfg, store, key, bit, link>>

\* RSP:OK
Answer ==
  /\ At("console", "answer")
  /\ promised' = IF key = Len(Order) + 1 THEN [k \in Key |-> {cfg[k]}] ELSE promised
  /\ key' = 0 /\ Goto("console", "idle")
  /\ UNCHANGED <<on, cfg, nvs, bit, link>>

\* FACTORY_RESET: erased, unless that fails, then stopped and restarted.
FactoryReset ==
  /\ At("console", "idle")
  /\ \/ nvs' = Default /\ key' = Len(Order) + 1
     \/ nvs' = nvs /\ key' = 0
  /\ cfg' = Default
  /\ promised' = [k \in Key |-> promised[k] \cup {Default[k]}]
  /\ Goto("console", "stop_and_restart")
  /\ UNCHANGED <<on, bit, link>>

FinishReset ==
  /\ At("console", "stop_and_restart")
  /\ promised' = IF key = Len(Order) + 1 THEN [k \in Key |-> {Default[k]}] ELSE promised
  /\ UNCHANGED nvs
  /\ Restart

-----------------------------------------------------------------------------
(* The MQTT client.  app_mqtt_apply_config is guard, stop, destroy, reset,   *)
(* init and start; app_mqtt_stop is stop_only, destroy_only and reset_only.  *)

\* (mutated: the old client is not stopped)
GuardNoStop == IF cfg.en /\ cfg.broker # Empty THEN "init" ELSE "stop_only"

GuardNext == IF cfg.en /\ cfg.broker # Empty THEN "stop" ELSE "stop_only"

Guard(t) ==
  /\ At(t, "guard")
  /\ Goto(t, GuardNext)
  /\ UNCHANGED <<on, cfg, store, key, bit, link>>

\* if (s_client): esp_mqtt_client_stop
StopClient(t, at) ==
  /\ at \in {"stop", "stop_only"} /\ At(t, at) /\ client # None
  /\ running' = running \ {client}
  /\ Goto(t, IF at = "stop" THEN "destroy" ELSE "destroy_only")
  /\ UNCHANGED <<on, cfg, store, key, bit, client, mqtt, uses>>

\* Where another task was quicker, s_client is NULL here, or a client that is gone: harmless
\* or the end (Crash).
DestroyClient(t, at) ==
  /\ at \in {"destroy", "destroy_only"} /\ At(t, at)
  /\ uses' = IF client = None THEN uses ELSE [uses EXCEPT ![client] = None]
  /\ running' = running \ {client}
  /\ Goto(t, IF at = "destroy" THEN "reset" ELSE "reset_only")
  /\ UNCHANGED <<on, cfg, store, key, bit, client, mqtt>>

\* s_client = NULL, whatever it is by now, and s_state, in one step; at once if there is no
\* client to stop.
ResetState(t, at) ==
  /\ At(t, at)
  /\ at \in {"reset", "reset_only"} \/ (at \in {"stop", "stop_only"} /\ client = None)
  /\ client' = None /\ mqtt' = "IDLE"
  /\ Goto(t, IF at \in {"reset", "stop"} THEN "init" ELSE Done(t))
  /\ UNCHANGED <<on, cfg, store, key, bit, uses, running>>

Exist == {c \in Clients : uses[c] # None}

\* The configuration is read once more for the client's address.  A client that s_client
\* held is lost here, and goes on.  Nobody looks whether there is a client: for an address
\* that does not parse, or without memory, it is NULL.
InitClient(t) ==
  /\ At(t, "init")
  /\ \/ client' = None /\ UNCHANGED uses
     \/ /\ Exist # Clients /\ client' = CHOOSE c \in Clients : c \notin Exist
        /\ uses' = [uses EXCEPT ![client'] = cfg.broker]
  /\ Goto(t, "start")
  /\ UNCHANGED <<on, cfg, store, key, bit, mqtt, running>>

\* Nor whether it starts, which one that is NULL or gone does not.
StartClient(t) ==
  /\ At(t, "start")
  /\ mqtt' = "CONNECTING"
  /\ running' \in {running, running \cup ({client} \cap Exist)}
  /\ Goto(t, Done(t))
  /\ UNCHANGED <<on, cfg, store, key, bit, client, uses>>

\* mqtt_event_handler: the events of any client that runs.
ClientConnected ==
  /\ on /\ running # {} /\ bit
  /\ mqtt' = "CONNECTED"
  /\ UNCHANGED <<on, cfg, store, pc, key, bit, client, uses, running, met>>

ClientDisconnected ==
  /\ on /\ running # {}
  /\ mqtt' = "DISCONNECTED"
  /\ UNCHANGED <<on, cfg, store, pc, key, bit, client, uses, running, met>>

\* (mutated: a client that is disconnected is re-armed, not one that is idle)
RearmDisconnected == mqtt = "DISCONNECTED"

Rearm == mqtt = "IDLE"

\* status_task, created at the end of app_main.
CheckStatus ==
  /\ At("status", "idle") /\ pc["main"] = "idle"
  /\ bit /\ cfg.en /\ Rearm
  /\ Goto("status", "guard")
  /\ UNCHANGED <<on, cfg, store, key, bit, link>>

\* wifi_event_handler: the network is joined, and lost and looked for again.
GotIp ==
  /\ on /\ ~bit /\ bit' = TRUE
  /\ UNCHANGED <<on, cfg, store, pc, key, link, met>>

Disconnected ==
  /\ on /\ bit /\ bit' = FALSE
  /\ UNCHANGED <<on, cfg, store, pc, key, link, met>>

-----------------------------------------------------------------------------

AtTheClient(t) ==
  \/ Guard(t) \/ InitClient(t) \/ StartClient(t)
  \/ \E at \in AtClient : StopClient(t, at) \/ DestroyClient(t, at) \/ ResetState(t, at)

Console == SaveKey \/ Act \/ Answer \/ FinishReset \/ AtTheClient("console")
Status  == CheckStatus \/ AtTheClient("status")
Main    == ApplyRuntimeConfig \/ AtTheClient("main")

Next ==
  \/ Console \/ Status \/ Main
  \/ (\E c \in Commands : Command(c)) \/ FactoryReset
  \/ ClientConnected \/ ClientDisconnected \/ GotIp \/ Disconnected
  \/ Crash \/ Boot

\* The scheduler runs every task that can go on; the status task comes round every five
\* seconds.
Fairness == WF_vars(Console) /\ WF_vars(Status) /\ WF_vars(Main)

Spec == Init /\ [][Next]_vars /\ Fairness

-----------------------------------------------------------------------------

TypeOK ==
  /\ on \in BOOLEAN /\ cfg \in Config /\ nvs \in Config
  /\ promised \in [Key -> SUBSET (Networks \cup Brokers \cup {Empty} \cup BOOLEAN)]
  /\ pc \in [Task -> AtClient \cup Saving \cup {"idle", "apply", "answer", "stop_and_restart"}]
  /\ key \in 0 .. Len(Order) + 1 /\ bit \in BOOLEAN
  /\ client \in Clients \cup {None} /\ mqtt \in {"IDLE", "CONNECTING", "CONNECTED", "DISCONNECTED"}
  /\ uses \in [Clients -> Brokers \cup {Empty, None}] /\ running \in SUBSET Clients
  /\ met \in BOOLEAN

\* What RSP:OK has acknowledged is what the next start loads, wherever the power goes: every
\* key on the flash holds the value of the last command answered with all keys written, or
\* of one that was begun since and not finished (config_store.c:83, app_main.c:149).
AckedSurvives == \A k \in Key : nvs[k] \in promised[k]

\* However the tasks meet, what runs exists, and where they leave s_client, it points to a
\* client that exists or to none.  As long as no command has met another task at the client
\* (the main and the status task never meet by themselves), the client a task leaves behind
\* is the only one there is, s_state is IDLE only if there is none and CONNECTING at most if
\* none was obtained, and nothing is left once MQTT_DISABLE is answered (app_mqtt.c:216, 225).
\* After a meeting a client may be lost that nobody stops any more: there is no lock.
Quiet == on /\ \A t \in Task : pc[t] \notin AtClient
OneClient ==
  /\ running \subseteq Exist
  /\ Quiet => client \in Exist \cup {None}
  /\ Quiet /\ ~met =>
       /\ Exist \subseteq {client}
       /\ mqtt = "IDLE" => client = None
       /\ client = None => mqtt \in {"IDLE", "CONNECTING"}
       /\ pc["console"] = "idle" /\ pc["main"] = "idle" /\ ~cfg.en => client = None /\ mqtt = "IDLE"

\* "This periodic re-arm keeps MQTT alive across transient Wi-Fi changes" (app_main.c:264):
\* with MQTT enabled, a broker configured and Wi-Fi there, a client runs in the end, however
\* the tasks meet; or one was tried and could not be had or started, which nobody sees: the
\* state is CONNECTING, and is not re-armed (app_mqtt.c:250, app_main.c:266).
Unserved  == on /\ bit /\ cfg.en /\ cfg.broker # Empty /\ running = {}
Abandoned == mqtt = "CONNECTING" /\ running = {}
Rearms == Unserved ~> ~Unserved \/ Abandoned

\* "without needing a reboot or a manual reconnect from the dashboard" (app_main.c:265): in
\* the end, though no command ever met another task at the client, the client that runs is one
\* for the broker that is configured.
Misserved ==
  /\ on /\ bit /\ cfg.en /\ cfg.broker # Empty /\ ~met
  /\ running # {} /\ \A c \in running : uses[c] # cfg.broker
SavedBrokerIsUsed == Misserved ~> ~Misserved
=============================================================================

---------------------------- MODULE GatewayProofs ----------------------------
(***************************************************************************)
(* Proofs about Gateway, for any networks, brokers and clients: what the   *)
(* answers promise is on the flash, and the client in use exists, however  *)
(* the tasks interleave; and two clients take a command that meets another *)
(* task at the client.                                                     *)
(***************************************************************************)
EXTENDS Gateway, TLAPS

USE DEF vars, store, link, Task

Label == AtClient \cup Saving \cup {"idle", "apply", "answer", "stop_and_restart"}

-----------------------------------------------------------------------------
(* What is saved.                                                            *)

StoreTypes ==
  /\ on \in BOOLEAN /\ cfg \in Config /\ nvs \in Config
  /\ promised \in [Key -> SUBSET (Networks \cup Brokers \cup {Empty} \cup BOOLEAN)]
  /\ pc \in [Task -> Label] /\ key \in 0 .. 5

\* The keys saved so far hold the configuration, every promise allows it while the device
\* runs, and a reset, which needs the device, has left nothing of it.
SavedSoFar == \A i \in 1 .. 4 : i < key => nvs[Order[i]] = cfg[Order[i]]
CfgPromised == on => \A k \in Key : cfg[k] \in promised[k]
ResetIsDefault == pc["console"] = "stop_and_restart" => on /\ cfg = Default

StoreInv == StoreTypes /\ AckedSurvives /\ SavedSoFar /\ CfgPromised /\ ResetIsDefault

LEMMA OrderOfKeys == Len(Order) = 4 /\ {Order[i] : i \in 1 .. 4} = Key /\ \A i \in 1 .. 4 : Order[i] \in Key
BY DEF Order, Key

LEMMA KeysOfConfig ==
  ASSUME NEW c \in Config, NEW d \in Config, \A k \in Key : c[k] = d[k]
  PROVE  c = d
BY DEF Config, Key

LEMMA ValuesOfConfig ==
  ASSUME NEW c \in Config, NEW k \in Key
  PROVE  c[k] \in Networks \cup Brokers \cup {Empty} \cup BOOLEAN
BY DEF Config, Key

LEMMA DefaultConfig == Default \in Config
BY DEF Default, Config

\* A label of the client belongs to no command and to no reset.
LEMMA GotoLabel ==
  ASSUME StoreTypes, NEW t \in Task, NEW at \in Label, Goto(t, at)
  PROVE  /\ pc' \in [Task -> Label] /\ pc'[t] = at
         /\ \A u \in Task \ {t} : pc'[u] = pc[u]
BY DEF Goto, StoreTypes

LEMMA ClientLabels ==
  /\ AtClient \subseteq Label /\ "stop_and_restart" \notin AtClient
  /\ \A t \in Task : Done(t) \in Label \ {"stop_and_restart"}
BY DEF AtClient, Label, Done

\* The steps that save nothing and promise nothing.
LEMMA StoreStutter ==
  ASSUME StoreInv, UNCHANGED <<on, cfg, nvs, promised, key>>, pc' \in [Task -> Label],
         pc'["console"] = "stop_and_restart" => pc["console"] = "stop_and_restart"
  PROVE  StoreInv'
BY DEF StoreInv, StoreTypes, AckedSurvives, SavedSoFar, CfgPromised, ResetIsDefault

LEMMA ClientStore ==
  ASSUME StoreInv, NEW t \in Task, AtTheClient(t)
  PROVE  StoreInv'
<1>1. UNCHANGED <<on, cfg, nvs, promised, key>>
  BY DEF AtTheClient, Guard, StopClient, DestroyClient, ResetState, InitClient, StartClient
<1>2. PICK at \in Label \ {"stop_and_restart"} : Goto(t, at)
  <2>1. CASE Guard(t)
    <3>1. GuardNext \in Label \ {"stop_and_restart"}
      BY DEF GuardNext, Label, AtClient
    <3>. QED  BY <2>1, <3>1 DEF Guard
  <2>2. CASE InitClient(t)
    BY <2>2, ClientLabels DEF InitClient, AtClient
  <2>3. CASE StartClient(t)
    BY <2>3, ClientLabels DEF StartClient
  <2>4. CASE \E a \in AtClient : StopClient(t, a) \/ DestroyClient(t, a) \/ ResetState(t, a)
    <3>1. PICK a \in AtClient : StopClient(t, a) \/ DestroyClient(t, a) \/ ResetState(t, a)
      BY <2>4
    <3>2. {"destroy", "destroy_only", "reset", "reset_only", "init", Done(t)} \subseteq Label \ {"stop_and_restart"}
      BY ClientLabels DEF AtClient
    <3>3. CASE StopClient(t, a)
      BY <3>2, <3>3 DEF StopClient
    <3>4. CASE DestroyClient(t, a)
      BY <3>2, <3>4 DEF DestroyClient
    <3>5. CASE ResetState(t, a)
      BY <3>2, <3>5 DEF ResetState
    <3>. QED  BY <3>1, <3>3, <3>4, <3>5
  <2>. QED  BY <2>1, <2>2, <2>3, <2>4 DEF AtTheClient
<1>3. pc' \in [Task -> Label] /\ (pc'["console"] = "stop_and_restart" => pc["console"] = "stop_and_restart")
  BY <1>2, GotoLabel DEF StoreInv
<1>. QED  BY <1>1, <1>3, StoreStutter

\* A command, or a reset, changes the configuration and promises what it may come to.
LEMMA EditStore ==
  ASSUME StoreInv, cfg' \in Config, UNCHANGED on,
         promised' = [k \in Key |-> promised[k] \cup {cfg'[k]}],
         pc' \in [Task -> Label], pc'["console"] = "stop_and_restart" => on /\ cfg' = Default,
         \/ nvs' = nvs /\ key' \in {0, 1}
         \/ nvs' = cfg' /\ key' = 5
  PROVE  StoreInv'
<1>1. promised' \in [Key -> SUBSET (Networks \cup Brokers \cup {Empty} \cup BOOLEAN)]
  BY ValuesOfConfig DEF StoreInv, StoreTypes
<1>2. \A k \in Key : promised'[k] = promised[k] \cup {cfg'[k]}
  OBVIOUS
<1>3. nvs' \in Config /\ \A k \in Key : nvs'[k] \in promised'[k]
  BY <1>2 DEF StoreInv, StoreTypes, AckedSurvives
<1>4. SavedSoFar'
  BY OrderOfKeys DEF SavedSoFar
<1>5. StoreTypes'
  BY <1>1, <1>3 DEF StoreInv, StoreTypes
<1>. QED  BY <1>2, <1>3, <1>4, <1>5 DEF StoreInv, AckedSurvives, CfgPromised, ResetIsDefault

LEMMA CommandStore ==
  ASSUME StoreInv, NEW c \in Commands, Command(c)
  PROVE  StoreInv'
<1>1. Edited(c) \in Config
  <2> USE DEF StoreInv, StoreTypes, Config
  <2>1. CASE c \in [op : {"SET_WIFI"}, value : Networks \cup {Empty}]
    BY <2>1 DEF Edited
  <2>2. CASE c \in [op : {"SET_MQTT"}, value : Brokers \cup {Empty}]
    BY <2>2 DEF Edited
  <2>3. CASE c \in [op : {"MQTT_ENABLE", "MQTT_DISABLE"}]
    BY <2>3 DEF Edited
  <2>. QED  BY <2>1, <2>2, <2>3 DEF Commands
<1>2. c.op \in Saving
  BY DEF Commands, Saving
<1>3. c.op \in Label /\ c.op # "stop_and_restart"
  BY <1>2 DEF Label, Saving
<1>4. pc' \in [Task -> Label] /\ pc'["console"] # "stop_and_restart"
  BY <1>3, GotoLabel DEF Command, StoreInv
<1>. QED  BY <1>1, <1>4, EditStore DEF Command

LEMMA SaveStore ==
  ASSUME StoreInv, SaveKey
  PROVE  StoreInv'
<1>1. CASE nvs' = nvs /\ key' = 0
  BY <1>1 DEF SaveKey, StoreInv, StoreTypes, AckedSurvives, SavedSoFar, CfgPromised, ResetIsDefault
<1>2. CASE nvs' = Saved(key) /\ key' = key + 1
  <2>1. key \in 1 .. 4 /\ Order[key] \in Key
    BY OrderOfKeys DEF SaveKey
  <2>2. nvs' \in Config /\ \A k \in Key : nvs'[k] = IF k = Order[key] THEN cfg[k] ELSE nvs[k]
    BY <1>2, <2>1 DEF Saved, StoreInv, StoreTypes, Config, Key
  <2>3. UNCHANGED <<on, cfg, promised, pc>> /\ on
    BY DEF SaveKey
  <2>4. AckedSurvives'
    BY <2>2, <2>3 DEF StoreInv, AckedSurvives, CfgPromised
  <2>5. SavedSoFar'
    <3>1. ASSUME NEW i \in 1 .. 4, i < key' PROVE nvs'[Order[i]] = cfg'[Order[i]]
      <4>1. i < key \/ i = key
        BY <1>2, <2>1, <3>1
      <4>. QED  BY <2>2, <2>3, <4>1, OrderOfKeys DEF StoreInv, SavedSoFar
    <3>. QED  BY <3>1 DEF SavedSoFar
  <2>. QED
    BY <1>2, <2>1, <2>2, <2>3, <2>4, <2>5 DEF StoreInv, StoreTypes, CfgPromised, ResetIsDefault
<1>. QED  BY <1>1, <1>2 DEF SaveKey

\* All keys saved: the flash holds the configuration.
LEMMA AllSaved ==
  ASSUME StoreInv, key = Len(Order) + 1
  PROVE  nvs = cfg
<1>1. \A k \in Key : nvs[k] = cfg[k]
  BY OrderOfKeys DEF StoreInv, SavedSoFar
<1>. QED  BY <1>1, KeysOfConfig DEF StoreInv, StoreTypes

LEMMA AnswerStore ==
  ASSUME StoreInv, Answer
  PROVE  StoreInv'
<1>1. pc' \in [Task -> Label] /\ pc'["console"] = "idle"
  BY GotoLabel DEF Answer, Label, StoreInv
<1>2. UNCHANGED <<on, cfg, nvs>> /\ key' = 0
  BY DEF Answer
<1>3. /\ promised' \in [Key -> SUBSET (Networks \cup Brokers \cup {Empty} \cup BOOLEAN)]
      /\ \A k \in Key : nvs'[k] \in promised'[k]
      /\ on => \A k \in Key : cfg'[k] \in promised'[k]
  <2>1. CASE key = Len(Order) + 1
    BY <1>2, <2>1, AllSaved, ValuesOfConfig DEF Answer, StoreInv, StoreTypes
  <2>2. CASE key # Len(Order) + 1
    BY <1>2, <2>2 DEF Answer, StoreInv, StoreTypes, AckedSurvives, CfgPromised
  <2>. QED  BY <2>1, <2>2
<1>. QED
  BY <1>1, <1>2, <1>3 DEF StoreInv, StoreTypes, AckedSurvives, SavedSoFar, CfgPromised, ResetIsDefault

\* The device goes down.
LEMMA RestartStore ==
  ASSUME StoreInv, Restart, nvs' = nvs,
         \/ promised' = promised
         \/ promised' = [k \in Key |-> {nvs[k]}]
  PROVE  StoreInv'
<1>1. AtRest \in [Task -> Label] /\ AtRest["console"] = "idle"
  BY DEF AtRest, Label
<1>2. /\ promised' \in [Key -> SUBSET (Networks \cup Brokers \cup {Empty} \cup BOOLEAN)]
      /\ \A k \in Key : nvs'[k] \in promised'[k]
  BY ValuesOfConfig DEF StoreInv, StoreTypes, AckedSurvives
<1>3. on' = FALSE
  BY DEF Restart
<1>4. on' \in BOOLEAN
  BY <1>3, Zenon
<1>5. StoreTypes'
  BY <1>1, <1>2, <1>4, DefaultConfig DEF Restart, StoreInv, StoreTypes
<1>. QED
  BY <1>1, <1>2, <1>5
  DEF Restart, StoreInv, AckedSurvives, SavedSoFar, CfgPromised, ResetIsDefault

LEMMA BootStore ==
  ASSUME StoreInv, Boot
  PROVE  StoreInv'
<1>1. pc' \in [Task -> Label] /\ pc'["console"] = pc["console"]
  BY DEF Boot, StoreInv, StoreTypes, Label
<1>2. /\ promised' \in [Key -> SUBSET (Networks \cup Brokers \cup {Empty} \cup BOOLEAN)]
      /\ \A k \in Key : nvs'[k] \in promised'[k] /\ cfg'[k] \in promised'[k]
  BY ValuesOfConfig DEF Boot, StoreInv, StoreTypes
<1>3. on' = TRUE
  BY DEF Boot
<1>4. on' \in BOOLEAN
  BY <1>3, Zenon
<1>5. StoreTypes'
  BY <1>1, <1>2, <1>4 DEF Boot, StoreInv, StoreTypes
<1>6. cfg' = nvs /\ nvs' = nvs /\ key' = key
  BY DEF Boot
<1>7. SavedSoFar'
  BY <1>6 DEF SavedSoFar
<1>8. ResetIsDefault'
  BY <1>1 DEF Boot, StoreInv, ResetIsDefault
<1>. QED
  BY <1>1, <1>2, <1>5, <1>7, <1>8 DEF StoreInv, AckedSurvives, CfgPromised

LEMMA NextStore == StoreInv /\ [Next]_vars => StoreInv'
<1> SUFFICES ASSUME StoreInv, [Next]_vars PROVE StoreInv'
  OBVIOUS
<1>1. CASE UNCHANGED vars
  BY <1>1 DEF StoreInv, StoreTypes, AckedSurvives, SavedSoFar, CfgPromised, ResetIsDefault
<1>2. CASE SaveKey
  BY <1>2, SaveStore
<1>3. CASE Act
  <2>1. PICK at \in {"stop_only", "guard", "answer"} : Goto("console", at)
    BY <1>3 DEF Act
  <2>2. at \in Label /\ at # "stop_and_restart"
    BY DEF Label, AtClient
  <2>3. pc' \in [Task -> Label] /\ pc'["console"] # "stop_and_restart"
    BY <2>1, <2>2, GotoLabel DEF StoreInv
  <2>. QED  BY <1>3, <2>3, StoreStutter DEF Act
<1>4. CASE Answer
  BY <1>4, AnswerStore
<1>5. CASE FinishReset
  <2>1. key = Len(Order) + 1 => nvs = Default
    BY <1>5, AllSaved DEF FinishReset, At, StoreInv, ResetIsDefault
  <2>. QED  BY <1>5, <2>1, RestartStore DEF FinishReset
<1>6. CASE \E t \in Task : AtTheClient(t)
  BY <1>6, ClientStore
<1>7. CASE CheckStatus \/ ApplyRuntimeConfig
  <2>1. PICK t \in {"status", "main"}, at \in {"guard", "stop_only", "idle"} : Goto(t, at)
    BY <1>7 DEF CheckStatus, ApplyRuntimeConfig
  <2>2. at \in Label
    BY DEF Label, AtClient
  <2>3. pc' \in [Task -> Label] /\ pc'["console"] = pc["console"]
    BY <2>1, <2>2, GotoLabel DEF StoreInv
  <2>. QED  BY <1>7, <2>3, StoreStutter DEF CheckStatus, ApplyRuntimeConfig
<1>8. CASE \E c \in Commands : Command(c)
  BY <1>8, CommandStore
<1>9. CASE FactoryReset
  <2>1. "stop_and_restart" \in Label
    BY DEF Label
  <2>2. pc' \in [Task -> Label] /\ cfg' = Default /\ on
    BY <1>9, <2>1, GotoLabel DEF FactoryReset, At, StoreInv
  <2>3. Len(Order) + 1 = 5
    BY OrderOfKeys
  <2>. QED  BY <1>9, <2>2, <2>3, DefaultConfig, EditStore DEF FactoryReset
<1>10. CASE ClientConnected \/ ClientDisconnected \/ GotIp \/ Disconnected
  BY <1>10, StoreStutter DEF ClientConnected, ClientDisconnected, GotIp, Disconnected, StoreInv, StoreTypes
<1>11. CASE Crash
  BY <1>11, RestartStore DEF Crash
<1>12. CASE Boot
  BY <1>12, BootStore
<1>. QED
  BY <1>1, <1>2, <1>3, <1>4, <1>5, <1>6, <1>7, <1>8, <1>9, <1>10, <1>11, <1>12
  DEF Next, Console, Status, Main

LEMMA InitStore == Init => StoreInv
<1> SUFFICES ASSUME Init PROVE StoreInv
  OBVIOUS
<1>1. AtRest \in [Task -> Label] /\ AtRest["console"] = "idle"
  BY DEF AtRest, Label
<1>2. promised \in [Key -> SUBSET (Networks \cup Brokers \cup {Empty} \cup BOOLEAN)]
      /\ \A k \in Key : nvs[k] \in promised[k]
  BY DefaultConfig, ValuesOfConfig DEF Init
<1>3. on = FALSE
  BY DEF Init
<1>4. on \in BOOLEAN
  BY <1>3, Zenon
<1>5. StoreTypes
  BY <1>1, <1>2, <1>4, DefaultConfig DEF Init, StoreTypes
<1>. QED
  BY <1>1, <1>2, <1>5
  DEF Init, StoreInv, AckedSurvives, SavedSoFar, CfgPromised, ResetIsDefault

\* However the tasks interleave, and wherever the power goes or the code aborts, the flash holds
\* for every key what was answered last or is being set.
THEOREM Acknowledged == Spec => []AckedSurvives
<1>1. StoreInv => AckedSurvives
  BY DEF StoreInv
<1>. QED  BY <1>1, InitStore, NextStore, PTL DEF Spec

-----------------------------------------------------------------------------
(* The client.                                                               *)

HIDE DEF Task

ClientTypes ==
  /\ bit \in BOOLEAN /\ client \in Clients \cup {None} /\ met \in BOOLEAN
  /\ mqtt \in {"IDLE", "CONNECTING", "CONNECTED", "DISCONNECTED"}
  /\ uses \in [Clients -> Brokers \cup {Empty, None}] /\ running \in SUBSET Clients

\* What holds however the tasks meet: what runs exists, and s_client points to a client that
\* does, unless a task has destroyed it and is about to forget it.
Owned   == running \subseteq Exist
Pointed == client \in Exist \cup {None} \/ \E t \in Task : pc[t] \in {"reset", "reset_only"}

\* The status task is created when the main task is done.
MainFirst == pc["main"] # "idle" => pc["status"] = "idle"

\* The shapes the client has as long as the tasks come one at a time: left behind by a task,
\* stopped, destroyed, before init, and after it.
Tidy ==
  /\ Exist \subseteq {client}
  /\ mqtt = "IDLE" => client = None
  /\ client = None => mqtt \in {"IDLE", "CONNECTING"}
Stopped == client # None /\ Exist \subseteq {client} /\ running = {}
Emptied == Exist = {} /\ running = {}
Bare    == client = None /\ Emptied /\ mqtt = "IDLE"
Fresh   == mqtt = "IDLE" /\ Exist \subseteq {client} /\ running = {}

\* One task at a time is at the client, and its position tells the shape.
AtMostOne == \A t, u \in Task : t # u /\ pc[t] \in AtClient => pc[u] \notin AtClient

Between == {"destroy", "destroy_only", "reset", "reset_only", "init", "start"}

Shape ==
  /\ (\A t \in Task : pc[t] \notin Between) => Tidy
  /\ \A t \in Task :
       /\ pc[t] \in {"destroy", "destroy_only"} => Stopped
       /\ pc[t] \in {"reset", "reset_only"} => Emptied
       /\ pc[t] = "init" => Bare
       /\ pc[t] = "start" => Fresh

\* With MQTT disabled there is no client and none to come, unless a command is removing it.
Disabling == {"MQTT_DISABLE", "stop_only", "destroy_only", "reset_only", "stop_and_restart"}

DisabledMeansNone ==
  /\ ~cfg.en /\ pc["console"] \notin Disabling =>
       /\ client = None /\ mqtt = "IDLE"
       /\ \A t \in Task : pc[t] \notin AtClient \ {"stop_only"}
  /\ pc["console"] = "MQTT_ENABLE" => cfg.en

Lone == AtMostOne /\ Shape /\ DisabledMeansNone
Off  == ~on => pc = AtRest /\ Bare

ClientInv == ClientTypes /\ Owned /\ Pointed /\ MainFirst /\ Off /\ (~met => Lone)

LEMMA ConsoleIsTask == "console" \in Task /\ Task = {"console", "status", "main"}
BY DEF Task

LEMMA BareIsTidy == (Bare => Tidy) /\ (Bare' => Tidy')
BY DEF Bare, Emptied, Tidy

LEMMA ExistIs ==
  /\ Exist = {c \in Clients : uses[c] # None}
  /\ Exist' = {c \in Clients : uses'[c] # None}
BY DEF Exist

\* As long as none has met another, a task that goes to the client, or on at it, is alone.
Entitled(t) ==
  \/ t = "console" \/ pc[t] \in AtClient
  \/ t = "status" /\ pc["main"] = "idle"
  \/ t = "main" /\ pc["main"] # "idle"

LEMMA Alone ==
  ASSUME StoreInv, Lone, MainFirst, NEW t \in Task, Entitled(t), NEW at \in Label, Goto(t, at), ~met'
  PROVE  /\ ~met /\ pc'[t] = at
         /\ \A u \in Task \ {t} :
              pc'[u] = pc[u] /\ (at \in AtClient \/ pc[t] \in AtClient => pc[u] \notin AtClient)
         /\ AtMostOne'
<1>1. pc'[t] = at /\ \A u \in Task \ {t} : pc'[u] = pc[u]
  BY GotoLabel DEF StoreInv
<1>2. ~met /\ (at \in AtClient => \A u \in Task \ {t} : pc[u] \in AtClient => "console" \notin {t, u})
  BY DEF Goto
<1>3. pc[t] \in AtClient => \A u \in Task \ {t} : pc[u] \notin AtClient
  BY DEF Lone, AtMostOne
<1>4. at \in AtClient => \A u \in Task \ {t} : pc[u] \notin AtClient
  <2> SUFFICES ASSUME at \in AtClient, NEW u \in Task \ {t}, pc[u] \in AtClient PROVE FALSE
    OBVIOUS
  <2>1. {t, u} = {"status", "main"} /\ t # "console"
    BY <1>2, ConsoleIsTask
  <2>2. pc[u] # "idle"
    BY DEF AtClient
  <2>3. CASE pc[t] \in AtClient
    BY <1>3, <2>3
  <2>4. CASE t = "status" /\ pc["main"] = "idle"
    BY <2>1, <2>2, <2>4
  <2>5. CASE t = "main" /\ pc["main"] # "idle"
    BY <2>1, <2>2, <2>5 DEF MainFirst
  <2>. QED  BY <2>1, <2>3, <2>4, <2>5 DEF Entitled
<1>5. AtMostOne'
  BY <1>1, <1>4 DEF Lone, AtMostOne
<1>. QED  BY <1>1, <1>2, <1>3, <1>4, <1>5

\* A task goes on, and leaves the client as it is.
LEMMA Move ==
  ASSUME StoreInv, ClientInv, NEW t \in Task, Entitled(t), NEW at \in Label, Goto(t, at), ~met',
         UNCHANGED link, pc[t] \notin Between, at \notin Between
  PROVE  AtMostOne' /\ Shape'
<1>1. Lone
  BY DEF Goto, ClientInv
<1>2. /\ pc'[t] = at /\ AtMostOne'
      /\ \A u \in Task \ {t} : pc'[u] = pc[u]
  BY <1>1, Alone DEF ClientInv
<1>3. (Tidy' <=> Tidy) /\ (Stopped' <=> Stopped) /\ (Emptied' <=> Emptied) /\ (Bare' <=> Bare) /\ (Fresh' <=> Fresh)
  BY DEF Tidy, Stopped, Emptied, Bare, Fresh, Exist
<1>4. Shape'
  BY <1>1, <1>2, <1>3 DEF Shape, Lone, Between
<1>. QED  BY <1>2, <1>4

\* Where a task is at the client with MQTT disabled, and not stopping it only, a command is
\* removing it.
Serving == {"guard", "stop", "destroy", "reset", "init", "start"}

LEMMA DisabledKept ==
  ASSUME Lone, NEW t \in Task, pc[t] \in Serving \cup {"destroy_only"}, cfg' = cfg,
         \A u \in Task \ {t} : pc'[u] = pc[u],
         t = "console" => (pc'[t] = "answer" /\ pc[t] \in Serving) \/ (pc'[t] \in Serving /\ pc[t] \in Serving)
                          \/ pc'[t] \in Disabling
  PROVE  DisabledMeansNone'
<1>1. ~cfg.en => pc["console"] \in Disabling
  BY DEF Lone, DisabledMeansNone, AtClient, Serving
<1>2. t = "console" => pc["console"] \notin Disabling \/ pc'["console"] \in Disabling
  BY DEF Serving, Disabling
<1>3. t # "console" => pc'["console"] = pc["console"]
  BY ConsoleIsTask
<1>4. pc'["console"] = "MQTT_ENABLE" => pc["console"] = "MQTT_ENABLE"
  BY <1>3 DEF Serving, Disabling
<1>. QED  BY <1>1, <1>2, <1>3, <1>4 DEF Lone, DisabledMeansNone

-----------------------------------------------------------------------------
(* What holds however the tasks meet.                                        *)

LEMMA NextClientTypes == StoreInv /\ ClientTypes /\ [Next]_vars => ClientTypes'
<1> SUFFICES ASSUME StoreInv, ClientTypes, [Next]_vars PROVE ClientTypes'
  OBVIOUS
<1>. USE DEF ClientTypes
<1>1. met' \in BOOLEAN
  <2>1. ASSUME NEW t \in Task, NEW at \in Label, Goto(t, at) PROVE met' \in BOOLEAN
    BY <2>1 DEF Goto
  <2>2. CASE met' = met
    BY <2>2
  <2>3. CASE met' = FALSE
    BY <2>3, Zenon
  <2>4. CASE \E t \in Task : \E at : Goto(t, at)
    BY <2>4, Zenon DEF Goto
  <2>5. CASE UNCHANGED vars \/ SaveKey \/ Boot \/ ClientConnected \/ ClientDisconnected \/ GotIp \/ Disconnected
    BY <2>2, <2>5 DEF SaveKey, Boot, ClientConnected, ClientDisconnected, GotIp, Disconnected
  <2>6. CASE FinishReset \/ Crash
    BY <2>3, <2>6 DEF FinishReset, Crash, Restart
  <2>7. CASE Act \/ Answer \/ FactoryReset \/ CheckStatus \/ ApplyRuntimeConfig \/ \E c \in Commands : Command(c)
    BY <2>4, <2>7, ConsoleIsTask DEF Act, Answer, FactoryReset, CheckStatus, ApplyRuntimeConfig, Command
  <2>8. ASSUME NEW t \in Task, AtTheClient(t) PROVE met' \in BOOLEAN
    BY <2>4, <2>8 DEF AtTheClient, Guard, StopClient, DestroyClient, ResetState, InitClient, StartClient
  <2>. QED
    BY <2>5, <2>6, <2>7, <2>8, ConsoleIsTask DEF Next, Console, Status, Main
<1>2. CASE UNCHANGED vars
  BY <1>2
<1>3. ASSUME NEW t \in Task, AtTheClient(t) PROVE ClientTypes'
  <2>1. CASE Guard(t) \/ StartClient(t)
    BY <1>1, <2>1 DEF Guard, StartClient, Exist
  <2>2. CASE InitClient(t)
    <3>1. cfg.broker \in Brokers \cup {Empty}
      BY DEF StoreInv, StoreTypes, Config
    <3>2. client' = None \/ client' \in Clients
      BY <2>2 DEF InitClient, Exist
    <3>3. uses' \in [Clients -> Brokers \cup {Empty, None}]
      BY <2>2, <3>1 DEF InitClient
    <3>. QED  BY <1>1, <2>2, <3>2, <3>3 DEF InitClient
  <2>3. CASE \E p \in AtClient : StopClient(t, p) \/ DestroyClient(t, p) \/ ResetState(t, p)
    BY <1>1, <2>3 DEF StopClient, DestroyClient, ResetState
  <2>. QED  BY <1>3, <2>1, <2>2, <2>3 DEF AtTheClient
<1>4. CASE CheckStatus \/ ApplyRuntimeConfig \/ SaveKey \/ Act \/ Answer \/ FactoryReset
           \/ Boot \/ \E c \in Commands : Command(c)
  BY <1>1, <1>4 DEF CheckStatus, ApplyRuntimeConfig, SaveKey, Act, Answer, FactoryReset, Boot, Command
<1>5. CASE FinishReset \/ Crash
  <2>1. bit' = FALSE
    BY <1>5 DEF FinishReset, Crash, Restart
  <2>2. bit' \in BOOLEAN
    BY <2>1, Zenon
  <2>. QED  BY <1>1, <1>5, <2>2 DEF FinishReset, Crash, Restart
<1>6. CASE ClientConnected \/ ClientDisconnected \/ GotIp \/ Disconnected
  <2>1. bit' = TRUE \/ bit' = FALSE \/ bit' = bit
    BY <1>6 DEF ClientConnected, ClientDisconnected, GotIp, Disconnected
  <2>2. bit' \in BOOLEAN
    BY <2>1, Zenon
  <2>. QED  BY <1>1, <1>6, <2>2 DEF ClientConnected, ClientDisconnected, GotIp, Disconnected
<1>. QED
  BY <1>2, <1>3, <1>4, <1>5, <1>6, ConsoleIsTask DEF Next, Console, Status, Main

LEMMA NextOwned == StoreInv /\ ClientTypes /\ Owned /\ [Next]_vars => Owned'
<1> SUFFICES ASSUME StoreInv, ClientTypes, Owned, [Next]_vars PROVE Owned'
  OBVIOUS
<1>1. CASE UNCHANGED link
  BY <1>1 DEF Owned, Exist
<1>2. ASSUME NEW t \in Task, AtTheClient(t) PROVE Owned'
  <2>1. CASE Guard(t)
    BY <1>1, <2>1 DEF Guard
  <2>2. CASE StartClient(t)
    BY <2>2 DEF StartClient, Owned, Exist
  <2>3. CASE InitClient(t) /\ client' = None /\ UNCHANGED uses
    BY <2>3 DEF InitClient, Owned, Exist
  <2>4. CASE InitClient(t) /\ client' # None
    <3>1. cfg.broker # None
      BY GatewayAssumption DEF StoreInv, StoreTypes, Config
    <3>2. client' \in Clients /\ uses' = [uses EXCEPT ![client'] = cfg.broker] /\ running' = running
      BY <2>4 DEF InitClient, Exist
    <3>3. Exist \cup {client'} \subseteq Exist'
      BY <3>1, <3>2 DEF Exist, ClientTypes
    <3>. QED  BY <3>2, <3>3 DEF Owned
  <2>5. CASE InitClient(t) /\ client' = None /\ ~UNCHANGED uses
    <3>1. client' \in Clients
      BY <2>5 DEF InitClient, Exist
    <3>. QED  BY <2>5, <3>1, GatewayAssumption
  <2>6. ASSUME NEW p \in AtClient, StopClient(t, p) \/ ResetState(t, p) PROVE Owned'
    BY <2>6 DEF StopClient, ResetState, Owned, Exist
  <2>7. ASSUME NEW p \in AtClient, DestroyClient(t, p) PROVE Owned'
    <3>1. running' = running \ {client}
      BY <2>7 DEF DestroyClient
    <3>2. Exist \ {client} \subseteq Exist'
      BY <2>7 DEF DestroyClient, Exist, ClientTypes
    <3>. QED  BY <3>1, <3>2 DEF Owned
  <2>. QED  BY <1>2, <2>1, <2>2, <2>3, <2>4, <2>5, <2>6, <2>7 DEF AtTheClient
<1>3. CASE FinishReset \/ Crash
  BY <1>3 DEF FinishReset, Crash, Restart, Owned
<1>4. CASE ClientConnected \/ ClientDisconnected
  BY <1>4 DEF ClientConnected, ClientDisconnected, Owned, Exist
<1>5. CASE CheckStatus \/ ApplyRuntimeConfig \/ SaveKey \/ Act \/ Answer \/ FactoryReset
           \/ Boot \/ GotIp \/ Disconnected \/ \E c \in Commands : Command(c)
  BY <1>1, <1>5 DEF CheckStatus, ApplyRuntimeConfig, SaveKey, Act, Answer, FactoryReset, Boot, GotIp,
                    Disconnected, Command
<1>. QED
  BY <1>1, <1>2, <1>3, <1>4, <1>5, ConsoleIsTask DEF Next, Console, Status, Main

\* A step of a task that is not about to forget the client, and leaves it as it is.
LEMMA PointedKept ==
  ASSUME StoreInv, Pointed, UNCHANGED <<client, uses>>,
         NEW t \in Task, pc[t] \notin {"reset", "reset_only"}, NEW at \in Label, Goto(t, at)
  PROVE  Pointed'
<1>1. \A u \in Task \ {t} : pc'[u] = pc[u]
  BY GotoLabel DEF StoreInv
<1>. QED  BY <1>1 DEF Pointed, Exist

LEMMA NextPointed == StoreInv /\ ClientTypes /\ Off /\ Pointed /\ [Next]_vars => Pointed'
<1> SUFFICES ASSUME StoreInv, ClientTypes, Off, Pointed, [Next]_vars PROVE Pointed'
  OBVIOUS
<1>1. CASE UNCHANGED <<client, uses, pc>>
  BY <1>1 DEF Pointed, Exist
<1>2. ASSUME NEW t \in Task, AtTheClient(t) PROVE Pointed'
  <2>1. CASE Guard(t)
    <3>1. GuardNext \in Label /\ pc[t] \notin {"reset", "reset_only"} /\ UNCHANGED <<client, uses>>
      BY <2>1 DEF Guard, GuardNext, Label, AtClient, At
    <3>. QED  BY <2>1, <3>1, PointedKept DEF Guard
  <2>2. CASE StartClient(t)
    <3>1. Done(t) \in Label /\ pc[t] \notin {"reset", "reset_only"} /\ UNCHANGED <<client, uses>>
      BY <2>2, ClientLabels DEF StartClient, At
    <3>. QED  BY <2>2, <3>1, PointedKept DEF StartClient
  <2>3. CASE InitClient(t) /\ client' = None
    BY <2>3 DEF Pointed
  <2>4. CASE InitClient(t) /\ client' # None
    <3>1. cfg.broker # None
      BY GatewayAssumption DEF StoreInv, StoreTypes, Config
    <3>2. client' \in Clients /\ uses' = [uses EXCEPT ![client'] = cfg.broker]
      BY <2>4 DEF InitClient, Exist
    <3>3. client' \in Exist'
      BY <3>1, <3>2 DEF Exist, ClientTypes
    <3>. QED  BY <3>3 DEF Pointed
  <2>5. ASSUME NEW p \in AtClient, StopClient(t, p) PROVE Pointed'
    <3>1. PICK at \in {"destroy", "destroy_only"} : Goto(t, at)
      BY <2>5 DEF StopClient
    <3>2. at \in Label /\ pc[t] \notin {"reset", "reset_only"} /\ UNCHANGED <<client, uses>>
      BY <2>5 DEF StopClient, At, Label, AtClient
    <3>. QED  BY <3>1, <3>2, PointedKept
  <2>6. ASSUME NEW p \in AtClient, DestroyClient(t, p) PROVE Pointed'
    <3>1. PICK at \in {"reset", "reset_only"} : Goto(t, at)
      BY <2>6 DEF DestroyClient
    <3>2. at \in Label
      BY DEF Label, AtClient
    <3>3. pc'[t] = at
      BY <3>1, <3>2, GotoLabel DEF StoreInv
    <3>. QED  BY <3>3 DEF Pointed
  <2>7. ASSUME NEW p \in AtClient, ResetState(t, p) PROVE Pointed'
    BY <2>7 DEF ResetState, Pointed
  <2>. QED  BY <1>2, <2>1, <2>2, <2>3, <2>4, <2>5, <2>6, <2>7 DEF AtTheClient
<1>3. CASE FinishReset \/ Crash
  BY <1>3 DEF FinishReset, Crash, Restart, Pointed
<1>4. CASE SaveKey \/ ClientConnected \/ ClientDisconnected \/ GotIp \/ Disconnected \/ UNCHANGED vars
  BY <1>1, <1>4 DEF SaveKey, ClientConnected, ClientDisconnected, GotIp, Disconnected
<1>5. CASE Act \/ Answer \/ FactoryReset \/ \E c \in Commands : Command(c)
  <2>1. PICK at \in Label : Goto("console", at)
    <3>1. {"stop_only", "guard", "answer", "idle", "stop_and_restart"} \cup Saving \subseteq Label
      BY DEF Label, AtClient
    <3>2. \A c \in Commands : c.op \in Saving
      BY DEF Commands, Saving
    <3>3. CASE Act
      BY <3>1, <3>3 DEF Act
    <3>4. CASE Answer \/ FactoryReset
      BY <3>1, <3>4 DEF Answer, FactoryReset
    <3>5. CASE \E c \in Commands : Command(c)
      BY <3>1, <3>2, <3>5 DEF Command
    <3>. QED  BY <1>5, <3>3, <3>4, <3>5
  <2>2. pc["console"] \notin {"reset", "reset_only"} /\ UNCHANGED <<client, uses>>
    BY <1>5 DEF Act, Answer, FactoryReset, Command, At, Saving
  <2>. QED  BY <2>1, <2>2, PointedKept, ConsoleIsTask
<1>6. CASE CheckStatus \/ ApplyRuntimeConfig
  <2>1. PICK t \in {"status", "main"}, at \in {"guard", "stop_only", "idle"} : Goto(t, at) /\ pc[t] \in {"idle", "apply"}
    BY <1>6 DEF CheckStatus, ApplyRuntimeConfig, At
  <2>2. t \in Task /\ at \in Label /\ pc[t] \notin {"reset", "reset_only"} /\ UNCHANGED <<client, uses>>
    BY <1>6, <2>1, ConsoleIsTask DEF CheckStatus, ApplyRuntimeConfig, Label, AtClient
  <2>. QED  BY <2>1, <2>2, PointedKept
<1>7. CASE Boot
  BY <1>7 DEF Boot, Off, Bare, Pointed
<1>. QED
  BY <1>2, <1>3, <1>4, <1>5, <1>6, <1>7, ConsoleIsTask DEF Next, Console, Status, Main

\* The positions of the tasks, the device's start and stop.
LEMMA NextOff == StoreInv /\ ClientTypes /\ MainFirst /\ Off /\ [Next]_vars => MainFirst' /\ Off'
<1> SUFFICES ASSUME StoreInv, ClientTypes, MainFirst, Off, [Next]_vars PROVE MainFirst' /\ Off'
  OBVIOUS
<1>1. CASE UNCHANGED vars
  BY <1>1 DEF MainFirst, Off, Bare, Emptied, Exist
<1>2. ASSUME NEW t \in Task, on, on' = on, UNCHANGED pc \/ \E at \in Label : Goto(t, at),
             t = "status" => pc["main"] = "idle", t = "main" => pc["main"] # "idle"
      PROVE  MainFirst' /\ Off'
  <2>1. \A u \in Task \ {t} : pc'[u] = pc[u]
    BY <1>2, GotoLabel DEF StoreInv
  <2>. QED  BY <1>2, <2>1, ConsoleIsTask DEF MainFirst, Off
<1>3. ASSUME NEW t \in Task, AtTheClient(t) PROVE MainFirst' /\ Off'
  <2>1. on /\ on' = on /\ pc[t] \in AtClient
    BY <1>3 DEF AtTheClient, Guard, StopClient, DestroyClient, ResetState, InitClient, StartClient, At, AtClient
  <2>2. \E at \in Label : Goto(t, at)
    <3>1. GuardNext \in Label
      BY DEF GuardNext, Label, AtClient
    <3>2. {"destroy", "destroy_only", "reset", "reset_only", "init", "start", Done(t)} \subseteq Label
      BY ClientLabels DEF AtClient
    <3>3. CASE Guard(t) \/ InitClient(t) \/ StartClient(t)
      BY <3>1, <3>2, <3>3 DEF Guard, InitClient, StartClient
    <3>4. ASSUME NEW p \in AtClient, StopClient(t, p) \/ DestroyClient(t, p) \/ ResetState(t, p)
          PROVE  \E at \in Label : Goto(t, at)
      BY <3>2, <3>4 DEF StopClient, DestroyClient, ResetState
    <3>. QED  BY <1>3, <3>3, <3>4 DEF AtTheClient
  <2>3. pc[t] # "idle"
    BY <2>1 DEF AtClient
  <2>. QED  BY <1>2, <2>1, <2>2, <2>3 DEF MainFirst
<1>4. CASE SaveKey \/ Act \/ Answer \/ FactoryReset \/ \E c \in Commands : Command(c)
  <2>1. on /\ on' = on /\ (UNCHANGED pc \/ \E at \in Label : Goto("console", at))
    <3>1. {"stop_only", "guard", "answer", "idle", "stop_and_restart"} \cup Saving \subseteq Label
      BY DEF Label, AtClient
    <3>2. \A c \in Commands : c.op \in Saving
      BY DEF Commands, Saving
    <3>3. CASE SaveKey \/ Answer \/ FactoryReset
      BY <3>1, <3>3 DEF SaveKey, Answer, FactoryReset, At
    <3>4. CASE Act
      BY <3>1, <3>4 DEF Act
    <3>5. CASE \E c \in Commands : Command(c)
      BY <3>1, <3>2, <3>5 DEF Command, At
    <3>. QED  BY <1>4, <3>3, <3>4, <3>5
  <2>. QED  BY <1>2, <2>1, ConsoleIsTask
<1>5. CASE CheckStatus
  <2>1. Goto("status", "guard") /\ on /\ on' = on /\ pc["main"] = "idle" /\ "guard" \in Label
    BY <1>5 DEF CheckStatus, At, Label, AtClient
  <2>. QED  BY <1>2, <2>1, ConsoleIsTask
<1>6. CASE ApplyRuntimeConfig
  <2>1. PICK at \in {"stop_only", "guard", "idle"} : Goto("main", at)
    BY <1>6 DEF ApplyRuntimeConfig
  <2>2. on /\ on' = on /\ pc["main"] # "idle" /\ at \in Label
    BY <1>6 DEF ApplyRuntimeConfig, At, Label, AtClient
  <2>. QED  BY <1>2, <2>1, <2>2, ConsoleIsTask
<1>7. CASE ClientConnected \/ ClientDisconnected \/ GotIp \/ Disconnected
  BY <1>7 DEF ClientConnected, ClientDisconnected, GotIp, Disconnected, MainFirst, Off
<1>8. CASE FinishReset \/ Crash
  <2>1. pc' = AtRest /\ Bare'
    BY <1>8 DEF FinishReset, Crash, Restart, Bare, Emptied, Exist
  <2>2. pc'["main"] = "idle"
    BY <2>1, ConsoleIsTask DEF AtRest
  <2>. QED  BY <2>1, <2>2 DEF MainFirst, Off
<1>9. CASE Boot
  <2>1. on' /\ pc' = [pc EXCEPT !["main"] = "apply"] /\ pc = AtRest
    BY <1>9 DEF Boot, Off
  <2>2. pc'["status"] = "idle"
    BY <2>1, ConsoleIsTask DEF AtRest
  <2>. QED  BY <2>1, <2>2 DEF MainFirst, Off
<1>. QED
  BY <1>1, <1>3, <1>4, <1>5, <1>6, <1>7, <1>8, <1>9, ConsoleIsTask DEF Next, Console, Status, Main

-----------------------------------------------------------------------------
(* What holds as long as no command has met another task at the client.      *)

\* The task at the client, before its step and after it.
LEMMA AloneAtClient ==
  ASSUME StoreInv, ClientInv, NEW t \in Task, pc[t] \in AtClient, NEW at \in Label, Goto(t, at), ~met'
  PROVE  /\ Lone /\ AtMostOne' /\ pc'[t] = at
         /\ \A u \in Task \ {t} : pc'[u] = pc[u] /\ pc[u] \notin AtClient /\ pc'[u] \notin Between
<1>1. Lone
  BY DEF Goto, ClientInv
<1>2. Between \subseteq AtClient
  BY DEF Between, AtClient
<1>. QED  BY <1>1, <1>2, Alone DEF ClientInv, Entitled

\* The shape after a step that leaves t at a position for which it is right.
LEMMA ShapeAfter ==
  ASSUME NEW t \in Task, \A u \in Task \ {t} : pc'[u] \notin Between,
         pc'[t] \notin Between => Tidy',
         pc'[t] \in {"destroy", "destroy_only"} => Stopped', pc'[t] \in {"reset", "reset_only"} => Emptied',
         pc'[t] = "init" => Bare', pc'[t] = "start" => Fresh'
  PROVE  Shape'
BY DEF Shape, Between

LEMMA GuardClient ==
  ASSUME StoreInv, ClientInv, NEW t \in Task, Guard(t), ~met'
  PROVE  Lone'
<1>1. PICK at \in {"stop", "stop_only"} : Goto(t, at)
  BY DEF Guard, GuardNext
<1>2. at \in Label /\ at \in AtClient /\ at \notin Between /\ pc[t] = "guard" /\ UNCHANGED <<cfg, link>>
  BY DEF Guard, At, Label, AtClient, Between
<1>3. Lone /\ pc'[t] = at /\ \A u \in Task \ {t} : pc'[u] = pc[u]
  BY <1>1, <1>2, AloneAtClient DEF AtClient
<1>4. AtMostOne' /\ Shape'
  BY <1>1, <1>2, Move DEF AtClient, Between, Entitled
<1>5. DisabledMeansNone'
  BY <1>1, <1>2, <1>3, DisabledKept DEF Serving, Disabling
<1>. QED  BY <1>4, <1>5 DEF Lone

LEMMA StopsClient ==
  ASSUME StoreInv, ClientInv, NEW t \in Task, NEW p \in AtClient, StopClient(t, p), ~met'
  PROVE  Lone'
<1>1. on /\ pc[t] = p /\ p \in {"stop", "stop_only"} /\ UNCHANGED <<on, cfg, client, mqtt, uses>>
      /\ client # None /\ running' = running \ {client}
  BY DEF StopClient, At
<1>2. PICK at \in {"destroy", "destroy_only"} : Goto(t, at) /\ (at = "destroy" <=> p = "stop")
  BY <1>1 DEF StopClient
<1>3. at \in Label
  BY DEF Label, AtClient
<1>4. /\ Lone /\ AtMostOne' /\ pc'[t] = at
      /\ \A u \in Task \ {t} : pc'[u] = pc[u] /\ pc[u] \notin AtClient /\ pc'[u] \notin Between
  BY <1>1, <1>2, <1>3, AloneAtClient
<1>5. Tidy
  BY <1>1, <1>4 DEF Lone, Shape, Between, AtClient
<1>6. Exist' = Exist /\ running' = {}
  BY <1>1, <1>5 DEF Exist, Tidy, ClientInv, Owned
<1>7. Stopped'
  BY <1>1, <1>5, <1>6 DEF Tidy, Stopped
<1>8. Shape'
  BY <1>2, <1>4, <1>7, ShapeAfter DEF Between
<1>9. DisabledMeansNone'
  <2>1. CASE p = "stop"
    BY <1>1, <1>2, <1>4, <2>1, DisabledKept DEF Serving
  <2>2. CASE p = "stop_only" /\ t = "console"
    BY <1>2, <1>4, <2>2 DEF DisabledMeansNone, Disabling
  <2>3. CASE p = "stop_only" /\ t # "console"
    BY <1>1, <1>2, <1>4, <2>3, ConsoleIsTask DEF Lone, DisabledMeansNone, Disabling
  <2>. QED  BY <1>1, <2>1, <2>2, <2>3
<1>. QED  BY <1>4, <1>8, <1>9 DEF Lone

LEMMA DestroysClient ==
  ASSUME StoreInv, ClientInv, NEW t \in Task, NEW p \in AtClient, DestroyClient(t, p), ~met'
  PROVE  Lone'
<1>1. /\ on /\ pc[t] = p /\ p \in {"destroy", "destroy_only"} /\ UNCHANGED cfg
      /\ running' = running \ {client}
  BY DEF DestroyClient, At
<1>2. PICK at \in {"reset", "reset_only"} : Goto(t, at) /\ (at = "reset" <=> p = "destroy")
  BY <1>1 DEF DestroyClient
<1>3. at \in Label
  BY DEF Label, AtClient
<1>4. /\ Lone /\ AtMostOne' /\ pc'[t] = at
      /\ \A u \in Task \ {t} : pc'[u] = pc[u] /\ pc[u] \notin AtClient /\ pc'[u] \notin Between
  BY <1>1, <1>2, <1>3, AloneAtClient
<1>5. Stopped
  BY <1>1, <1>4 DEF Lone, Shape
<1>6. uses' = [uses EXCEPT ![client] = None] /\ client \in Clients
  BY <1>5 DEF DestroyClient, Stopped, ClientInv, ClientTypes
<1>7. Exist' = {}
  BY <1>5, <1>6 DEF Exist, Stopped, ClientInv, ClientTypes
<1>8. Emptied'
  BY <1>1, <1>5, <1>7 DEF Emptied, Stopped
<1>9. Shape'
  BY <1>2, <1>4, <1>8, ShapeAfter DEF Between
<1>10. DisabledMeansNone'
  <2>1. pc[t] \in Serving \cup {"destroy_only"}
    BY <1>1 DEF Serving
  <2>2. (pc'[t] \in Serving /\ pc[t] \in Serving) \/ pc'[t] \in Disabling
    BY <1>1, <1>2, <1>4 DEF Serving, Disabling
  <2>. QED  BY <1>1, <1>4, <2>1, <2>2, DisabledKept
<1>. QED  BY <1>4, <1>9, <1>10 DEF Lone

LEMMA ResetsState ==
  ASSUME StoreInv, ClientInv, NEW t \in Task, NEW p \in AtClient, ResetState(t, p), ~met'
  PROVE  Lone'
<1>1. /\ on /\ pc[t] = p /\ UNCHANGED <<cfg, uses, running>> /\ client' = None /\ mqtt' = "IDLE"
      /\ p \in {"reset", "reset_only"} \/ (p \in {"stop", "stop_only"} /\ client = None)
  BY DEF ResetState, At
<1>2. PICK at \in {"init", Done(t)} :
        /\ Goto(t, at)
        /\ p \in {"reset", "stop"} => at = "init"
        /\ p \in {"reset_only", "stop_only"} => at = Done(t)
  BY <1>1 DEF ResetState
<1>3. at \in Label /\ Done(t) \notin AtClient /\ Done(t) \in {"answer", "idle"}
  BY ClientLabels DEF Label, AtClient, Done
<1>4. /\ Lone /\ AtMostOne' /\ pc'[t] = at
      /\ \A u \in Task \ {t} : pc'[u] = pc[u] /\ pc[u] \notin AtClient /\ pc'[u] \notin Between
  BY <1>1, <1>2, <1>3, AloneAtClient
<1>5. Emptied
  <2>1. CASE p \in {"reset", "reset_only"}
    BY <1>1, <1>4, <2>1 DEF Lone, Shape
  <2>2. CASE p \in {"stop", "stop_only"} /\ client = None
    <3>1. Tidy
      BY <1>1, <1>4, <2>2 DEF Lone, Shape, Between, AtClient
    <3>2. None \notin Exist
      BY GatewayAssumption DEF Exist
    <3>. QED  BY <2>2, <3>1, <3>2 DEF Tidy, Emptied, ClientInv, Owned
  <2>. QED  BY <1>1, <2>1, <2>2
<1>6. Bare'
  BY <1>1, <1>5 DEF Emptied, Bare, Exist
<1>7. Shape'
  BY <1>2, <1>3, <1>4, <1>6, BareIsTidy, ShapeAfter DEF Between
<1>8. DisabledMeansNone'
  <2>1. CASE p \in {"reset", "stop"}
    BY <1>1, <1>2, <1>4, <2>1, DisabledKept DEF Serving
  <2>2. CASE p \in {"reset_only", "stop_only"}
    <3>1. client' = None /\ mqtt' = "IDLE"
      BY <1>6 DEF Bare, Emptied
    <3>2. \A u \in Task : pc'[u] \notin AtClient
      BY <1>2, <1>3, <1>4, <2>2
    <3>3. pc'["console"] = "MQTT_ENABLE" => pc["console"] = "MQTT_ENABLE"
      BY <1>2, <1>3, <1>4, <2>2, ConsoleIsTask
    <3>. QED  BY <1>1, <1>4, <3>1, <3>2, <3>3 DEF Lone, DisabledMeansNone
  <2>. QED  BY <1>1, <2>1, <2>2
<1>. QED  BY <1>4, <1>7, <1>8 DEF Lone

LEMMA InitsClient ==
  ASSUME StoreInv, ClientInv, NEW t \in Task, InitClient(t), ~met'
  PROVE  Lone'
<1>1. on /\ pc[t] = "init" /\ UNCHANGED <<cfg, mqtt, running>> /\ Goto(t, "start")
  BY DEF InitClient, At
<1>2. "start" \in Label /\ pc[t] \in AtClient
  BY <1>1, ClientLabels DEF AtClient
<1>3. /\ Lone /\ AtMostOne' /\ pc'[t] = "start"
      /\ \A u \in Task \ {t} : pc'[u] = pc[u] /\ pc[u] \notin AtClient /\ pc'[u] \notin Between
  BY <1>1, <1>2, AloneAtClient
<1>4. Bare
  BY <1>1, <1>3 DEF Lone, Shape
<1>5. Exist' \subseteq {client'}
  <2>1. CASE client' = None /\ UNCHANGED uses
    BY <1>4, <2>1 DEF Bare, Emptied, Exist
  <2>2. CASE uses' = [uses EXCEPT ![client'] = cfg.broker]
    BY <1>4, <2>2 DEF Bare, Emptied, Exist, ClientInv, ClientTypes
  <2>. QED  BY <2>1, <2>2 DEF InitClient
<1>6. Fresh'
  BY <1>1, <1>4, <1>5 DEF Bare, Emptied, Fresh
<1>7. Shape'
  BY <1>3, <1>6, ShapeAfter DEF Between
<1>8. DisabledMeansNone'
  BY <1>1, <1>3, DisabledKept DEF Serving
<1>. QED  BY <1>3, <1>7, <1>8 DEF Lone

LEMMA StartsClient ==
  ASSUME StoreInv, ClientInv, NEW t \in Task, StartClient(t), ~met'
  PROVE  Lone'
<1>1. on /\ pc[t] = "start" /\ UNCHANGED <<cfg, client, uses>> /\ Goto(t, Done(t)) /\ mqtt' = "CONNECTING"
  BY DEF StartClient, At
<1>2. Done(t) \in Label /\ Done(t) \in {"idle", "answer"} /\ pc[t] \in AtClient /\ (t = "console" => Done(t) = "answer")
  BY <1>1, ClientLabels DEF Done, AtClient
<1>3. /\ Lone /\ AtMostOne' /\ pc'[t] = Done(t)
      /\ \A u \in Task \ {t} : pc'[u] = pc[u] /\ pc[u] \notin AtClient /\ pc'[u] \notin Between
  BY <1>1, <1>2, AloneAtClient
<1>4. Fresh
  BY <1>1, <1>3 DEF Lone, Shape
<1>5. Tidy'
  BY <1>1, <1>4 DEF Fresh, Tidy, Exist
<1>6. Shape'
  BY <1>2, <1>3, <1>5, ShapeAfter DEF Between
<1>7. DisabledMeansNone'
  BY <1>1, <1>2, <1>3, DisabledKept DEF Serving
<1>. QED  BY <1>3, <1>6, <1>7 DEF Lone

\* The steps that are not at the client.
LEMMA EventClient ==
  ASSUME StoreInv, ClientInv, ClientConnected \/ ClientDisconnected \/ GotIp \/ Disconnected, ~met'
  PROVE  Lone'
<1>1. UNCHANGED <<cfg, pc, client, uses, running, met>>
  BY DEF ClientConnected, ClientDisconnected, GotIp, Disconnected
<1>2. mqtt' = mqtt \/ (running # {} /\ mqtt' \in {"CONNECTED", "DISCONNECTED"})
  BY DEF ClientConnected, ClientDisconnected, GotIp, Disconnected
<1>3. Exist' = Exist
  BY <1>1 DEF Exist
<1>4. Lone
  BY <1>1 DEF ClientInv
<1>5. Tidy => Tidy'
  <2> SUFFICES ASSUME Tidy PROVE Tidy'
    OBVIOUS
  <2>1. running # {} => client # None
    <3>1. running \subseteq {client}
      BY DEF Tidy, ClientInv, Owned
    <3>2. None \notin running
      BY GatewayAssumption DEF ClientInv, ClientTypes
    <3>. QED  BY <3>1, <3>2
  <2>. QED  BY <1>1, <1>2, <1>3, <2>1 DEF Tidy
<1>6. (Stopped => Stopped') /\ (Emptied => Emptied') /\ (Bare => Bare') /\ (Fresh => Fresh')
  BY <1>1, <1>2, <1>3 DEF Stopped, Emptied, Bare, Fresh
<1>7. AtMostOne'
  BY <1>1, <1>4 DEF Lone, AtMostOne
<1>8. Shape'
  BY <1>1, <1>4, <1>5, <1>6 DEF Lone, Shape
<1>9. DisabledMeansNone'
  <2>1. client = None /\ mqtt = "IDLE" /\ pc["console"] \notin Disabling /\ ~cfg.en => mqtt' = "IDLE"
    <3> SUFFICES ASSUME client = None, mqtt = "IDLE", pc["console"] \notin Disabling, ~cfg.en PROVE mqtt' = "IDLE"
      OBVIOUS
    <3>1. \A t \in Task : pc[t] \in AtClient => pc[t] = "stop_only"
      BY <1>4 DEF Lone, DisabledMeansNone
    <3>2. Tidy
      BY <1>4, <3>1 DEF Lone, Shape, Between, AtClient
    <3>3. running = {}
      BY <3>2, GatewayAssumption DEF Tidy, ClientInv, Owned, ClientTypes
    <3>. QED  BY <1>2, <3>3
  <2>. QED  BY <1>1, <1>4, <2>1 DEF Lone, DisabledMeansNone
<1>. QED  BY <1>7, <1>8, <1>9 DEF Lone

\* The console begins or answers a command.
LEMMA ConsoleClient ==
  ASSUME StoreInv, ClientInv, ~met',
         SaveKey \/ Act \/ Answer \/ FactoryReset \/ \E c \in Commands : Command(c)
  PROVE  Lone'
<1>1. UNCHANGED link
  BY DEF SaveKey, Act, Answer, FactoryReset, Command
<1>2. CASE SaveKey
  <2>1. UNCHANGED <<cfg, pc, met>>
    BY <1>2 DEF SaveKey
  <2>2. (Tidy' <=> Tidy) /\ (Stopped' <=> Stopped) /\ (Emptied' <=> Emptied) /\ (Bare' <=> Bare) /\ (Fresh' <=> Fresh)
    BY <1>1 DEF Tidy, Stopped, Emptied, Bare, Fresh, Exist
  <2>. QED  BY <1>1, <2>1, <2>2 DEF ClientInv, Lone, AtMostOne, Shape, DisabledMeansNone
<1>3. CASE ~SaveKey
  <2>1. PICK at \in Label \ Between : Goto("console", at)
    <3>1. {"stop_only", "guard", "answer", "idle", "stop_and_restart"} \cup Saving \subseteq Label \ Between
      BY DEF Label, AtClient, Between, Saving
    <3>2. CASE Act
      BY <3>1, <3>2 DEF Act
    <3>3. CASE Answer \/ FactoryReset
      BY <3>1, <3>3 DEF Answer, FactoryReset
    <3>4. CASE \E c \in Commands : Command(c)
      <4>1. \A c \in Commands : c.op \in Saving
        BY DEF Commands, Saving
      <4>. QED  BY <3>1, <3>4, <4>1 DEF Command
    <3>. QED  BY <1>3, <3>2, <3>3, <3>4
  <2>2. "console" \in Task /\ pc["console"] \notin Between
    BY <1>3, ConsoleIsTask DEF Act, Answer, FactoryReset, Command, At, Saving, Between
  <2>3. AtMostOne' /\ Shape'
    BY <1>1, <2>1, <2>2, Move DEF Entitled
  <2>4. /\ pc'["console"] = at
        /\ \A u \in Task \ {"console"} : pc'[u] = pc[u]
    BY <2>1, <2>2, GotoLabel DEF StoreInv
  <2>5. Lone
    BY <2>1 DEF Goto, ClientInv
  <2>6. DisabledMeansNone'
    <3>1. CASE Act
      <4>1. cfg' = cfg
        BY <3>1 DEF Act
      <4>2. pc["console"] = "MQTT_DISABLE" => pc'["console"] = "stop_only"
        BY <2>2, <2>4, <3>1, GotoLabel, ClientLabels DEF Act, AtClient, StoreInv
      <4>3. cfg.en \/ pc["console"] = "MQTT_DISABLE" \/ pc["console"] \notin Disabling
        BY <3>1 DEF Act, Saving, Disabling
      <4>4. ~cfg.en /\ pc["console"] # "MQTT_ENABLE" => pc'["console"] \in {"stop_only", "answer"}
        BY <2>4, <3>1, <2>2, GotoLabel, ClientLabels DEF Act, Label, AtClient, StoreInv
      <4>5. pc["console"] = "MQTT_ENABLE" => cfg.en
        BY <2>5 DEF Lone, DisabledMeansNone
      <4>. QED
        BY <1>1, <2>4, <2>5, <4>1, <4>2, <4>3, <4>4, <4>5 DEF Lone, DisabledMeansNone, Disabling, AtClient
    <3>2. CASE Answer
      <4>1. pc["console"] = "answer" /\ pc'["console"] = "idle" /\ cfg' = cfg
        BY <2>2, <3>2, GotoLabel DEF Answer, At, StoreInv, Label
      <4>. QED  BY <1>1, <2>4, <2>5, <4>1, ConsoleIsTask DEF Lone, DisabledMeansNone, Disabling, AtClient
    <3>3. CASE FactoryReset
      BY <2>2, <2>4, <3>3, GotoLabel DEF FactoryReset, DisabledMeansNone, Disabling, StoreInv, Label
    <3>4. CASE \E c \in Commands : Command(c)
      <4>1. PICK c \in Commands : Command(c)
        BY <3>4
      <4>2. pc["console"] = "idle" /\ cfg' = Edited(c) /\ Goto("console", c.op)
        BY <4>1 DEF Command, At
      <4>3. c.op \in Saving /\ c.op \in Label /\ c.op \notin AtClient
        BY DEF Commands, Saving, Label, AtClient
      <4>4. pc'["console"] = c.op
        BY <2>2, <4>2, <4>3, GotoLabel DEF StoreInv
      <4>5. /\ c.op = "MQTT_ENABLE" => cfg'.en
            /\ c.op \notin {"MQTT_ENABLE", "MQTT_DISABLE"} => cfg'.en = cfg.en
        BY <4>2, <4>3 DEF Edited, Saving, StoreInv, StoreTypes, Config
      <4>. QED
        BY <1>1, <2>4, <2>5, <4>2, <4>3, <4>4, <4>5 DEF Lone, DisabledMeansNone, Disabling
    <3>. QED  BY <1>3, <3>1, <3>2, <3>3, <3>4
  <2>. QED  BY <2>3, <2>6 DEF Lone
<1>. QED  BY <1>2, <1>3

\* All tasks at rest and nothing of a client.
LEMMA RestIsLone ==
  /\ Bare /\ (\A t \in Task : pc[t] \in {"idle", "apply"}) => Lone
  /\ Bare' /\ (\A t \in Task : pc'[t] \in {"idle", "apply"}) => Lone'
BY BareIsTidy, ConsoleIsTask DEF Lone, AtMostOne, Shape, DisabledMeansNone, AtClient, Between, Bare, Emptied, Disabling

LEMMA OffClient ==
  ASSUME Restart
  PROVE  Lone'
<1>1. \A t \in Task : pc'[t] = "idle"
  BY DEF Restart, AtRest
<1>2. Bare'
  BY DEF Restart, Bare, Emptied, Exist
<1>. QED  BY <1>1, <1>2, RestIsLone

LEMMA BootClient ==
  ASSUME ClientInv, Boot
  PROVE  Lone'
<1>1. ~on /\ UNCHANGED link /\ pc' = [pc EXCEPT !["main"] = "apply"]
  BY DEF Boot
<1>2. pc = AtRest /\ Bare
  BY <1>1 DEF ClientInv, Off
<1>3. Bare'
  BY <1>1, <1>2 DEF Bare, Emptied, Exist
<1>4. \A t \in Task : pc'[t] \in {"idle", "apply"}
  BY <1>1, <1>2 DEF AtRest, Task
<1>. QED  BY <1>3, <1>4, RestIsLone

\* The status task or the main task goes to the client.
LEMMA ComeClient ==
  ASSUME StoreInv, ClientInv, CheckStatus \/ ApplyRuntimeConfig, ~met'
  PROVE  Lone'
<1>1. PICK t \in {"status", "main"}, at \in {"guard", "stop_only", "idle"} :
        Goto(t, at) /\ pc[t] \in {"idle", "apply"} /\ (at = "guard" => cfg.en)
        /\ ((t = "status" /\ pc["main"] = "idle") \/ (t = "main" /\ pc["main"] # "idle"))
  BY DEF CheckStatus, ApplyRuntimeConfig, At
<1>2. t \in Task /\ t # "console" /\ at \in Label /\ at \notin Between /\ pc[t] \notin Between /\ UNCHANGED <<cfg, link>>
  BY <1>1, ConsoleIsTask DEF CheckStatus, ApplyRuntimeConfig, Label, AtClient, Between
<1>3. AtMostOne' /\ Shape'
  BY <1>1, <1>2, Move DEF Entitled
<1>4. pc'[t] = at /\ \A u \in Task \ {t} : pc'[u] = pc[u]
  BY <1>1, <1>2, GotoLabel DEF StoreInv
<1>5. Lone
  BY <1>1 DEF Goto, ClientInv
<1>6. DisabledMeansNone'
  BY <1>1, <1>2, <1>4, <1>5, ConsoleIsTask DEF Lone, DisabledMeansNone, AtClient
<1>. QED  BY <1>3, <1>6 DEF Lone

LEMMA NextLone == StoreInv /\ ClientInv /\ [Next]_vars => (~met' => Lone')
<1> SUFFICES ASSUME StoreInv, ClientInv, [Next]_vars, ~met' PROVE Lone'
  OBVIOUS
<1>1. CASE UNCHANGED vars
  <2>1. (Tidy' <=> Tidy) /\ (Stopped' <=> Stopped) /\ (Emptied' <=> Emptied) /\ (Bare' <=> Bare) /\ (Fresh' <=> Fresh)
    BY <1>1 DEF Tidy, Stopped, Emptied, Bare, Fresh, Exist
  <2>. QED  BY <1>1, <2>1 DEF ClientInv, Lone, AtMostOne, Shape, DisabledMeansNone
<1>2. CASE \E t \in Task : AtTheClient(t)
  BY <1>2, GuardClient, StopsClient, DestroysClient, ResetsState, InitsClient, StartsClient DEF AtTheClient
<1>3. CASE CheckStatus \/ ApplyRuntimeConfig
  BY <1>3, ComeClient
<1>4. CASE SaveKey \/ Act \/ Answer \/ FactoryReset \/ \E c \in Commands : Command(c)
  BY <1>4, ConsoleClient
<1>5. CASE FinishReset \/ Crash
  BY <1>5, OffClient DEF FinishReset, Crash
<1>6. CASE Boot
  BY <1>6, BootClient
<1>7. CASE ClientConnected \/ ClientDisconnected \/ GotIp \/ Disconnected
  BY <1>7, EventClient
<1>. QED
  BY <1>1, <1>2, <1>3, <1>4, <1>5, <1>6, <1>7, ConsoleIsTask DEF Next, Console, Status, Main

LEMMA NextClient == StoreInv /\ ClientInv /\ [Next]_vars => ClientInv'
BY NextClientTypes, NextOwned, NextPointed, NextOff, NextLone DEF ClientInv

LEMMA InitClientInv == Init => ClientInv
<1> SUFFICES ASSUME Init PROVE ClientInv
  OBVIOUS
<1>1. pc = AtRest /\ \A t \in Task : pc[t] = "idle"
  BY DEF Init, AtRest
<1>2. Bare
  BY DEF Init, Bare, Emptied, Exist
<1>3. Lone /\ MainFirst /\ Off
  BY <1>1, <1>2, RestIsLone, ConsoleIsTask DEF MainFirst, Off
<1>4. bit = FALSE /\ met = FALSE
  BY DEF Init
<1>5. bit \in BOOLEAN /\ met \in BOOLEAN
  BY <1>4, Zenon
<1>6. Owned /\ Pointed
  BY DEF Init, Owned, Pointed
<1>. QED  BY <1>3, <1>5, <1>6 DEF ClientInv, ClientTypes, Init

\* However the tasks interleave: what runs exists, and where they leave s_client, it points to
\* a client that exists or to none.  As long as no command has met another task at the client,
\* the client a task leaves behind is the only one, s_state is IDLE only without one, and none
\* is left once MQTT is disabled.
THEOREM OneClientAtATime == Spec => []OneClient
<1>1. StoreInv /\ ClientInv => OneClient
  <2> SUFFICES ASSUME ClientInv PROVE OneClient
    OBVIOUS
  <2>1. ASSUME Quiet, ~met PROVE Tidy
    BY <2>1 DEF Quiet, ClientInv, Lone, Shape, AtClient, Between
  <2>2. ASSUME Quiet, ~met, pc["console"] = "idle", ~cfg.en PROVE client = None /\ mqtt = "IDLE"
    BY <2>2 DEF ClientInv, Lone, DisabledMeansNone, Disabling
  <2>3. ASSUME Quiet PROVE client \in Exist \cup {None}
    BY <2>3 DEF Quiet, ClientInv, Pointed, AtClient
  <2>. QED  BY <2>1, <2>2, <2>3 DEF OneClient, Tidy, ClientInv, Owned
<1>. QED  BY <1>1, InitStore, NextStore, InitClientInv, NextClient, PTL DEF Spec

\* Every variable keeps its type.
THEOREM TypeCorrect == Spec => []TypeOK
<1>1. StoreInv /\ ClientInv => TypeOK
  BY OrderOfKeys DEF StoreInv, StoreTypes, ClientInv, ClientTypes, TypeOK, Label
<1>. QED  BY <1>1, InitStore, NextStore, InitClientInv, NextClient, PTL DEF Spec

=============================================================================

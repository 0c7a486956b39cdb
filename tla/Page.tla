-------------------------------- MODULE Page --------------------------------
(***************************************************************************)
(* The dashboard's page and its settings: the fields of state_parts/, the  *)
(* part of GatewayService that keeps settings, connection and database,    *)
(* and the settings file.                                                  *)
(*                                                                         *)
(* Handlers run to their end on the one event loop, except where one       *)
(* connects: there the serial worker's reports come in between.  What they *)
(* refresh on the page is in module Panels.                                *)
(*                                                                         *)
(* runtime.selected_port is the label of settings.last_port throughout:    *)
(* both are set by connect, and the one starts from the other.             *)
(***************************************************************************)
EXTENDS Integers

CONSTANTS
  Pages,      \* browser pages
  Ports,      \* serial ports
  Databases,  \* database paths
  Usable,     \* those that can be opened
  DefaultDb,  \* the database where no settings say another
  None

ASSUME PageAssumption == None \notin Ports /\ Usable \subseteq Databases /\ DefaultDb \in Usable

Settings == [port : Ports \cup {None}, db : Databases]
Default  == [port |-> None, db |-> DefaultDb]   \* DEFAULT_SETTINGS
Torn     == [torn |-> TRUE]   \* a settings file cut off while it was written

VARIABLES
  up,        \* the dashboard runs
  settings,  \* settings_service.settings
  file,      \* settings.json
  dbPath,    \* GatewayService.db_path
  store,     \* the database that is open
  plugged,   \* the ports there are
  link,      \* the port the serial manager has open, or None
  dying,     \* its worker has reported the loss and not yet closed the port
  status,    \* connection_status: the port it says is connected, or None
  replay,    \* a replay is loaded
  skipped,   \* the last tick came too early for a probe
  busy,      \* the handler that connects, or Idle
  worked,    \* history: the port of the last connect, None once a crash has torn its file
  draft      \* what the fields of the pages that are loaded hold

service == <<settings, file, dbPath, store, worked>>
session == <<link, dying, status, replay>>
vars    == <<up, service, plugged, session, skipped, busy, draft>>

Idle == [op |-> "idle"]

Init ==
  /\ up = FALSE /\ settings = Default /\ file = Default
  /\ dbPath = DefaultDb /\ store = DefaultDb
  /\ plugged \in SUBSET Ports
  /\ link = None /\ dying = FALSE /\ status = None /\ replay = FALSE /\ skipped = FALSE
  /\ busy = Idle /\ worked = None /\ draft = <<>>

-----------------------------------------------------------------------------
(* What a handler reads from the service at its end.                         *)

\* sync_from_service overwrites what the fields hold; the port only if one is preferred.
SyncedDraft(d) ==
  [port |-> IF settings'.port # None THEN settings'.port ELSE d.port, db |-> dbPath']

Sync(p) == draft' = [draft EXCEPT ![p] = SyncedDraft(@)]

\* refresh_ports: the preferred port, else the one chosen, else the first of the list.
PortsAfterScan(port) ==
  IF settings'.port \in plugged THEN {settings'.port}
  ELSE IF port \in plugged THEN {port}
  ELSE IF plugged # {} THEN plugged ELSE {None}

\* The rest of live_tick: some ticks scan the ports as well.
AfterTick(p) ==
  \E port \in {draft[p].port} \cup PortsAfterScan(draft[p].port) :
    draft' = [draft EXCEPT ![p] = SyncedDraft([@ EXCEPT !.port = port])]

Proceed(p, from) == IF from = "tick" THEN AfterTick(p) ELSE Sync(p)

\* (mutated: the file is not written)
SaveNothing(new) == settings' = [new EXCEPT !.db = dbPath'] /\ UNCHANGED file

\* _save_settings
SaveSettings(new) == settings' = [new EXCEPT !.db = dbPath'] /\ file' = settings'

-----------------------------------------------------------------------------
(* Connecting.                                                               *)

Handler(p) == up /\ busy = Idle /\ p \in DOMAIN draft

\* SerialManager.connect up to the open port; a port still open is closed first.
Open(port, p, from) ==
  /\ busy' = [op |-> "connecting", port |-> port, page |-> p, from |-> from]
  /\ link' = port /\ dying' = FALSE /\ status' = None
  /\ UNCHANGED <<up, service, plugged, replay, draft>>

\* The rest of connect: it says "Connected" whatever the worker has reported meanwhile.
FinishConnect ==
  /\ up /\ busy.op = "connecting"
  /\ status' = busy.port /\ worked' = busy.port
  /\ UNCHANGED <<dbPath, store>> /\ SaveSettings([settings EXCEPT !.port = busy.port])
  /\ busy' = Idle
  /\ UNCHANGED <<up, plugged, link, dying, replay, skipped>>
  /\ Proceed(busy.page, busy.from)

\* auto_connect: the gateway is looked for on the preferred port first.
Found(p, from) ==
  \E answering \in SUBSET plugged :
    /\ answering # {}
    /\ \E port \in answering : (settings.port \in answering => port = settings.port) /\ Open(port, p, from)

NotFound(p, from) ==
  /\ status' = None
  /\ UNCHANGED <<up, service, plugged, link, dying, replay, busy>>
  /\ Proceed(p, from)

\* (mutated: a tick looks at the status and not at the link)
StatusConnected == status # None

connected == link # None

\* auto_reconnect_if_needed, when its time has come.
Look(p) ==
  /\ Handler(p) /\ ~connected /\ ~replay
  /\ skipped' = FALSE
  /\ Found(p, "tick") \/ NotFound(p, "tick")

\* live_tick.  A replay that plays is advanced; a link that is lost is looked for, not more
\* often than the interval, which two ticks are sure to cover.
Tick(p) ==
  /\ Handler(p)
  /\ \/ /\ connected \/ replay
        /\ UNCHANGED <<up, service, plugged, session, skipped, busy>> /\ AfterTick(p)
     \/ /\ ~connected /\ ~replay /\ ~skipped /\ skipped' = TRUE
        /\ UNCHANGED <<up, service, plugged, session, busy>> /\ AfterTick(p)
     \/ Look(p)

\* The port that has answered the probe cannot be opened: the tick ends there.
Tick_fails(p) ==
  /\ Handler(p) /\ ~connected /\ ~replay /\ plugged # {}
  /\ skipped' = FALSE
  /\ UNCHANGED <<up, service, plugged, session, busy, draft>>

auto_connect_now(p) ==
  /\ Handler(p) /\ UNCHANGED skipped
  /\ \/ ~replay /\ ~connected /\ (Found(p, "button") \/ NotFound(p, "button"))
     \/ /\ replay \/ connected
        /\ status' = IF replay THEN status ELSE settings.port
        /\ UNCHANGED <<up, service, plugged, link, dying, replay, busy>>
        /\ Sync(p)

connect(p) ==
  /\ Handler(p) /\ draft[p].port \in plugged
  /\ Open(draft[p].port, p, "button")
  /\ UNCHANGED skipped

\* The port cannot be opened: the handler ends there, with the old link closed.
connect_fails(p) ==
  /\ Handler(p) /\ draft[p].port # None
  /\ link' = None /\ dying' = FALSE /\ status' = IF link # None THEN None ELSE status
  /\ UNCHANGED <<up, service, plugged, replay, skipped, busy, draft>>

\* disconnect; a replay that is loaded closes the link as well.
Hangup(p, loaded) ==
  /\ Handler(p)
  /\ link' = None /\ dying' = FALSE /\ status' = None /\ replay' = loaded
  /\ UNCHANGED <<up, service, plugged, skipped, busy>>
  /\ Sync(p)

disconnect(p)  == Hangup(p, replay)
load_replay(p) == Hangup(p, TRUE)

stop_replay(p) ==
  /\ Handler(p)
  /\ status' = None /\ replay' = FALSE
  /\ UNCHANGED <<up, service, plugged, link, dying, skipped, busy>>
  /\ Sync(p)

\* The worker loses its port: it reports that, and closes.
ReportLoss ==
  /\ up /\ link # None /\ ~dying
  /\ dying' = TRUE /\ status' = None
  /\ UNCHANGED <<up, service, plugged, link, replay, skipped, busy, draft>>

CloseLost ==
  /\ up /\ dying
  /\ link' = None /\ dying' = FALSE
  /\ UNCHANGED <<up, service, plugged, status, replay, skipped, busy, draft>>

\* A cable is plugged in or pulled out.
Plug(port) ==
  /\ plugged' = IF port \in plugged THEN plugged \ {port} ELSE plugged \cup {port}
  /\ UNCHANGED <<up, service, session, skipped, busy, draft>>

-----------------------------------------------------------------------------
(* Fields and buttons.                                                       *)

on_load(p) ==
  /\ up /\ busy = Idle
  /\ UNCHANGED <<up, service, plugged, session, skipped, busy>>
  /\ LET d == IF p \in DOMAIN draft THEN draft[p] ELSE Default IN
     \E port \in PortsAfterScan(d.port) :
       draft' = [q \in DOMAIN draft \cup {p} |->
                   IF q = p THEN SyncedDraft([d EXCEPT !.port = port]) ELSE draft[q]]

refresh_ports(p) ==
  /\ Handler(p)
  /\ UNCHANGED <<up, service, plugged, session, skipped, busy>>
  /\ \E port \in PortsAfterScan(draft[p].port) : draft' = [draft EXCEPT ![p].port = port]

set_selected_port(p, port) ==
  /\ Handler(p) /\ port \in plugged
  /\ draft' = [draft EXCEPT ![p].port = port]
  /\ UNCHANGED <<up, service, plugged, session, skipped, busy>>

set_db_path(p, db) ==
  /\ Handler(p)
  /\ draft' = [draft EXCEPT ![p].db = db]
  /\ UNCHANGED <<up, service, plugged, session, skipped, busy>>

\* The handlers that save something else: the prices, the threshold, the mains network,
\* the advanced tools.
save_other(p) ==
  /\ Handler(p)
  /\ UNCHANGED <<dbPath, store, worked>> /\ SaveSettings(settings)
  /\ UNCHANGED <<up, plugged, session, skipped, busy, draft>>

\* A path that cannot be opened ends the handler, after db_path is set.
apply_db_path(p) ==
  /\ Handler(p)
  /\ dbPath' = draft[p].db
  /\ UNCHANGED <<up, worked, plugged, session, skipped, busy>>
  /\ \/ draft[p].db \in Usable /\ store' = draft[p].db /\ SaveSettings(settings) /\ Sync(p)
     \/ draft[p].db \notin Usable /\ UNCHANGED <<settings, file, store, draft>>

-----------------------------------------------------------------------------
(* Crash and start.                                                          *)

\* write_text cuts the file to nothing before it writes, so a handler that is about to save may
\* leave a torn file.
Crash ==
  /\ up
  /\ up' = FALSE /\ file' \in IF draft = <<>> THEN {file} ELSE {file, Torn}
  /\ worked' = IF file' = Torn THEN None ELSE worked
  /\ link' = None /\ dying' = FALSE /\ status' = None /\ replay' = FALSE
  /\ skipped' = FALSE /\ busy' = Idle /\ draft' = <<>>
  /\ UNCHANGED <<settings, dbPath, store, plugged>>

\* SettingsStore.load: a file that cannot be read counts as none.
Loaded == IF file = Torn THEN Default ELSE file

\* The dashboard does not start on a database it cannot open.
Start ==
  /\ ~up /\ Loaded.db \in Usable
  /\ up' = TRUE
  /\ settings' = Loaded /\ dbPath' = Loaded.db /\ store' = Loaded.db
  /\ UNCHANGED <<file, worked, plugged, session, skipped, busy, draft>>

Next ==
  \/ \E p \in Pages :
       \/ on_load(p) \/ Tick(p) \/ Tick_fails(p) \/ auto_connect_now(p) \/ connect(p) \/ connect_fails(p)
       \/ disconnect(p) \/ load_replay(p) \/ stop_replay(p) \/ refresh_ports(p)
       \/ (\E port \in Ports : set_selected_port(p, port))
       \/ (\E db \in Databases : set_db_path(p, db))
       \/ save_other(p) \/ apply_db_path(p)
  \/ FinishConnect \/ ReportLoss \/ CloseLost \/ Crash \/ Start
  \/ \E port \in Ports : Plug(port)

\* A handler runs to its end, a loaded page ticks every two seconds, and not every port that
\* answers a probe fails to open.
Fairness == WF_vars(FinishConnect) /\ WF_vars(\E p \in Pages : Look(p))

Spec == Init /\ [][Next]_vars /\ Fairness

-----------------------------------------------------------------------------

TypeOK ==
  /\ up \in BOOLEAN /\ settings \in Settings /\ file \in Settings \cup {Torn}
  /\ dbPath \in Databases /\ store \in Usable
  /\ plugged \in SUBSET Ports /\ link \in Ports \cup {None} /\ status \in Ports \cup {None}
  /\ dying \in BOOLEAN /\ replay \in BOOLEAN /\ skipped \in BOOLEAN
  /\ busy \in {Idle} \cup [op : {"connecting"}, port : Ports, page : DOMAIN draft, from : {"tick", "button"}]
  /\ worked \in Ports \cup {None}
  /\ DOMAIN draft \subseteq Pages /\ \A p \in DOMAIN draft : draft[p] \in Settings

\* "The app ... remembers the last working port" (ams_han_reflex_app.py:85): the file and the
\* settings hold the port of the last connect, through losses, failed connects, crashes and
\* starts, and whatever other handlers save; only a crash that tears the file forgets it,
\* until the next connect.  And the next start opens the database that is in use, or was when
\* the dashboard went down, unless the file is torn or names a path that cannot be opened.
RemembersPort ==
  /\ file # Torn => file.port = worked /\ (file.db \in Usable => file.db = store)
  /\ up => settings.port = worked
  /\ link # None /\ busy = Idle => worked = link /\ file = settings
  /\ up /\ dbPath \in Usable => store = dbPath /\ file \in {Torn} \cup [port : {worked}, db : {store}]

\* A status that claims a connection that is gone heals, by the next ticks of any page,
\* unless a replay is loaded, which keeps the ticks from looking at the link
\* (service.py:345 can overwrite what the worker has just reported).
Claims == up /\ draft # <<>> /\ status # None /\ link = None /\ ~replay
StatusHeals == Claims ~> ~Claims
=============================================================================

----------------------------- MODULE PageProofs -----------------------------
(***************************************************************************)
(* Theorems about the page and about the prices, which share no state.     *)
(* Page, for any pages, ports and databases: its types, and that the       *)
(* settings file keeps the port of the last connect and the database in    *)
(* use.  PriceProvider, for every set of days, hours and callers, and any  *)
(* number of outages: its types, that a day is fetched by one thread at a  *)
(* time and never again once it is cached, that what is cached stays, and  *)
(* that only prices the service has sent are quoted.                       *)
(***************************************************************************)
EXTENDS Page, PriceProvider, SequenceTheorems, TLAPS

USE DEF vars, service, session

-----------------------------------------------------------------------------
(* The types, in parts.                                                      *)

SettingsTypes ==
  /\ settings \in Settings /\ file \in Settings \cup {Torn}
  /\ dbPath \in Databases /\ store \in Usable /\ worked \in Ports \cup {None}

LinkTypes ==
  /\ up \in BOOLEAN /\ plugged \in SUBSET Ports /\ link \in Ports \cup {None} /\ status \in Ports \cup {None}
  /\ dying \in BOOLEAN /\ replay \in BOOLEAN /\ skipped \in BOOLEAN

DraftTypes ==
  /\ busy \in {Idle} \cup [op : {"connecting"}, port : Ports, page : DOMAIN draft, from : {"tick", "button"}]
  /\ DOMAIN draft \subseteq Pages /\ \A p \in DOMAIN draft : draft[p] \in Settings

LEMMA TypesInParts ==
  /\ TypeOK <=> SettingsTypes /\ LinkTypes /\ DraftTypes
  /\ TypeOK' <=> SettingsTypes' /\ LinkTypes' /\ DraftTypes'
BY DEF TypeOK, SettingsTypes, LinkTypes, DraftTypes

\* While a handler connects the link is the one it opens, or lost.
LinkIsKept ==
  /\ ~up => link = None /\ busy = Idle
  /\ busy # Idle => busy.op = "connecting" /\ busy.port \in Ports /\ (link # None => link = busy.port)
  /\ busy = Idle /\ link # None => file # Torn /\ file = settings /\ worked = link
  /\ file # Torn => file.port = worked /\ (file.db \in Usable => file.db = store)
  /\ file = Torn => worked = None
  /\ up => settings.port = worked
  /\ up /\ dbPath \in Usable => store = dbPath /\ (file # Torn => file.db = store)

\* What a handler of the page leaves alone, or saves with the port as it was.
LEMMA Saves ==
  ASSUME SettingsTypes, NEW new \in Settings, dbPath' \in Databases, SaveSettings(new)
  PROVE  /\ settings' \in Settings /\ settings'.port = new.port /\ settings'.db = dbPath'
         /\ file' = settings' /\ file' # Torn
BY DEF SaveSettings, Settings, Torn

LEMMA SyncTypes ==
  ASSUME SettingsTypes', NEW d \in Settings
  PROVE  SyncedDraft(d) \in Settings
BY DEF SettingsTypes, SyncedDraft, Settings

LEMMA ScanTypes ==
  ASSUME SettingsTypes', plugged \in SUBSET Ports, NEW port \in Ports \cup {None}
  PROVE  PortsAfterScan(port) \subseteq Ports \cup {None}
BY DEF PortsAfterScan, SettingsTypes, Settings

\* A handler that ends by bringing the page up to date.
LEMMA ProceedTypes ==
  ASSUME SettingsTypes', plugged \in SUBSET Ports, DraftTypes, NEW p \in DOMAIN draft, NEW from, Proceed(p, from),
         busy' = busy \/ busy' = Idle
  PROVE  DraftTypes'
<1>1. draft[p] \in Settings /\ draft[p].port \in Ports \cup {None}
  BY DEF DraftTypes, Settings
<1>2. PICK d \in Settings : draft' = [draft EXCEPT ![p] = d]
  <2>1. CASE Sync(p)
    BY <1>1, <2>1, SyncTypes DEF Sync
  <2>2. CASE AfterTick(p)
    <3>1. PICK port \in {draft[p].port} \cup PortsAfterScan(draft[p].port) :
            draft' = [draft EXCEPT ![p] = SyncedDraft([draft[p] EXCEPT !.port = port])]
      BY <2>2 DEF AfterTick
    <3>2. port \in Ports \cup {None}
      BY <1>1, <3>1, ScanTypes
    <3>3. [draft[p] EXCEPT !.port = port] \in Settings
      BY <1>1, <3>2 DEF Settings
    <3>. QED  BY <3>1, <3>3, SyncTypes
  <2>. QED  BY <2>1, <2>2 DEF Proceed
<1>. QED  BY <1>2 DEF DraftTypes

-----------------------------------------------------------------------------
(* The actions, by what they change.                                         *)

\* The handlers that open a port.
LEMMA OpenStep ==
  ASSUME TypeOK, LinkIsKept, NEW p \in DOMAIN draft, up, NEW port \in Ports,
         NEW from \in {"tick", "button"}, Open(port, p, from), skipped' \in BOOLEAN
  PROVE  TypeOK' /\ LinkIsKept'
<1>1. dying' = FALSE
  BY DEF Open
<1>2. dying' \in BOOLEAN
  BY <1>1, Zenon
<1>3. SettingsTypes' /\ LinkTypes'
  BY <1>2, TypesInParts DEF Open, SettingsTypes, LinkTypes
<1>4. busy' = [op |-> "connecting", port |-> port, page |-> p, from |-> from] /\ draft' = draft
  BY DEF Open
<1>5. DraftTypes'
  BY <1>4, TypesInParts DEF DraftTypes
<1>6. busy' # Idle /\ busy'.op = "connecting" /\ busy'.port = port
  BY <1>4 DEF Idle
<1>7. LinkIsKept'
  BY <1>6 DEF Open, LinkIsKept
<1>. QED  BY <1>3, <1>5, <1>7, TypesInParts

LEMMA FoundStep ==
  ASSUME TypeOK, LinkIsKept, NEW p, Handler(p), skipped' \in BOOLEAN,
         NEW from \in {"tick", "button"}, Found(p, from)
  PROVE  TypeOK' /\ LinkIsKept'
<1>1. PICK port \in plugged : Open(port, p, from)
  BY DEF Found
<1>2. up /\ p \in DOMAIN draft /\ port \in Ports
  BY TypesInParts DEF Handler, LinkTypes
<1>. QED  BY <1>1, <1>2, OpenStep

\* The handlers that end without a new link.
LEMMA PageStep ==
  ASSUME TypeOK, LinkIsKept, NEW p \in DOMAIN draft, up, up' = up, busy = Idle, busy' = Idle, UNCHANGED plugged,
         Proceed(p, "tick") \/ Proceed(p, "button") \/ draft' = draft,
         dying' \in BOOLEAN, replay' \in BOOLEAN, skipped' \in BOOLEAN, status' \in Ports \cup {None},
         link' = link \/ link' = None,
         \/ UNCHANGED service
         \/ UNCHANGED <<dbPath, store, worked>> /\ SaveSettings(settings)
         \/ dbPath' \in Usable /\ store' = dbPath' /\ worked' = worked /\ SaveSettings(settings)
         \/ dbPath' \in Databases \ Usable /\ UNCHANGED <<settings, file, store, worked>>
  PROVE  TypeOK' /\ LinkIsKept'
<1>1. dbPath' \in Databases
  BY PageAssumption, TypesInParts DEF SettingsTypes
<1>2. CASE SaveSettings(settings) /\ worked' = worked
           /\ (UNCHANGED <<dbPath, store>> \/ (dbPath' \in Usable /\ store' = dbPath'))
  <2>1. /\ settings' \in Settings /\ settings'.port = settings.port /\ settings'.db = dbPath'
        /\ file' = settings' /\ file' # Torn
    BY <1>1, <1>2, Saves, TypesInParts DEF SettingsTypes
  <2>. HIDE DEF SaveSettings
  <2>2. SettingsTypes'
    BY <1>1, <1>2, <2>1, TypesInParts DEF SettingsTypes
  <2>3. dbPath' \in Usable => store' = dbPath'
    BY <1>2 DEF LinkIsKept
  <2>4. LinkIsKept'
    BY <1>2, <2>1, <2>3 DEF LinkIsKept
  <2>. QED  BY <2>2, <2>4, ProceedTypes, TypesInParts DEF LinkTypes, DraftTypes
<1>3. CASE UNCHANGED <<settings, file, store, worked>> /\ dbPath' \in Databases
           /\ (dbPath' = dbPath \/ dbPath' \notin Usable)
  <2>1. SettingsTypes'
    BY <1>3, TypesInParts DEF SettingsTypes
  <2>2. LinkIsKept'
    BY <1>3 DEF LinkIsKept
  <2>. QED  BY <2>1, <2>2, ProceedTypes, TypesInParts DEF LinkTypes, DraftTypes
<1>. QED  BY <1>1, <1>2, <1>3

LEMMA TickStep ==
  ASSUME TypeOK, LinkIsKept, NEW p \in Pages, Tick(p) \/ Tick_fails(p)
  PROVE  TypeOK' /\ LinkIsKept'
<1>1. p \in DOMAIN draft /\ up /\ busy = Idle
  BY DEF Tick, Tick_fails, Handler
<1>2. skipped' \in BOOLEAN
  <2>1. skipped' = skipped \/ skipped' = TRUE \/ skipped' = FALSE
    BY DEF Tick, Tick_fails, Look
  <2>2. skipped \in BOOLEAN
    BY DEF TypeOK
  <2>. QED  BY <2>1, <2>2, Zenon
<1>3. CASE Found(p, "tick")
  BY <1>1, <1>2, <1>3, FoundStep DEF Handler
<1>4. CASE NotFound(p, "tick")
  BY <1>1, <1>2, <1>4, PageStep DEF NotFound, TypeOK
<1>5. CASE UNCHANGED <<up, service, plugged, session, busy>> /\ AfterTick(p)
  <2>1. Proceed(p, "tick")
    BY <1>5 DEF Proceed
  <2>. QED  BY <1>1, <1>2, <1>5, <2>1, PageStep DEF TypeOK
<1>6. CASE Tick_fails(p)
  BY <1>1, <1>2, <1>6, PageStep DEF Tick_fails, session, TypeOK
<1>. QED  BY <1>3, <1>4, <1>5, <1>6 DEF Tick, Look

LEMMA ButtonStep ==
  ASSUME TypeOK, LinkIsKept, NEW p \in Pages,
         \/ auto_connect_now(p) \/ connect(p) \/ connect_fails(p) \/ disconnect(p) \/ load_replay(p)
         \/ stop_replay(p) \/ save_other(p) \/ apply_db_path(p)
  PROVE  TypeOK' /\ LinkIsKept'
<1>1. Handler(p) /\ p \in DOMAIN draft /\ up /\ busy = Idle
  BY DEF auto_connect_now, connect, connect_fails, disconnect, load_replay, stop_replay, save_other,
         apply_db_path, Handler, Hangup
<1>. dying \in BOOLEAN /\ replay \in BOOLEAN /\ skipped \in BOOLEAN /\ status \in Ports \cup {None}
     /\ settings.port \in Ports \cup {None} /\ plugged \subseteq Ports
  BY DEF TypeOK, Settings
<1>2. CASE auto_connect_now(p)
  <2>1. CASE Found(p, "button")
    BY <1>1, <1>2, <2>1, FoundStep DEF auto_connect_now
  <2>2. CASE NotFound(p, "button")
    BY <1>1, <1>2, <2>2, PageStep DEF NotFound, auto_connect_now
  <2>3. CASE UNCHANGED <<up, service, plugged, link, dying, replay, busy>> /\ Sync(p)
             /\ status' = IF replay THEN status ELSE settings.port
    <3>1. Proceed(p, "button")
      BY <2>3 DEF Proceed
    <3>. QED  BY <1>1, <1>2, <2>3, <3>1, PageStep DEF auto_connect_now
  <2>. QED  BY <1>2, <2>1, <2>2, <2>3 DEF auto_connect_now
<1>3. CASE connect(p)
  BY <1>1, <1>3, OpenStep DEF connect
<1>4. CASE connect_fails(p)
  <2>1. dying' = FALSE
    BY <1>4 DEF connect_fails
  <2>2. dying' \in BOOLEAN
    BY <2>1, Zenon
  <2>. QED  BY <1>1, <1>4, <2>2, PageStep DEF connect_fails
<1>5. CASE disconnect(p) \/ load_replay(p)
  <2>1. dying' = FALSE /\ (replay' = replay \/ replay' = TRUE)
    BY <1>5 DEF disconnect, load_replay, Hangup
  <2>2. dying' \in BOOLEAN /\ replay' \in BOOLEAN
    BY <2>1, Zenon
  <2>3. Proceed(p, "button")
    BY <1>5 DEF disconnect, load_replay, Hangup, Proceed
  <2>. QED  BY <1>1, <1>5, <2>2, <2>3, PageStep DEF disconnect, load_replay, Hangup
<1>6. CASE stop_replay(p)
  <2>1. replay' = FALSE
    BY <1>6 DEF stop_replay
  <2>2. replay' \in BOOLEAN
    BY <2>1, Zenon
  <2>3. Proceed(p, "button")
    BY <1>6 DEF stop_replay, Proceed
  <2>. QED  BY <1>1, <1>6, <2>2, <2>3, PageStep DEF stop_replay
<1>7. CASE save_other(p)
  BY <1>1, <1>7, PageStep DEF save_other
<1>8. CASE apply_db_path(p)
  <2>1. draft[p].db \in Databases
    BY <1>1 DEF TypeOK, Settings
  <2>2. CASE draft[p].db \in Usable /\ store' = draft[p].db /\ SaveSettings(settings) /\ Sync(p)
    <3>1. Proceed(p, "button")
      BY <2>2 DEF Proceed
    <3>. QED  BY <1>1, <1>8, <2>2, <3>1, PageStep DEF apply_db_path
  <2>3. CASE draft[p].db \notin Usable /\ UNCHANGED <<settings, file, store, draft>>
    BY <1>1, <1>8, <2>1, <2>3, PageStep DEF apply_db_path
  <2>. QED  BY <1>8, <2>2, <2>3 DEF apply_db_path
<1>. QED  BY <1>2, <1>3, <1>4, <1>5, <1>6, <1>7, <1>8

\* The fields of a page.
LEMMA FieldStep ==
  ASSUME TypeOK, LinkIsKept, NEW p \in Pages,
         on_load(p) \/ refresh_ports(p) \/ (\E port \in Ports : set_selected_port(p, port))
           \/ (\E db \in Databases : set_db_path(p, db))
  PROVE  TypeOK' /\ LinkIsKept'
<1>1. UNCHANGED <<up, service, plugged, session, skipped, busy>> /\ busy = Idle
  BY DEF on_load, refresh_ports, set_selected_port, set_db_path, Handler
<1>2. SettingsTypes' /\ LinkTypes' /\ LinkIsKept'
  BY <1>1, TypesInParts DEF SettingsTypes, LinkTypes, LinkIsKept
<1>3. DOMAIN draft' \subseteq Pages /\ \A q \in DOMAIN draft' : draft'[q] \in Settings
  <2>1. CASE on_load(p)
    <3> DEFINE d == IF p \in DOMAIN draft THEN draft[p] ELSE Default
    <3>1. d \in Settings /\ d.port \in Ports \cup {None}
      BY PageAssumption DEF TypeOK, Default, Settings
    <3>. HIDE DEF d
    <3>2. PICK port \in PortsAfterScan(d.port) :
            draft' = [q \in DOMAIN draft \cup {p} |->
                        IF q = p THEN SyncedDraft([d EXCEPT !.port = port]) ELSE draft[q]]
      BY <2>1 DEF on_load, d
    <3>3. port \in Ports \cup {None}
      BY <1>2, <3>1, <3>2, ScanTypes, TypesInParts DEF LinkTypes
    <3>4. [d EXCEPT !.port = port] \in Settings
      BY <3>1, <3>3 DEF Settings
    <3>5. SyncedDraft([d EXCEPT !.port = port]) \in Settings
      BY <1>2, <3>4, SyncTypes
    <3>. QED  BY <3>2, <3>5 DEF TypeOK
  <2>2. CASE refresh_ports(p)
    <3>1. p \in DOMAIN draft /\ draft[p].port \in Ports \cup {None}
      BY <2>2 DEF refresh_ports, Handler, TypeOK, Settings
    <3>2. PICK port \in Ports \cup {None} : draft' = [draft EXCEPT ![p].port = port]
      BY <1>2, <2>2, <3>1, ScanTypes, TypesInParts DEF refresh_ports, LinkTypes
    <3>. QED  BY <3>1, <3>2 DEF TypeOK, Settings
  <2>3. CASE \E port \in Ports : set_selected_port(p, port)
    BY <2>3 DEF set_selected_port, Handler, TypeOK, Settings
  <2>4. CASE \E db \in Databases : set_db_path(p, db)
    BY <2>4 DEF set_db_path, Handler, TypeOK, Settings
  <2>. QED  BY <2>1, <2>2, <2>3, <2>4
<1>4. DraftTypes'
  BY <1>1, <1>3, TypesInParts DEF DraftTypes
<1>. QED  BY <1>2, <1>4, TypesInParts

\* "Connected" is written, whatever the link is by now, and the port that was opened is kept.
LEMMA FinishStep ==
  ASSUME TypeOK, LinkIsKept, FinishConnect
  PROVE  TypeOK' /\ LinkIsKept'
<1>1. busy # Idle /\ busy.port \in Ports /\ (link # None => link = busy.port)
  BY DEF FinishConnect, LinkIsKept, Idle
<1>2. busy \in [op : {"connecting"}, port : Ports, page : DOMAIN draft, from : {"tick", "button"}]
  BY <1>1 DEF TypeOK
<1>3. [settings EXCEPT !.port = busy.port] \in Settings /\ dbPath' \in Databases
  BY <1>1 DEF FinishConnect, TypeOK, Settings
<1>4. /\ settings' \in Settings /\ settings'.port = busy.port /\ settings'.db = dbPath'
      /\ file' = settings' /\ file' # Torn
  BY <1>1, <1>3, Saves, TypesInParts DEF FinishConnect, SettingsTypes, Settings
<1>5. SettingsTypes'
  BY <1>1, <1>4, TypesInParts DEF FinishConnect, SettingsTypes
<1>6. LinkTypes'
  BY <1>1, TypesInParts DEF FinishConnect, LinkTypes
<1>7. DraftTypes'
  BY <1>2, <1>5, ProceedTypes, TypesInParts DEF FinishConnect, LinkTypes
<1>8. LinkIsKept'
  BY <1>1, <1>4 DEF FinishConnect, LinkIsKept
<1>. QED  BY <1>5, <1>6, <1>7, <1>8, TypesInParts

\* The worker, the cables, a crash and a start.
LEMMA OtherStep ==
  ASSUME TypeOK, LinkIsKept,
         ReportLoss \/ CloseLost \/ Crash \/ Start \/ \E port \in Ports : Plug(port)
  PROVE  TypeOK' /\ LinkIsKept'
<1>1. CASE ReportLoss
  <2>1. dying' = TRUE
    BY <1>1 DEF ReportLoss
  <2>2. dying' \in BOOLEAN
    BY <2>1, Zenon
  <2>. QED  BY <1>1, <2>2 DEF ReportLoss, TypeOK, LinkIsKept
<1>2. CASE CloseLost
  <2>1. dying' = FALSE
    BY <1>2 DEF CloseLost
  <2>2. dying' \in BOOLEAN
    BY <2>1, Zenon
  <2>. QED  BY <1>2, <2>2 DEF CloseLost, TypeOK, LinkIsKept
<1>3. CASE Crash
  <2>1. up' = FALSE /\ dying' = FALSE /\ replay' = FALSE /\ skipped' = FALSE
    BY <1>3 DEF Crash
  <2>2. up' \in BOOLEAN /\ dying' \in BOOLEAN /\ replay' \in BOOLEAN /\ skipped' \in BOOLEAN
    BY <2>1, Zenon
  <2>3. DOMAIN draft' = {} /\ worked' \in Ports \cup {None}
    BY <1>3 DEF Crash, TypeOK
  <2>4. TypeOK'
    BY <1>3, <2>2, <2>3 DEF Crash, TypeOK
  <2>. QED  BY <1>3, <2>4 DEF Crash, LinkIsKept
<1>4. CASE Start
  <2>1. up' = TRUE
    BY <1>4 DEF Start
  <2>2. up' \in BOOLEAN
    BY <2>1, Zenon
  <2>3. Loaded \in Settings
    BY PageAssumption DEF Loaded, TypeOK, Default, Settings
  <2>4. Loaded.db \in Databases
    BY <2>3 DEF Settings
  <2>5. TypeOK'
    BY <1>4, <2>2, <2>3, <2>4 DEF Start, TypeOK
  <2>6. link' = None /\ busy' = Idle /\ UNCHANGED <<file, worked>>
    BY <1>4 DEF Start, LinkIsKept
  <2>7. settings' = Loaded /\ dbPath' = Loaded.db /\ store' = Loaded.db
    BY <1>4 DEF Start
  <2>8. Loaded.port = worked
    <3>1. CASE file = Torn
      BY <3>1 DEF LinkIsKept, Loaded, Default
    <3>. QED  BY <3>1 DEF LinkIsKept, Loaded
  <2>. QED  BY <2>5, <2>6, <2>7, <2>8 DEF LinkIsKept, Loaded
<1>5. CASE \E port \in Ports : Plug(port)
  BY <1>5 DEF Plug, TypeOK, LinkIsKept
<1>. QED  BY <1>1, <1>2, <1>3, <1>4, <1>5

-----------------------------------------------------------------------------

LEMMA InitKept == Init => TypeOK /\ LinkIsKept
<1> SUFFICES ASSUME Init PROVE TypeOK /\ LinkIsKept
  OBVIOUS
<1>1. up = FALSE /\ dying = FALSE /\ replay = FALSE /\ skipped = FALSE
  BY DEF Init
<1>2. up \in BOOLEAN /\ dying \in BOOLEAN /\ replay \in BOOLEAN /\ skipped \in BOOLEAN
  BY <1>1, Zenon
<1>3. Default \in Settings /\ DefaultDb \in Databases /\ DOMAIN draft = {}
  BY PageAssumption DEF Init, Default, Settings
<1>4. TypeOK
  BY <1>2, <1>3, PageAssumption DEF Init, TypeOK
<1>. QED  BY <1>1, <1>4 DEF Init, LinkIsKept, Default

LEMMA NextKept == TypeOK /\ LinkIsKept /\ [Next]_vars => TypeOK' /\ LinkIsKept'
<1> SUFFICES ASSUME TypeOK, LinkIsKept, [Next]_vars PROVE TypeOK' /\ LinkIsKept'
  OBVIOUS
<1>1. CASE UNCHANGED vars
  BY <1>1 DEF TypeOK, LinkIsKept
<1>2. CASE Next
  BY <1>2, TickStep, ButtonStep, FieldStep, FinishStep, OtherStep DEF Next
<1>. QED  BY <1>1, <1>2

\* Every variable of the page, the service and the settings keeps its type.
THEOREM TypeCorrect == Spec => []TypeOK
BY InitKept, NextKept, PTL DEF Spec

\* Up or down, with a link or without: the settings file holds the port of the last connect
\* and the database in use, unless a crash has torn it or a path was applied that cannot be
\* opened.
THEOREM PortIsRemembered == Spec => []RemembersPort
<1>1. TypeOK /\ LinkIsKept => RemembersPort
  <2> SUFFICES ASSUME TypeOK, LinkIsKept PROVE RemembersPort
    OBVIOUS
  <2>1. up /\ dbPath \in Usable => file \in {Torn} \cup [port : {worked}, db : {store}]
    BY DEF LinkIsKept, TypeOK, Settings
  <2>. QED  BY <2>1 DEF LinkIsKept, RemembersPort
<1>. QED  BY <1>1, InitKept, NextKept, PTL DEF Spec

-----------------------------------------------------------------------------
(* The prices.                                                               *)

Fetch == [pc : {"check", "request", "store", "done"}, key : Key, data : SUBSET Hour]
Quotation == [key : Key, hour : Hour, kind : {"none", "live", "unavailable", "loading"}]

\* PricesTypeOK in two parts: the plain types, and who holds a claim.
Types ==
  /\ _cache \in [Key -> Day] /\ _inflight \subseteq Key
  /\ callers \in [Caller -> [pc : {"idle", "start", "spawn"}, key : Key]]
  /\ fetches \in Seq(Fetch)
  /\ answer \in [Caller -> Quotation]
  /\ serving \in BOOLEAN /\ sent \in [Key -> SUBSET Hour]
  /\ outages \in Nat

ClaimsHeld ==
  \A k \in _inflight : \/ \E c \in Caller : callers[c] = [pc |-> "spawn", key |-> k]
                       \/ \E i \in DOMAIN fetches : Working(i) /\ fetches[i].key = k

LEMMA TypeParts == PricesTypeOK <=> Types /\ ClaimsHeld
  BY DEF PricesTypeOK, Types, ClaimsHeld, Fetch, Quotation

\* What the steps do to the list of threads.
LEMMA AppendFacts ==
  ASSUME NEW q \in Seq(Fetch), NEW e \in Fetch
  PROVE  /\ Append(q, e) \in Seq(Fetch)
         /\ DOMAIN Append(q, e) = DOMAIN q \cup {Len(q) + 1} /\ Len(q) + 1 \notin DOMAIN q
         /\ Append(q, e)[Len(q) + 1] = e
         /\ \A i \in DOMAIN q : Append(q, e)[i] = q[i]
  OBVIOUS

LEMMA ReplaceFacts ==
  ASSUME NEW q \in Seq(Fetch), NEW i \in DOMAIN q, NEW e \in Fetch
  PROVE  /\ [q EXCEPT ![i] = e] \in Seq(Fetch)
         /\ DOMAIN [q EXCEPT ![i] = e] = DOMAIN q
         /\ [q EXCEPT ![i] = e][i] = e
         /\ \A j \in DOMAIN q : j # i => [q EXCEPT ![i] = e][j] = q[j]
  OBVIOUS

\* A step of a thread: what becomes of its record.
LEMMA ThreadStep ==
  ASSUME Types, NEW i \in DOMAIN fetches, FetchStep(i)
  PROVE  \E e \in Fetch :
           /\ fetches' = [fetches EXCEPT ![i] = e] /\ e.key = fetches[i].key
           /\ fetches[i].pc # "done"
           /\ \/ Check(i) /\ e.data = fetches[i].data
                          /\ (e.pc = "done" <=> _cache[fetches[i].key].cached)
              \/ Request(i) /\ e.pc = "store"
                            /\ (e.data = fetches[i].data \/ e.data \subseteq sent'[fetches[i].key])
              \/ Store(i) /\ e.pc = "done" /\ e.data = fetches[i].data
<1>1. fetches[i] \in Fetch
  BY DEF Types
<1>2. CASE Check(i)
  <2> DEFINE e == [fetches[i] EXCEPT !.pc = IF _cache[fetches[i].key].cached THEN "done" ELSE "request"]
  <2>1. e \in Fetch /\ e.key = fetches[i].key /\ e.data = fetches[i].data
        /\ (e.pc = "done" <=> _cache[fetches[i].key].cached)
    BY <1>1 DEF Fetch
  <2>2. fetches' = [fetches EXCEPT ![i] = e] /\ fetches[i].pc # "done"
    BY <1>2 DEF Check
  <2> QED BY <1>2, <2>1, <2>2
<1>3. CASE Request(i)
  <2>1. CASE serving
    <3>1. PICK data \in SUBSET Hour \ {{}} :
            /\ fetches' = [fetches EXCEPT ![i].pc = "store", ![i].data = data]
            /\ sent' = [sent EXCEPT ![fetches[i].key] = @ \cup data]
      BY <1>3, <2>1 DEF Request
    <3> DEFINE e == [[fetches[i] EXCEPT !.pc = "store"] EXCEPT !.data = data]
    <3>2. e \in Fetch /\ e.key = fetches[i].key /\ e.pc = "store" /\ e.data = data
      BY <1>1 DEF Fetch
    <3>3. fetches' = [fetches EXCEPT ![i] = e] /\ fetches[i].pc # "done"
      BY <1>3, <3>1 DEF Request, Types
    <3>4. data \subseteq sent'[fetches[i].key]
      BY <1>1, <3>1 DEF Types, Fetch
    <3> QED BY <1>3, <3>2, <3>3, <3>4
  <2>2. CASE ~serving
    <3> DEFINE e == [fetches[i] EXCEPT !.pc = "store"]
    <3>1. e \in Fetch /\ e.key = fetches[i].key /\ e.pc = "store" /\ e.data = fetches[i].data
      BY <1>1 DEF Fetch
    <3>2. fetches' = [fetches EXCEPT ![i] = e] /\ fetches[i].pc # "done"
      BY <1>3, <2>2 DEF Request
    <3> QED BY <1>3, <3>1, <3>2
  <2> QED BY <2>1, <2>2
<1>4. CASE Store(i)
  <2> DEFINE e == [fetches[i] EXCEPT !.pc = "done"]
  <2>1. e \in Fetch /\ e.key = fetches[i].key /\ e.data = fetches[i].data /\ e.pc = "done"
    BY <1>1 DEF Fetch
  <2>2. fetches' = [fetches EXCEPT ![i] = e] /\ fetches[i].pc # "done"
    BY <1>4 DEF Store
  <2> QED BY <1>4, <2>1, <2>2
<1> QED BY <1>2, <1>3, <1>4 DEF FetchStep

-----------------------------------------------------------------------------
(* One inductive invariant.  A claim has one holder: the caller about to     *)
(* start the thread, or the thread while it works.  So nobody stores a day   *)
(* that is cached, and the unreachable return of Check loses no claim.       *)

OneHolder ==
  /\ OneFetchPerDay
  /\ \A c \in Caller : callers[c].pc = "spawn" =>
       /\ callers[c].key \in _inflight
       /\ \A i \in DOMAIN fetches : Working(i) => fetches[i].key # callers[c].key
       /\ \A d \in Caller : callers[d].pc = "spawn" /\ callers[d].key = callers[c].key => d = c

\* The entries of the cache and of the threads come from the service.
Genuine ==
  /\ QuotesAreGenuine
  /\ \A k \in Key : _cache[k].entries \subseteq sent[k]
  /\ \A i \in DOMAIN fetches : fetches[i].data \subseteq sent[fetches[i].key]

Inv == Types /\ ClaimsHeld /\ OneHolder /\ Genuine

LEMMA InitInv == InitPrices => Inv
<1> SUFFICES ASSUME InitPrices PROVE Inv
  OBVIOUS
<1>1. (CHOOSE k \in Key : TRUE) \in Key /\ (CHOOSE h \in Hour : TRUE) \in Hour
  BY PriceAssumption
<1>2. serving \in BOOLEAN
  BY DEF InitPrices
<1>3. fetches \in Seq(Fetch) /\ DOMAIN fetches = {}
  <2>1. fetches = <<>>
    BY DEF InitPrices
  <2> QED BY <2>1
<1>4. Types
  <2>1. _cache \in [Key -> Day] /\ sent \in [Key -> SUBSET Hour] /\ outages \in Nat
    BY DEF InitPrices, Day, Missing
  <2>2. callers \in [Caller -> [pc : {"idle", "start", "spawn"}, key : Key]]
    BY <1>1 DEF InitPrices, IdleCaller
  <2>3. answer \in [Caller -> Quotation]
    BY <1>1 DEF InitPrices, NoAnswer, Quotation
  <2>4. _inflight \subseteq Key
    BY DEF InitPrices
  <2> QED BY <1>2, <1>3, <2>1, <2>2, <2>3, <2>4 DEF Types
<1>5. ClaimsHeld
  BY DEF InitPrices, ClaimsHeld
<1>6. OneHolder
  BY <1>3 DEF InitPrices, OneHolder, OneFetchPerDay, IdleCaller
<1>7. Genuine
  BY <1>3 DEF InitPrices, Genuine, QuotesAreGenuine, NoAnswer, Missing
<1> QED BY <1>4, <1>5, <1>6, <1>7 DEF Inv

LEMMA QuoteInv == \A c \in Caller, k \in Key, h \in Hour : Inv /\ Quote(c, k, h) => Inv'
<1> SUFFICES ASSUME NEW c \in Caller, NEW k \in Key, NEW h \in Hour, Inv, Quote(c, k, h) PROVE Inv'
  OBVIOUS
<1> USE DEF Inv
<1>1. UNCHANGED <<_cache, _inflight, fetches, serving, sent, outages>>
  BY DEF Quote
<1>2. /\ callers' \in [Caller -> [pc : {"idle", "start", "spawn"}, key : Key]]
      /\ callers[c].pc = "idle" /\ callers'[c].pc # "spawn"
      /\ \A d \in Caller : d # c => callers'[d] = callers[d]
  BY DEF Quote, Types
<1>3. PICK kind \in {"live", "unavailable", "loading"} :
        /\ answer' = [answer EXCEPT ![c] = [key |-> k, hour |-> h, kind |-> kind]]
        /\ kind = "live" => h \in _cache[k].entries
  BY DEF Quote, Priced
<1>4. Types'
  BY <1>1, <1>2, <1>3 DEF Types, Quotation
<1>5. ClaimsHeld'
  BY <1>1, <1>2 DEF ClaimsHeld, Working
<1>6. OneHolder'
  BY <1>1, <1>2 DEF OneHolder, OneFetchPerDay, Working
<1>7. QuotesAreGenuine'
  BY <1>1, <1>3 DEF Genuine, QuotesAreGenuine, Types
<1>8. Genuine'
  BY <1>1, <1>7 DEF Genuine
<1> QED BY <1>4, <1>5, <1>6, <1>8

LEMMA StartInv == \A c \in Caller : Inv /\ StartFetch(c) => Inv'
<1> SUFFICES ASSUME NEW c \in Caller, Inv, StartFetch(c) PROVE Inv'
  OBVIOUS
<1> USE DEF Inv
<1>1. UNCHANGED <<_cache, fetches, answer, serving, sent, outages>>
  BY DEF StartFetch
<1>2. /\ callers' \in [Caller -> [pc : {"idle", "start", "spawn"}, key : Key]]
      /\ callers[c].pc = "start" /\ callers'[c].key = callers[c].key
      /\ \A d \in Caller : d # c => callers'[d] = callers[d]
      /\ callers[c].key \in Key
  BY DEF StartFetch, Types
<1>3. \/ callers'[c].pc = "idle" /\ _inflight' = _inflight
      \/ /\ callers'[c].pc = "spawn" /\ _inflight' = _inflight \cup {callers[c].key}
         /\ callers[c].key \notin _inflight /\ ~_cache[callers[c].key].cached
  BY DEF StartFetch, Types, Wanted
<1>4. Types'
  BY <1>1, <1>2, <1>3 DEF Types
<1>5. ClaimsHeld'
  <2> SUFFICES ASSUME NEW k \in _inflight'
               PROVE  \/ \E d \in Caller : callers'[d] = [pc |-> "spawn", key |-> k]
                      \/ \E i \in DOMAIN fetches' : fetches'[i].pc # "done" /\ fetches'[i].key = k
    BY DEF ClaimsHeld, Working
  <2>1. CASE k \in _inflight
    BY <1>1, <1>2, <2>1 DEF ClaimsHeld, Working
  <2>2. CASE k \notin _inflight
    BY <1>2, <1>3, <2>2
  <2> QED BY <2>1, <2>2
<1>6. OneHolder'
  BY <1>1, <1>2, <1>3 DEF OneHolder, OneFetchPerDay, Working
<1>7. Genuine'
  BY <1>1 DEF Genuine, QuotesAreGenuine
<1> QED BY <1>4, <1>5, <1>6, <1>7

LEMMA SpawnInv == \A c \in Caller : Inv /\ Spawn(c) => Inv'
<1> SUFFICES ASSUME NEW c \in Caller, Inv, Spawn(c) PROVE Inv'
  OBVIOUS
<1> USE DEF Inv
<1> DEFINE e == [pc |-> "check", key |-> callers[c].key, data |-> {}]
           n == Len(fetches) + 1
<1>1. UNCHANGED <<_cache, _inflight, answer, serving, sent, outages>>
  BY DEF Spawn
<1>2. /\ callers' \in [Caller -> [pc : {"idle", "start", "spawn"}, key : Key]]
      /\ callers[c].pc = "spawn" /\ callers'[c].pc = "idle" /\ callers[c].key \in Key
      /\ \A d \in Caller : d # c => callers'[d] = callers[d]
  BY DEF Spawn, Types
<1>3. e \in Fetch /\ fetches' = Append(fetches, e) /\ fetches \in Seq(Fetch)
  BY <1>2 DEF Spawn, Fetch, Types
<1>4. /\ fetches' \in Seq(Fetch) /\ DOMAIN fetches' = DOMAIN fetches \cup {n} /\ n \notin DOMAIN fetches
      /\ fetches'[n] = e /\ \A i \in DOMAIN fetches : fetches'[i] = fetches[i]
  BY <1>3, AppendFacts
<1> HIDE DEF n
<1>5. Types'
  BY <1>1, <1>2, <1>4 DEF Types
<1>6. ClaimsHeld'
  <2> SUFFICES ASSUME NEW k \in _inflight
               PROVE  \/ \E d \in Caller : callers'[d] = [pc |-> "spawn", key |-> k]
                      \/ \E i \in DOMAIN fetches' : fetches'[i].pc # "done" /\ fetches'[i].key = k
    BY <1>1 DEF ClaimsHeld, Working
  <2>1. CASE k = callers[c].key
    BY <1>4, <2>1
  <2>2. CASE k # callers[c].key
    BY <1>2, <1>4, <2>2 DEF ClaimsHeld, Working
  <2> QED BY <2>1, <2>2
<1>7. OneHolder'
  <2>1. callers[c].key \in _inflight
        /\ \A i \in DOMAIN fetches : Working(i) => fetches[i].key # callers[c].key
        /\ \A d \in Caller : callers[d].pc = "spawn" /\ callers[d].key = callers[c].key => d = c
    BY <1>2 DEF OneHolder
  <2>2. OneFetchPerDay'
    BY <1>1, <1>4, <2>1 DEF OneHolder, OneFetchPerDay, Working
  <2> QED BY <1>1, <1>2, <1>4, <2>1, <2>2 DEF OneHolder, Working
<1>8. Genuine'
  BY <1>1, <1>4 DEF Genuine, QuotesAreGenuine
<1> QED BY <1>5, <1>6, <1>7, <1>8

LEMMA ThreadInv == \A i \in DOMAIN fetches : Inv /\ FetchStep(i) => Inv'
<1> SUFFICES ASSUME NEW i \in DOMAIN fetches, Inv, FetchStep(i) PROVE Inv'
  OBVIOUS
<1> USE DEF Inv
<1>1. PICK e \in Fetch :
        /\ fetches' = [fetches EXCEPT ![i] = e] /\ e.key = fetches[i].key
        /\ fetches[i].pc # "done"
        /\ \/ Check(i) /\ e.data = fetches[i].data
                       /\ (e.pc = "done" <=> _cache[fetches[i].key].cached)
           \/ Request(i) /\ e.pc = "store"
                         /\ (e.data = fetches[i].data \/ e.data \subseteq sent'[fetches[i].key])
           \/ Store(i) /\ e.pc = "done" /\ e.data = fetches[i].data
  BY ThreadStep
<1> DEFINE k == fetches[i].key
<1>2. /\ fetches' \in Seq(Fetch) /\ DOMAIN fetches' = DOMAIN fetches
      /\ fetches'[i] = e /\ \A j \in DOMAIN fetches : j # i => fetches'[j] = fetches[j]
      /\ k \in Key /\ e.data \subseteq Hour
  <2>1. fetches \in Seq(Fetch) /\ fetches[i] \in Fetch
    BY DEF Types
  <2>2. k \in Key /\ e.data \subseteq Hour
    BY <2>1 DEF Fetch
  <2> QED BY <1>1, <2>1, <2>2, ReplaceFacts
<1>3. k \in _inflight /\ ~_cache[k].cached
      /\ \A j \in DOMAIN fetches : j # i /\ fetches[j].pc # "done" => fetches[j].key # k
      /\ \A c \in Caller : callers[c].pc = "spawn" => callers[c].key # k
  BY <1>1 DEF OneHolder, OneFetchPerDay, Working
<1>4. ASSUME UNCHANGED <<_cache, _inflight, callers, answer, serving, outages>>,
             e.pc # "done", sent' \in [Key -> SUBSET Hour],
             \A q \in Key : sent[q] \subseteq sent'[q], e.data \subseteq sent'[k]
      PROVE  Inv'
  <2>1. Types'
    BY <1>2, <1>4 DEF Types
  <2>2. ClaimsHeld'
    BY <1>1, <1>2, <1>4 DEF ClaimsHeld, Working
  <2>3. OneHolder'
    BY <1>1, <1>2, <1>4 DEF OneHolder, OneFetchPerDay, Working
  <2>4. QuotesAreGenuine'
    <3>1. \A c \in Caller : answer[c].key \in Key
      BY DEF Types, Quotation
    <3> QED BY <1>4, <3>1 DEF Genuine, QuotesAreGenuine
  <2>5. \A q \in Key : _cache'[q].entries \subseteq sent'[q]
    BY <1>4 DEF Genuine
  <2>6. \A j \in DOMAIN fetches' : fetches'[j].data \subseteq sent'[fetches'[j].key]
    <3>1. ASSUME NEW j \in DOMAIN fetches PROVE fetches[j].key \in Key
      <4>1. fetches[j] \in Fetch
        BY DEF Types
      <4> QED BY <4>1 DEF Fetch
    <3> QED BY <1>1, <1>2, <1>4, <3>1 DEF Genuine
  <2> QED BY <2>1, <2>2, <2>3, <2>4, <2>5, <2>6 DEF Genuine
<1>5. CASE Check(i)
  <2>1. /\ UNCHANGED <<_cache, _inflight, callers, answer, serving, sent, outages>>
        /\ fetches[i].pc = "check"
    BY <1>5 DEF Check
  <2>2. e.pc # "done" /\ e.data = fetches[i].data
    BY <1>1, <1>3, <1>5, <2>1 DEF Request, Store
  <2>3. sent' \in [Key -> SUBSET Hour] /\ e.data \subseteq sent'[k]
    BY <2>1, <2>2 DEF Types, Genuine
  <2> QED BY <1>4, <2>1, <2>2, <2>3
<1>6. CASE Request(i)
  <2>1. /\ UNCHANGED <<_cache, _inflight, callers, answer, serving, outages>>
        /\ fetches[i].pc = "request"
    BY <1>6 DEF Request
  <2>2. e.pc = "store" /\ (e.data = fetches[i].data \/ e.data \subseteq sent'[k])
    BY <1>1, <1>6, <2>1 DEF Check, Store
  <2>3. sent' \in [Key -> SUBSET Hour] /\ \A q \in Key : sent[q] \subseteq sent'[q]
    <3>1. CASE serving
      <4>1. PICK data \in SUBSET Hour \ {{}} : sent' = [sent EXCEPT ![k] = @ \cup data]
        BY <1>6, <3>1 DEF Request
      <4> QED BY <1>2, <4>1 DEF Types
    <3>2. CASE ~serving
      BY <1>6, <3>2 DEF Request, Types
    <3> QED BY <3>1, <3>2
  <2>4. e.data \subseteq sent'[k]
    BY <1>2, <2>2, <2>3 DEF Genuine
  <2> QED BY <1>4, <2>1, <2>2, <2>3, <2>4
<1>7. CASE Store(i)
  <2>1. /\ UNCHANGED <<callers, answer, serving, sent, outages>>
        /\ _inflight' = _inflight \ {k}
        /\ _cache' = [_cache EXCEPT ![k] = [cached |-> TRUE, entries |-> fetches[i].data]]
        /\ fetches[i].pc = "store"
    BY <1>7 DEF Store, GiveBack
  <2>2. e.pc = "done" /\ e.data = fetches[i].data
    BY <1>1, <1>7, <2>1 DEF Check, Request
  <2>3. [cached |-> TRUE, entries |-> fetches[i].data] \in Day
    BY <1>2, <2>2 DEF Day
  <2>4. Types'
    BY <1>2, <2>1, <2>3 DEF Types
  <2>5. ClaimsHeld'
    BY <1>2, <1>3, <2>1 DEF ClaimsHeld, Working
  <2>6. OneFetchPerDay'
    <3>1. \A a, b \in DOMAIN fetches' :
            fetches'[a].pc # "done" /\ fetches'[b].pc # "done" /\ fetches'[a].key = fetches'[b].key
              => a = b
      BY <1>2, <2>2 DEF OneHolder, OneFetchPerDay, Working
    <3>2. \A a \in DOMAIN fetches' : fetches'[a].pc # "done" => fetches'[a].key \in _inflight'
      BY <1>2, <1>3, <2>1, <2>2 DEF OneHolder, OneFetchPerDay, Working
    <3>3. \A q \in _inflight' : ~_cache'[q].cached
      BY <2>1 DEF OneHolder, OneFetchPerDay, Types
    <3> QED BY <3>1, <3>2, <3>3 DEF OneFetchPerDay, Working
  <2>7. OneHolder'
    BY <1>2, <1>3, <2>1, <2>2, <2>6 DEF OneHolder, Working
  <2>8. Genuine'
    <3>1. \A q \in Key : _cache'[q].entries \subseteq sent'[q]
      BY <2>1 DEF Genuine, Types
    <3>2. \A j \in DOMAIN fetches' : fetches'[j].data \subseteq sent'[fetches'[j].key]
      BY <1>1, <1>2, <2>1, <2>2 DEF Genuine
    <3>3. QuotesAreGenuine'
      BY <2>1 DEF Genuine, QuotesAreGenuine
    <3> QED BY <3>1, <3>2, <3>3 DEF Genuine
  <2> QED BY <2>4, <2>5, <2>7, <2>8
<1> QED BY <1>5, <1>6, <1>7 DEF FetchStep

LEMMA NextInv == Inv /\ [NextPrices]_priceVars => Inv'
<1> SUFFICES ASSUME Inv, [NextPrices]_priceVars PROVE Inv'
  OBVIOUS
<1>1. CASE GoDown \/ ComeUp
  <2>1. serving' \in BOOLEAN
    <3>1. serving' = TRUE \/ serving' = FALSE
      BY <1>1 DEF GoDown, ComeUp
    <3> QED BY <3>1
  <2>2. outages' \in Nat
    BY <1>1 DEF GoDown, ComeUp, Inv, Types
  <2>3. UNCHANGED <<_cache, _inflight, callers, fetches, answer, sent>>
    BY <1>1 DEF GoDown, ComeUp
  <2>4. Types' /\ ClaimsHeld'
    BY <2>1, <2>2, <2>3 DEF Inv, Types, ClaimsHeld, Working
  <2>5. OneHolder' /\ Genuine'
    BY <2>3 DEF Inv, OneHolder, OneFetchPerDay, Genuine, QuotesAreGenuine, Working
  <2> QED BY <2>4, <2>5 DEF Inv
<1>2. CASE UNCHANGED priceVars
  BY <1>2 DEF priceVars, Inv, Types, ClaimsHeld, OneHolder, OneFetchPerDay, Genuine, QuotesAreGenuine,
              Working
<1> QED BY <1>1, <1>2, QuoteInv, StartInv, SpawnInv, ThreadInv DEF NextPrices, CallerStep

LEMMA SpecInv == PricesSpec => []Inv
  BY InitInv, NextInv, PTL DEF PricesSpec

-----------------------------------------------------------------------------

\* Every variable keeps its type, and every claimed day has somebody who will give the
\* claim back.
THEOREM PricesTypeCorrect == PricesSpec => []PricesTypeOK
<1>1. Inv => PricesTypeOK
  BY TypeParts DEF Inv
<1> QED BY <1>1, SpecInv, PTL

\* A day is fetched by one thread at a time, and by none once it is cached.
THEOREM FetchedOnce == PricesSpec => []OneFetchPerDay
<1>1. Inv => OneFetchPerDay
  BY DEF Inv, OneHolder
<1> QED BY <1>1, SpecInv, PTL

\* A price is only quoted for an hour the service has sent for that day.
THEOREM NoInventedPrice == PricesSpec => []QuotesAreGenuine
<1>1. Inv => QuotesAreGenuine
  BY DEF Inv, Genuine
<1> QED BY <1>1, SpecInv, PTL

\* What is cached is never overwritten.
THEOREM Stays == PricesSpec => CachedStays
<1>1. Inv /\ [NextPrices]_priceVars => [\A k \in Key : _cache[k].cached => _cache'[k] = _cache[k]]_priceVars
  <2> SUFFICES ASSUME Inv, NextPrices, NEW k \in Key, _cache[k].cached PROVE _cache'[k] = _cache[k]
    OBVIOUS
  <2>1. ASSUME NEW i \in DOMAIN fetches, Store(i) PROVE _cache'[k] = _cache[k]
    <3>1. fetches[i].key \in _inflight
      BY <2>1 DEF Inv, OneHolder, OneFetchPerDay, Working, Store
    <3>2. fetches[i].key # k
      BY <3>1 DEF Inv, OneHolder, OneFetchPerDay
    <3> QED BY <2>1, <3>2 DEF Store, Inv, Types
  <2>2. ASSUME UNCHANGED _cache PROVE _cache'[k] = _cache[k]
    BY <2>2
  <2> QED BY <2>1, <2>2 DEF NextPrices, CallerStep, FetchStep, Quote, StartFetch, Spawn, Check, Request, GoDown,
                          ComeUp
<1> QED BY <1>1, SpecInv, PTL DEF PricesSpec, CachedStays
=============================================================================

# Formal models of the AMS/HAN gateway and its dashboard

TLA+ specifications of the AMS-HAN-Gateway repository: an ESP32 firmware that reads
a power meter's HAN port and sends lines over USB, and a Python (Reflex) dashboard
that ingests these lines, stores them, replays logs, detects events and prices the
energy. Each module is a translation of named source lines (`PROJECT.json`, "map"),
is model-checked by TLC on a small instance, and most have their main properties proved
by TLAPS, for every value of the constants, in the `...Proofs` modules (section 4).

Paths are relative to the repository: `app/` stands for `ams_han_reflex_app/`, `fw/`
for `firmware/esp_idf_ams_han_gateway_wroom32d/main/`.

## 1. Inventory

| Component | State | Operations | Hard behaviour | What makes it correct | Modules |
|---|---|---|---|---|---|
| Serial session: `SerialManager`, `ConnectionService` | `_serial`, `_thread`, `_stop`, `_tx_queue` | connect, disconnect, send, the worker loop | UI thread and workers without a common lock; `join` with a timeout; faults anywhere | one reader, commands stay in their session and in order, the UI comes back, lost links heal | `SerialManager`, `CommandChannel` |
| Meter input: `han_reader.c`, `telemetry.c` | frame buffer, escape flag, text line, counters, ring | one per byte, deliver | stuffing, overflow, lost or changed bytes, text mixed with frames | exact on a clean line, damage stays local, gaps accounted for, averages recent | `HanReader` |
| Gateway control: `app_main.c`, `config_store.c`, `wifi_manager.c`, `app_mqtt.c` | configuration, NVS, Wi-Fi bit, MQTT client | commands, start, status task, events of the links | three tasks without locks, power loss between two NVS keys | acknowledged is durable, one client unless tasks met, an enabled client is armed again unless none could be had | `Gateway` |
| Line protocol: `protocol.py`, `frame_parser.py`, `serial_link.c` | the line under way | print, escape, split, mask, parse | two implementations that must agree; lines printed in pieces by several tasks | what is typed arrives, secrets stay masked, what is shown was sent | `Protocol`, `Wire` |
| Ingest and runtime state: `GatewayService`, `RuntimeService` | device, frame detail, snapshot, previous sample, engine, cache and epochs | `_on_line`, `_on_state`, reset, cached views | worker under `_lock`, UI mostly without | sources never mix, no stale view | `Dashboard`, `Wire` |
| Replay: `ReplayPlayer`, `ReplayService` | entries, position, active, paused | load, start, pause, resume, stop, advance | chunks, the end of the log, the same ingest path as live data | every line once per lap, in order; it ends | `Dashboard` |
| History: `HistoryService`, `SnapshotStore` | SQLite table, bounded deque | record, read, summarise, export, clear | chosen per record by the replay's state; SQL and Python do the same work | each reading in the store of its source; both answer alike | `Dashboard`, `Records` |
| Spot prices: `PriceProvider` | cache, claims, threads | quote, fetch, capacity estimate | callers and fetch threads; failing service | one fetch per day, genuine quotes, loading ends | `PriceProvider`, `Costs` |
| Event engine: `EventEngineV2` | active outages and sessions, cooldown memory | `process_sample`, replacement | thresholds with hysteresis, cooldowns against recurring faults | events pair up, nothing is swallowed | `EventEngine` |
| Analysis and cost: `analysis.py`, `mains.py`, `cost_service.py` | none | pure functions | boundaries of hours, days, gaps and steps; the same energy computed several times | the views agree | `Analysis`, `Mains`, `Costs` |
| Settings and event log files | JSON files | load, save, batched flush, relabelling | two writers, a crash in a write | a crash loses less than a batch, the port is remembered | `EventBook`, `Page` |
| User interface: `state_parts/`, the page | fields, open tab, counters | button handlers, `live_tick` | several pages on one service; worker reports during connect | the open tab is fresh, a false status heals | `Page`, `Panels` |
| Provisioning stub | none | start, stop | none | - | not modelled |

Interaction: `han_task` delivers snapshots to `serial_link.c`, which prints them between
the lines of the console and status tasks. A serial worker thread of the dashboard calls
`GatewayService._on_line` and `_on_state`, which take `_lock`. The Reflex event loop, one
thread, runs the buttons' handlers and `live_tick` of every page, which either feeds a
chunk of the replay through the same `_on_line` or tries to reconnect. Each snapshot is
recorded, then given to the event engine with a baseline from the history, then the
events are appended and saved, then the caches are dropped. Cost views ask the price
provider, which starts fetch threads.

The hazards of this code, each at its line with the properties that cover it or the
reason why none does, are in `PROJECT.json` under "hazards".

## 2. Modules

`CommandChannel` is the abstract specification that `SerialManager` implements. `Views`
composes `Mains`, `Analysis`, `Records`, `Costs`, `Protocol`, `Panels` and `Wire`. The
`MC...` modules hold the values of constants that a .cfg cannot write, and nothing else.

### SerialManager and CommandChannel (`app/backend/serial_worker.py`, `app/service.py`)

The UI thread is a program counter `ui` through the steps of connect and disconnect;
worker `w`, the one started for the `w`-th opened port, is a program counter `pc[w]`
through `_worker`. A step ends where the code can block or another thread's step makes
a difference. `_lock` is held by a worker whose `pc` is "line". Ports opened are
numbered, so that a handle left by an earlier session can be told from the current
one. Faults (open, read, write, callback) are nondeterministic and bounded.

Three constants name what the code leaves to timing: `JoinTimesOut` (a worker may
outlive the one second of `join`), `ExitWindow` (another thread may run between the
worker's `ser.close()` and `self._serial = None`), `WriteFaults` (`write`/`flush` may
raise). `Timely` is the conjunction of no `JoinTimesOut` and no `ExitWindow`.

`CommandChannel` is what a user of the session may count on: a session is opened, the
commands sent in it reach its port in order, none left out and each once, until the
session is lost with all that is pending. The refinement mapping takes for the session
the open port whose worker has not died in `write`, and for the pending commands the one
in the worker's hand followed by the queue (`ImplementsChannel`).

The two reads in `connected` are one step, and a probe of a port is one step that
succeeds or fails.

### HanReader (`fw/han_reader.c`, `fw/telemetry.c`)

One action per kind of byte and reader state. Bytes are classes: the flag, the escape,
their counterparts under `^ 0x20`, the line end and its counterpart, letters, and the
rest. Which byte sequences `parse_kaifa_kfm001`, `parse_csv_kv` and
`parse_preformatted_frame` accept is given by constants; what happens in each outcome
is in the model. The meter, a tester who types lines, and noise on the line are
external. A byte on the line knows the frame it was sent in; `sent`, which says of each
frame whether a fault has hit it, and `delivered` are history variables. The exactness of
the reader is stated as a matching: a function from the frames that were sent to the
snapshots that were delivered, which keeps their bytes and their order.

### Gateway (`fw/app_main.c`, `fw/config_store.c`, `fw/app_mqtt.c`, `fw/wifi_manager.c`)

Console, status and main task are three program counters over one `cfg`, one flash `nvs` and
one MQTT client. A save is one step per key, and power can go before each; a write error ends
it, and the answer is RSP:OK all the same. Stop, destroy, forgetting the client (`s_client`
and `s_state` at once), init and start are steps of their own, with the client's events and
the other tasks' steps in between: there is no lock. A client may not be obtained (NULL,
which nobody checks) and may not start. Using a client that another task has destroyed may
end the device at any point, which `Crash` covers. `promised` is a history variable: what
each key may hold after the commands that were acknowledged.

Nothing keeps two tasks from meeting at the client. `met` is a history variable that says
whether a command has met another task there since the start; the main task and the status
task, which it starts, cannot meet. `OneClient` has a part for every interleaving (what runs
exists, and where the tasks leave `s_client` it points to a client that exists) and one for
as long as `met` is false (the client left behind is the only one, and none is left after
MQTT_DISABLE); after a meeting a client can run that nobody stops any more. `Rearms` holds
however they meet, with the one exception it names: a client that could not be had or started
(`Abandoned`) leaves the state at CONNECTING, which the status task takes for served.

The keys are `ssid`, `pass`, `en` and `broker`, the last for the four keys written in a row
for it; `wifi_configured` says no more than that there is an SSID. The connected bit comes
and goes freely; CLEAR_WIFI is SET_WIFI of an empty network; which network the driver
rejoins, the topic prefix and the messages themselves are left out. A command that arrives
while `app_main` still starts the components is taken after it.

### Dashboard (`app/service.py`, `app/services/`, `app/support/replay_player.py`)

A reading is its source (0: the gateway, k: the k-th replay loaded) and its number.
The worker's `_on_line` takes two or three steps (recorded, sampled, invalidated)
because the UI thread reads without the lock; a replayed line is one step, since it
runs on the UI thread under `_lock`. A cached view takes three (key, build, store).
A snapshot whose time is no date ("undated") raises in the event engine once there is a
sample before it: of the gateway, the worker closes the link (`LiveRaises`); of a replay, the
record is written, the rest of the chunk is lost and no cache is dropped (`FeedRaises`).
`broken` and `stale` remember that for the properties.
`engine` is the set of sources whose samples shaped the event engine. The three epochs
are one counter, as every operation modelled here only compares whole keys.
`ConnectDuringReplay` says whether the user may press Connect while a replay is loaded,
which the service does not prevent.

### PriceProvider (`app/domain/pricing.py`)

Each look under `_cache_lock` is a step; what lies between two looks is another. A day's
entries are the set of hours with a usable price, empty for every kind of failure.

### EventEngine (`app/domain/event_engine.py`, `_derive_baseline`)

A reading is the voltages, the signed power and the label that `classify_phase_delta`
computes from the currents. One action applies all the rules to a sample, as the code
does without interruption: no two rules of one sample share a key, except the end of a
session, which is applied to the sessions as they are after the start. `log` holds the
events of the current engine; it is history, as the code's event log survives the engine.

### EventBook (`app/support/event_log_store.py`, `app/services/runtime_service.py`)

The worker appends, counts and saves the events of a snapshot; the page relabels and
saves them without the lock; the process can end at any step, between the truncation of
the file and its content too. A save is copy, cut, write and reset of the count. An event
is a number and the network its label was made for, so that an order, a loss and an old
label can all be told. A walk of the deque that meets an append raises, as Python's does.

### Page (`app/state_parts/`, `app/service.py`, `app/support/settings_store.py`)

Handlers run to their end on the one event loop; only connect is two steps, because the
serial worker it starts can report a loss before it ends. Every page has its own fields
(`draft`), which each tick of it overwrites from the service. Databases are paths that can be
opened or not. A port that has answered the probe may fail to open, which ends the tick
(`Tick_fails`) or the handler (`connect_fails`; of the auto-connect button it leaves nothing
behind). `worked` is a history variable, the port of the last connect that went through, or
none once a crash has torn the settings file.

### Views: Analysis, Mains, Records, Costs, Protocol, Panels, Wire

Pure functions are operators over the newest-first list of readings, in ticks of a sixth of
an hour and integers of power; a quotient is kept as a sum and a count and compared by
cross-multiplication. `Records` has each query twice, as SQL and as Python do it. `Protocol`,
`Panels` and `Wire` have a specification of their own (`ProtocolSpec`, `PanelsSpec`,
`WireSpec`) and properties of their own; they share no variable, and `Views!Spec` lets each
move at its own pace. `Protocol` works on sequences of characters, of which five tell
everything apart: comma, backslash, a letter n, a line end, another; its `command` is a
command being typed, character by character and field by field. `Panels` has the age of each
panel of the page in ticks. `Wire` is the serial line: a FRAME is a head, its bytes and a
line end, each printed by a call of its own, between which the other tasks print; the
dashboard parses what arrives between two line ends. SNAP lines come from two tasks: the HAN
task's, one for each reading that parsed, and the console's for GET_STATUS, which the
dashboard sends at every connect. The latter prints a copy of a global that the HAN task
overwrites without a lock (`CopySnapshot`), so it can be old, of two readings, or empty; it
can also end up inside a FRAME. `Views` feeds each function the rows its caller asks for
(`RowLimits`): the page uses 5, 10 and 20 times the history limit the user has typed and
12000, the week all. Assumed: one `printf` is not interrupted by another (the C library's
stream lock). A read that gives up inside the output of one `printf` is left out, as are
STATUS lines, which nothing sends.

## 3. Runs

| Run | Shows | Bounds | States |
|---|---|---|---|
| `serial_timely` | one reader, commands in their session, a worker finds its port, the UI returns, links heal, the channel is implemented | 5 connects, 2 faults, 2 user operations, 4 sends | |
| `serial_rough` | no command is written twice, whatever the timing | 3 connects, 1 fault, 1 operation, 3 sends, all three timing constants on | |
| `serial_zombie` | violation, see 5 | 2 connects | |
| `han_reader` | clean line exact, damage local, gaps counted, averages recent | 3 frames of 6 kinds, 1 line of 4 kinds, 1 fault; buffers of 3 and 4 bytes, window 2 | 3 800 000 |
| `gateway` | acknowledged survives, one client unless a command met another task, armed again unless none could be had | no network but the empty one, 1 broker, 2 clients; commands and power losses unbounded | 1 187 000 |
| `gateway_broker` | violation, see 5 | 2 brokers, no network to configure | |
| `dashboard` | sources apart, live data persisted, replay in order, fresh cache, replay ends | 4 logs, undated lines among them, 2 lines a tick, 3 replay records, 2 live lines, 5 operations, 2 links | 380 000 |
| `prices` | one fetch per day, genuine quotes, stable cache, loading ends | 2 callers, 2 days, 2 hours, 3 threads, 2 outages | |
| `events` | active is open, opened once, cooldown kept, lasting outage reported | 5 samples of 5 kinds, 20 s or 60 s apart, 1 replaced engine, 2 phases | |
| `book` | a crash loses less than a batch, labels and order are kept | 6 events in bursts of up to 2, a log of 4, a save every 3 | 5 100 000 |
| `views` | nine properties of what is shown, below | 4 readings of 3 kinds, 5 hours, commands of up to 7 characters in lines of 8, 3 lists on the wire; limits of 1, 2, 3 and 4 rows in two combinations | 1 120 000 |
| `page` | the port and the database are remembered, a false status heals | 2 pages, 2 ports, 3 databases of which 2 open; otherwise unbounded | 434 000 |

The properties of `views`:

* `HeatmapIsExact` - the buckets of the usage map against a tick-by-tick definition;
* `ViewsAgree` - energy windows, cost rows, usage map, capacity hours, top hours, daily
  graph and the running hour, computed by seven functions from as many rows as the page
  gives each, on every hour, day or week that both sides reach in full (`Reaches`);
* `ReplayLooksLikeLive` - SQL queries against the deque's list comprehensions;
* `FallbackIsSurfaced` - a live price that arrives in the middle of the loop over the
  intervals leaves no hour priced by the fallback without a warning;
* `CapacityFollowsLadder` - the basis against the best choice of three days;
* `CommandArrives`, `SecretsStayMasked` - the Python escaping against the C splitter and
  the mask;
* `OpenTabIsFresh` - ages of the panels for any order of ticks, tabs and buttons;
* `ShownAsPrinted` - what the dashboard believes after lines that were torn or merged, and
  after a SNAP that the console printed for GET_STATUS.

Why the bounds are enough. *Serial*: the hazards need an old worker, the current one and a
third session to recover in; each further session starts from a state the model has already
reached. The bound on `conns` ends reconnection, so it exceeds what faults and operations can
use up. *HanReader*: payloads are shorter than, equal to and longer than the buffer, with
stuffed bytes at each place and a line end in the overflowing part; three frames turn a
window of two and put a damaged frame between two good ones. *Gateway*: two clients are the
one in use and the one left over; the broker differs from its default or not, and the finding
needs a second one. The Wi-Fi keys are written but stay empty, which saves states; that they
survive too is proved (`Acknowledged`). *Dashboard*: three lines make one full and one
partial chunk, a line that raises is the first or the last of its chunk, three records are
fewer than two laps, five operations load, start, pause, stop and load again. *Prices*: two
callers race for one day while a second day keeps another thread busy. *Events*: with 20 s
and 60 s between samples every cooldown (8, 20, 30 and 60 s) is met on both sides or at its
boundary; five samples open, close, suppress and reopen an outage. *EventBook*: six events
turn a log of four and cross the threshold of three twice. *Views*: an hour of six ticks, a
day of three hours and a week of two days put four readings on every side of each boundary,
the half-hour gap among them, one clock that goes backwards and one reading without a time;
the limits cut the table before each view's neighbour, or give the graph more rows than the
costs; five hours on three days give the estimate a choice. *Page*: a second page is one with
stale fields, a second port one that is not preferred.

Fairness. *Serial*: threads run, the page's timer ticks, a thread waiting for the lock
gets it (the worker sleeps 10 ms between lines, hence strong fairness); the user is never
obliged to do anything. *Gateway*: a task that has begun something goes on, and the status
task looks every five seconds; commands, power and Wi-Fi are not fair. *Dashboard*: the
timer ticks, and a line or a view under way is finished. *Prices*: a quote that began
returns, a request ends (6 s timeout). *Page*: a loaded page ticks, a
connect ends, and a port that answers the probe does not fail to open every time.
`EventBook` and `Views` have safety only.

Deadlock checking is on for `page`, which never stops. It is off elsewhere: the bounds of
a model can be used up, and with `gateway_broker` power may stay away.

Every property of a passing run is sensitive to a plausible change of the code: the
definitions marked "(mutated: ...)" are such changes, and `PROJECT.json` names, for each
property, the one that TLC finds violating it.

## 4. Proofs

The invariants below hold for all constants that meet the named assumptions.

* **SerialManagerProofs** - type correctness, and under `Timely` the invariant
  `SessionInv`. `OneReader` alone is not inductive: that a connect finds no busy worker
  follows from the old worker owning the handle (`BusyOwnsSession`: a busy worker is the
  manager's `thread`, its port is `_serial` and open, every queued command is for it)
  and from no worker being busy between the close of a session and the start of the
  next (`Between`). From it: `OneReader`, `CommandsStayInSession`, and `WorkerFindsPort`,
  the assertion of `_worker`, which can fail without `Timely`. `WrittenOnce` is proved
  without `Timely`, for late workers and several on one queue: commands are queued in the
  order of their numbers, and all that were taken are older than all in the queue (`OnceInv`).
  The refinement, under `Timely`: `Spec => Channel!Spec`. Initial states map to initial
  states; each action maps to a step of the channel or to a stutter. What is needed beside
  `SessionInv` is `LinkInv`: what the queue and the worker's hand hold belongs to the session
  that is open, and nothing is left when none is.
* **ReaderProofs** - `HanReader` and `Protocol`, the two places where the gateway undoes an
  escaping byte by byte. Of `HanReader`: type correctness, which contains the bounds of the
  frame buffer, the text line and the ring; `GapsAreCounted`, strengthened by "no delivered
  number exceeds `s_seq`"; `AveragesAreRecent`, from `RingInv`, which says of every place of
  the ring which reading it holds.
  `CleanLineIsExact` and `DamageIsLocal` rest on `LineInv`, which says where a frame that no
  fault has hit can be: still to come, with its opening flag on the line (`Ahead`), or under
  way (`Under`): its bytes are those read followed by those to come, the buffer holds the
  first if they fit (`Holding`), and the line the second, stuffed, with their flag. `UnderStep`
  is the heart: every byte read keeps a frame under way until the flag that finds it in the
  buffer. The rest is a matching of what has left the line with what was delivered, which a
  step keeps or extends by one (`DamageInv`), and, on a clean line, covers all that was
  delivered, with the overflows counted beside it (`CleanInv`).
  Of `Protocol`: `CommandArrives` and `SecretsStayMasked`, for fields of any text. The reader,
  given an escaped text, ends with that text in its buffer (`ReadField`), by induction over
  the text; given a command, with its fields (`ReadCommand`), by induction over the fields.
* **GatewayProofs** - `StoreInv` for `AckedSurvives`: the keys before the one to be saved
  already hold what the command promised (`SavedSoFar`), `cfg` and a reset's defaults are
  among what is promised (`CfgPromised`, `ResetIsDefault`). `ClientInv` for `OneClient`. For
  every interleaving: what runs exists (`Owned`); `s_client` may dangle only while a task is
  between destroying and forgetting (`Pointed`); the status task does nothing before the main
  task is done (`MainFirst`), so that only a command can make two meet. While none has
  (`Lone`): at most one task is at the client (`AtMostOne`), at each of its steps the
  client's handle, state and existence have the shape that step leaves (`Shape`), and a
  disabled configuration is on its way to no client (`DisabledMeansNone`). Together they give
  type correctness.
* **DashboardProofs** - type correctness; `SourcesStayApart` for a user who does not
  connect during a replay, strengthened by "a line of the gateway is being applied only
  while connected, a chunk only while loaded"; on top of it `LiveIsPersisted`;
  `ReplayFeedsInOrder`, under the same condition, by `FeedInv`: the records are the last of
  the snapshots of the laps and lines fed so far (`RecordsOf`), and what waits in the chunk
  are the lines of the log that follow, unless a line has raised; `CacheIsFresh`,
  strengthened by "a view under construction with the current key was built from the
  current records, or the line that changed them has still to invalidate".
* **ViewsProofs** - what the dashboard shows, for any readings, hours, rhythms and frames.
  `FallbackIsSurfaced`: the table holds rows whose values are numbers (`TableInv`), so the
  intervals are a sequence of whole intervals (`IntervalsFacts`); the day is the union of its
  hours, as two starts of one hour are of one day (`HourInDay`), and a sum over it is the sum
  of the sums of its groups (`SumGrouped`). `CapacityFollowsLadder`: the hours are one row
  each (`HoursInv`); every day has one best hour (`BestHours`), the first three of these are
  as many as there are days, and none left out exceeds them (`TopHours`), so that any choice
  of hours of different days is dominated, element by element (`SumOfLargest`); a mean of as
  many is then no larger (`TopIsLargest`). The ladder rises, so its lowest step not below the
  basis is the one the code picks (`LadderOf`). Sums are the fold of the library, unfolded
  once (`SumExists`) and shown not to depend on the order in which it takes the elements
  (`AddedFirst`). `ReplayLooksLikeLive`: the rows are the same, counted from the other end
  (`Mirror`, `NewestTwice`); where SQL sorts by time and Python only selects, the places with
  a time rise with it, because the meter's clock does (`ForwardRises`), so the order by time
  is the order of arrival (`SinceAgree`). `HeatmapIsExact`: the ticks of an hour are pairs of
  an interval and a tick, counted once by interval (`Column`: as many as the segment is long,
  so sums over segments are sums over ticks, `TickSum`) and once by hour (`SignedIsKept`); no
  tick is in two intervals (`NoTickTwice`), so a full hour is the most a bucket gets; merging
  adds up the switches and every hour has one weekday and one hour of day (`WeekdaysKeep`);
  the sort of the three conductors puts a largest step first (`OrderedIs`) and the four
  labels of a TN network are different, so each step that shows is in one slot
  (`SeenIsCounted`). `ViewsAgree`: every view is a sum over the same intervals under another
  name, the place in the table or the start, and one-to-one renaming keeps a sum
  (`SumMoved`). The rows a view gets are the end of the table, and when they reach back to a
  start, all the readings from it on are among them (`ReachesBack`, `SinceIsEnd`); from there
  the windows (`WindowsAre`), the intervals (`SumOfIntervals`), the heatmap's hours
  (`HourInMap`) and the day of the costs (`DayOfCosts`) are each the sum over the places of
  their hours. `Stronger` is a strict order of the hours, each of which the graph and the
  running hour have with the same average (`TopAre`). `OpenTabIsFresh`, from `AgeInv`, which
  ties each age to the tick count modulo the panel's rhythm. `ShownAsPrinted`, from an
  invariant of what is on the line between two line ends, whichever tasks printed it
  (`LineInv`), and one of the copy that an answer to GET_STATUS is about to print
  (`CopyInv`).
* **EventEngineProofs** - type correctness and `EngineInv`, which ties the dictionaries of
  the engine (active outages and sessions, times of the last events) to the newest event of
  each kind in the log. From it `ActiveIsOpen`, `OpenedOnce`, `CooldownKept`, and
  `LastingOutageIsReported`, which needs besides that an outage that is not active came
  after a report less than a minute old (`OutageIsKnown`).
* **EventBookProofs** - type correctness and `BookInv` for `BookIsKept`: every event of the log
  but the first `dirty` ones, the newest, is in the file at its place, one more while an event is
  appended and not yet marked (`WorkerInv`), and a save that nobody disturbs writes the log
  as it is (`Saved`).
* **PageProofs** - of `Page`, type correctness and `RemembersPort`, strengthened by
  `LinkIsKept`, which says of a connect under way which port it will leave in the settings. Of
  `PriceProvider`, which shares no state with it, one invariant, `Inv`, with types, "every claim
  has one holder, a caller about to start a thread or a working thread", and "what is cached
  was sent"; from it type correctness, `OneFetchPerDay`, `QuotesAreGenuine` and the action
  property `CachedStays`.

What a recursive definition computes is reached without an induction rule that takes an
operator: `<` is well-founded on the naturals (`NatLessThanWellFounded`), so a non-empty set of
naturals has a least element (`Least`), so a set of sequences that has the empty one and is
closed under `Append` has them all (`SequenceInduction`, cited with the set of the sequences
for which the fact holds). `FlattenSeq` and the readers, functions on `1 .. n` or `0 .. n`,
are unfolded once by the same argument. For finite sets the relation is
strict inclusion of their parts: a fact that holds of a part as soon as it holds of all that
have one element less holds of the whole (`FiniteInduction`).

Only model-checked: all liveness (`UiReturns`, `Heals`, `Rearms`, `ReplayEnds`,
`LoadingEnds`, `StatusHeals`), as the prover does not reason about ENABLED and fairness.
Every safety property that a passing run checks is a theorem. The two findings are statements
of what the code does not do.

## 5. Findings

| Run | The text | The code |
|---|---|---|
| `serial_zombie` | "automatic serial-port discovery and reconnect behavior", `README.md:243` | a raising `write` kills the thread without the exit block; `connected` stays true for ever |
| `gateway_broker` | "keeps MQTT alive across transient Wi-Fi changes without needing a reboot or a manual reconnect", `app_main.c:264` | a broker saved while Wi-Fi is away is not applied (line 186), though no command meets another task, and the old client is not idle when Wi-Fi returns (line 266): it goes on with the old broker |

Other behaviour met while modelling, which the models contain and no text of the repository
contradicts clearly enough to call it wrong:

* a worker that outlives `join` clears the port of the next session, whose worker then
  fails its assertion (`serial_worker.py:77,99,130`);
* the rest of a frame that overflowed is read as text, and can be delivered (`han_reader.c:279`);
* a manual connect while a replay is loaded records live readings with the replay
  (`service.py:343`);
* a failed price fetch is cached until the dashboard restarts (`pricing.py:81-91`);
* spread alarms are suppressed below 80 V, while recovery takes 180 V (`event_engine.py:106,126`);
* a disconnect the user asked for is undone by a tick (`service.py:341`), and fields being
  edited are overwritten by it (`connection.py:91-101`);
* a database path that cannot be opened is kept in memory before the error is raised, is
  saved with the next setting, and keeps the dashboard from starting (`service.py:801,243,84`);
* a relabelling that meets an append leaves the network changed, half of the labels old, the
  settings unsaved, and a second try returns at once (`runtime_service.py:98`, `service.py:263`);
* an MQTT client that cannot be created or started is never tried again: the state stays
  CONNECTING, and only IDLE is re-armed (`app_mqtt.c:250-253`, `app_main.c:266`); a broker host
  that makes no address is enough, until the next MQTT command or restart;
* MQTT_DISABLE that meets the status task at the client leaves a client running that nobody
  stops (`app_main.c:266`, `app_mqtt.c:216`);
* the views of the page differ where one is cut and another is not: with the default history
  limit and a SNAP every 10 s, 1000 rows (averages of the running hour) are 2.8 hours, 2000
  (strongest hours) 5.5, 4000 (graph and usage map) 11, 12000 (costs and capacity) 33, so the
  capacity step of a "month" is that of the last day and a half
  (`state_parts/analysis.py:65-110`);
* a SNAP printed for GET_STATUS can carry an older reading, parts of two, or only zeros, and is
  recorded like any other (`app_main.c:122`); one of zeros has no date and raises, which ends
  the worker and the link until the next tick (`event_engine.py:65`);
* a line that raises in a replay takes the rest of its chunk with it, and a cached view is not
  dropped until the next line (`service.py:529`, `runtime_service.py:224,233`);
* without samples the phase view calls the oldest of the last 200 readings current
  (`analysis.py:395-400`); a day that only exports is said to have a "Peak export" in an
  empty hour (499-503); a usage map cell without duration hides its switches; an IT
  network drops single-phase labels.

## 6. Not modelled

* Layout, colours and wording: most of `ams_han_reflex_app.py` and `components.py`, the
  texts and styles of `analysis.py`, the diagnostics texts of `analysis_service.py`.
  They hold no state and decide nothing.
* `signatures.py`: grouping of events into rows by text, without state.
* The arithmetic of derived electrical values in `telemetry.c` and `frame_parser.py`, and
  the contents of the MQTT discovery and sensor messages: data.
* Parsing of port labels, and whether a probe's answer is a gateway's.
* The Wi-Fi driver beyond its connected bit, the broker, the price service, the meter:
  external, modelled by what they can do to the code.
* The provisioning stub, which has no behaviour.
* The two reads inside `connected`, the two of the cache lookup, and an engine swapped in
  the middle of a sample: steps coarser than the code's, named at their hazards.

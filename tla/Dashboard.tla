----------------------------- MODULE Dashboard -----------------------------
(***************************************************************************)
(* Where the dashboard's readings come from and where they go:             *)
(* GatewayService (service.py) with its RuntimeService, HistoryService and *)
(* ReplayService.                                                          *)
(*                                                                         *)
(* Lines reach one ingest path from two sources.  A serial worker thread   *)
(* delivers the gateway's lines under GatewayService._lock; the UI thread  *)
(* feeds the lines of a loaded replay log, a chunk per tick.  The same UI  *)
(* thread runs the user's operations and builds cached views, mostly       *)
(* without the lock, so a line can be half applied when a view is built.   *)
(*                                                                         *)
(* The serial session is reduced to "connected" (SerialManager has the     *)
(* rest).  A reading is known by its source, 0 for the gateway and k for   *)
(* the k-th replay loaded, and its number within it.                       *)
(***************************************************************************)
EXTENDS Integers, Sequences, FiniteSets

CONSTANTS
  Logs,               \* the replay logs, each the kinds of the lines that
                      \* normalize_replay_line accepts
  LinesPerTick,       \* settings.replay_lines_per_tick
  ReplayMax,          \* maxlen of replay_records
  MaxLive,            \* bound: lines from the gateway
  MaxOps,             \* bound: operations of the user
  MaxLinks,           \* bound: connections to the gateway
  ConnectDuringReplay \* may the user press Connect while a replay is loaded?

\* A snapshot may carry a meter time that is no date; parse_line takes it all the same.
Snapshots == {"snap", "undated"}
Kind      == {"info", "frame"} \cup Snapshots

ASSUME DashboardAssumption ==
  /\ \A log \in Logs : log \in Seq(Kind)
  /\ LinesPerTick \in Nat \ {0} /\ ReplayMax \in Nat \ {0}
  /\ MaxLive \in Nat /\ MaxOps \in Nat /\ MaxLinks \in Nat
  /\ ConnectDuringReplay \in BOOLEAN

NoSource == -1
Live     == 0
Source   == Nat \cup {NoSource}
Reading  == [src : Nat, n : Nat]

VARIABLES
  connected,      \* serial.connected
  worker,         \* the worker in on_line: "idle", "saved" (history written),
                  \* "sampled" (events derived, caches not yet invalidated)
  loaded, active, paused, entries, position,   \* ReplayPlayer
  feed,           \* the positions of the chunk that advance_replay still has to feed
  db,             \* the snapshots table, oldest first
  replay_records, \* the same for the replay, bounded
  device, kfm, latest,  \* the sources of device_info, latest_kfm_detail and
                        \* latest_snapshot
  previous,       \* the source of the last of recent_phase_samples
  engine,         \* the sources whose samples have shaped the event engine
  epoch,          \* _data_epoch, _event_epoch and _settings_epoch together
  cache,          \* _cache
  stale,          \* history: a line that raised has recorded its reading, and the caches
                  \* have not been invalidated since
  view,           \* the cached view under construction: its stage, key and value
  load,           \* history: replays loaded so far
  laps,           \* history: how often the loaded replay was fed from its first line
  broken,         \* history: since it was loaded, the history was cleared, or a line
                  \* raised and the rest of its chunk was lost
  received,       \* history: the snapshots of the gateway since the last clear
  lives, ops, links \* counters for the bounds

playerVars  == <<loaded, active, paused, entries, position>>
historyVars == <<db, replay_records>>
runtimeVars == <<device, kfm, latest, previous, engine>>
cacheVars   == <<epoch, cache, stale>>
ghostVars   == <<load, laps, broken, received>>
vars == <<connected, worker, playerVars, feed, historyVars, runtimeVars, cacheVars,
          view, ghostVars, lives, ops, links>>

NoView == [stage |-> "none", key |-> 0, value |-> <<>>]

Init ==
  /\ connected = FALSE /\ worker = "idle"
  /\ loaded = FALSE /\ active = FALSE /\ paused = FALSE /\ entries = <<>> /\ position = 0
  /\ feed = <<>>
  /\ db = <<>> /\ replay_records = <<>>
  /\ device = NoSource /\ kfm = NoSource /\ latest = NoSource /\ previous = NoSource
  /\ engine = {}
  /\ epoch = 0 /\ cache = {} /\ stale = FALSE /\ view = NoView
  /\ load = 0 /\ laps = 0 /\ broken = FALSE /\ received = <<>>
  /\ lives = 0 /\ ops = 0 /\ links = 0

-----------------------------------------------------------------------------
(* The ingest path.                                                          *)

\* A deque with a maxlen.
LastOf(max, s) == SubSeq(s, IF Len(s) > max THEN Len(s) - max + 1 ELSE 1, Len(s))

\* (mutated: what counts is whether the replay is playing)
ReplayModePlaying == active

ReplayMode == loaded

\* _record_history: in memory while a replay is loaded, in the database otherwise.
Record(r) ==
  \/ /\ ReplayMode
     /\ replay_records' = LastOf(ReplayMax, Append(replay_records, r))
     /\ UNCHANGED db
  \/ /\ ~ReplayMode
     /\ db' = Append(db, r)
     /\ UNCHANGED replay_records

\* apply_parsed for a snapshot, after record_history: the sample is compared with
\* the previous one and given to the event engine.
Sample(src) == previous' = src /\ engine' = engine \cup {src}

\* apply_parsed for the other kinds.
ApplyOther(kind, src) ==
  \/ kind = "info" /\ device' = src /\ UNCHANGED kfm
  \/ kind = "frame" /\ kfm' = src /\ UNCHANGED device

Invalidate == epoch' = epoch + 1 /\ cache' = {} /\ stale' = FALSE

\* process_sample: a time that is no date raises, once there is a previous sample; the
\* reading is recorded by then, and nothing is invalidated.
Raises(kind) == kind = "undated" /\ previous # NoSource

-----------------------------------------------------------------------------
(* The serial worker: on_line, holding _lock.                                *)

LiveSnap ==
  /\ connected /\ worker = "idle" /\ lives < MaxLive
  /\ lives' = lives + 1
  /\ latest' = Live
  /\ Record([src |-> Live, n |-> lives + 1])
  /\ received' = Append(received, [src |-> Live, n |-> lives + 1])
  /\ worker' = "saved"
  /\ UNCHANGED <<connected, playerVars, feed, device, kfm, previous, engine, cacheVars,
                 view, load, laps, broken, ops, links>>

LiveSample ==
  /\ worker = "saved"
  /\ Sample(Live)
  /\ worker' = "sampled"
  /\ UNCHANGED <<connected, playerVars, feed, historyVars, device, kfm, latest, cacheVars,
                 view, ghostVars, lives, ops, links>>

\* The time of the reading is no date: the worker reports the error and closes the link.
LiveRaises ==
  /\ worker = "saved" /\ previous # NoSource
  /\ previous' = Live
  /\ connected' = FALSE /\ Invalidate
  /\ worker' = "idle"
  /\ UNCHANGED <<playerVars, feed, historyVars, device, kfm, latest, engine, view, ghostVars,
                 lives, ops, links>>

LiveOther(kind) ==
  /\ connected /\ worker = "idle" /\ lives < MaxLive
  /\ lives' = lives + 1
  /\ ApplyOther(kind, Live)
  /\ worker' = "sampled"
  /\ UNCHANGED <<connected, playerVars, feed, historyVars, latest, previous, engine, cacheVars,
                 view, ghostVars, ops, links>>

LiveDone ==
  /\ worker = "sampled"
  /\ Invalidate
  /\ worker' = "idle"
  /\ UNCHANGED <<connected, playerVars, feed, historyVars, runtimeVars, view, ghostVars, lives, ops, links>>

Worker ==
  \/ LiveSnap \/ LiveSample \/ LiveRaises
  \/ \E kind \in Kind \ Snapshots : LiveOther(kind)
  \/ LiveDone

-----------------------------------------------------------------------------
(* The UI thread.                                                            *)

UiFree == feed = <<>> /\ view = NoView
UserOp == UiFree /\ ops < MaxOps /\ ops' = ops + 1

\* _on_state and connect invalidate the caches; nothing else of a session's data
\* changes when a link opens or closes.
LinkUp ==
  /\ links < MaxLinks /\ links' = links + 1
  /\ connected' = TRUE /\ Invalidate
  /\ UNCHANGED <<worker, playerVars, feed, historyVars, runtimeVars, view, ghostVars, lives>>

\* auto_reconnect_if_needed.
AutoConnect == UiFree /\ ~active /\ ~connected /\ ~loaded /\ LinkUp /\ UNCHANGED ops

\* GatewayService.connect, the Connect button.
Connect == UserOp /\ ~connected /\ (loaded => ConnectDuringReplay) /\ LinkUp

\* disconnect joins the worker; a worker that meets an I/O error leaves by itself.
LinkDown ==
  /\ connected /\ worker = "idle"
  /\ connected' = FALSE /\ Invalidate
  /\ UNCHANGED <<worker, playerVars, feed, historyVars, runtimeVars, view, ghostVars, lives, links>>
Disconnect == UserOp /\ LinkDown
LinkLost   == LinkDown /\ UNCHANGED ops

ResetLiveBuffers ==
  /\ device' = NoSource /\ latest' = NoSource /\ kfm' = NoSource
  /\ previous' = NoSource /\ engine' = {}

\* clear_replay_runtime.
ClearReplayRuntime == replay_records' = <<>> /\ ResetLiveBuffers /\ Invalidate

\* load_replay_file, load_replay_lines, load_demo_replay: an open link is closed
\* first.  A log with no usable line leaves nothing loaded.
LoadReplay(log) ==
  /\ UserOp /\ worker = "idle"
  /\ connected' = FALSE
  /\ entries' = log /\ loaded' = (log # <<>>)
  /\ active' = FALSE /\ paused' = FALSE /\ position' = 0
  /\ ClearReplayRuntime
  /\ load' = load + 1 /\ laps' = 0 /\ broken' = FALSE
  /\ UNCHANGED <<worker, feed, db, view, received, lives, links>>

\* start_replay: from the beginning if it had finished.
StartReplay ==
  /\ UserOp /\ loaded
  /\ position' = IF position >= Len(entries) THEN 0 ELSE position
  /\ active' = TRUE /\ paused' = FALSE
  /\ UNCHANGED <<connected, worker, loaded, entries, feed, historyVars, runtimeVars, cacheVars,
                 view, ghostVars, lives, links>>

\* pause_or_resume_replay: resume does nothing at the end of the log.
PauseOrResume ==
  /\ UserOp /\ loaded
  /\ \/ active /\ active' = FALSE /\ paused' = TRUE
     \/ ~active /\ position < Len(entries) /\ active' = TRUE /\ paused' = FALSE
     \/ ~active /\ position >= Len(entries) /\ UNCHANGED <<active, paused>>
  /\ UNCHANGED <<connected, worker, loaded, entries, position, feed, historyVars, runtimeVars,
                 cacheVars, view, ghostVars, lives, links>>

\* stop_replay unloads the log, also when none is loaded.
StopReplay ==
  /\ UserOp
  /\ loaded' = FALSE /\ active' = FALSE /\ paused' = FALSE /\ entries' = <<>> /\ position' = 0
  /\ ClearReplayRuntime
  /\ laps' = 0 /\ broken' = FALSE
  /\ UNCHANGED <<connected, worker, feed, db, view, load, received, lives, links>>

\* (mutated: the last line of a chunk is fed again with the next)
NextPositionOverlaps(end) == IF end < Len(entries) THEN end - 1 ELSE end

NextPosition(end) == end

\* (mutated: a replay at its end plays on)
PlaysOnForever(end) == TRUE

PlaysOn(end) == end < Len(entries)

\* tick_runtime -> advance_replay -> ReplayPlayer.advance takes the next chunk and
\* moves on before a line of it is ingested.
Advance ==
  /\ UiFree /\ loaded /\ active
  /\ LET end == IF position + LinesPerTick < Len(entries) THEN position + LinesPerTick
                                                          ELSE Len(entries)
     IN /\ feed' = [i \in 1 .. (end - position) |-> position + i]
        /\ position' = NextPosition(end)
        /\ active' = PlaysOn(end)
  /\ laps' = IF position = 0 THEN laps + 1 ELSE laps
  /\ UNCHANGED <<connected, worker, loaded, paused, entries, historyVars, runtimeVars, cacheVars,
                 view, load, broken, received, lives, ops, links>>

\* One line of the chunk goes through _on_line, which takes _lock.
Feed ==
  /\ feed # <<>> /\ worker = "idle"
  /\ ~Raises(entries[Head(feed)])
  /\ LET kind == entries[Head(feed)] IN
     \/ /\ kind \in Snapshots
        /\ latest' = load
        /\ Record([src |-> load, n |-> Head(feed)])
        /\ Sample(load)
        /\ UNCHANGED <<device, kfm>>
     \/ /\ kind \notin Snapshots
        /\ ApplyOther(kind, load)
        /\ UNCHANGED <<historyVars, latest, previous, engine>>
  /\ Invalidate
  /\ feed' = Tail(feed)
  /\ UNCHANGED <<connected, worker, playerVars, view, ghostVars, lives, ops, links>>

\* A line that raises ends advance_replay: the player has moved on, so the rest of the
\* chunk is never fed.
FeedRaises ==
  /\ feed # <<>> /\ worker = "idle"
  /\ Raises(entries[Head(feed)])
  /\ latest' = load /\ previous' = load
  /\ Record([src |-> load, n |-> Head(feed)])
  /\ feed' = <<>>
  /\ broken' = TRUE /\ stale' = TRUE
  /\ UNCHANGED <<connected, worker, playerVars, device, kfm, engine, epoch, cache, view,
                 load, laps, received, lives, ops, links>>

\* clear_history, under _lock.
ClearHistory ==
  /\ UserOp /\ worker = "idle"
  /\ db' = <<>> /\ replay_records' = <<>> /\ Invalidate
  /\ broken' = TRUE /\ received' = <<>>
  /\ UNCHANGED <<connected, worker, playerVars, feed, runtimeVars, view, load, laps, lives, links>>

\* records_desc: the replay's records, or the database's when there are none.
Records == IF replay_records # <<>> THEN replay_records ELSE db

\* A cached view, such as get_summary: the key is taken first, ...
ViewKey ==
  /\ UiFree
  /\ \A c \in cache : c.key # epoch
  /\ view' = [stage |-> "build", key |-> epoch, value |-> <<>>]
  /\ UNCHANGED <<connected, worker, playerVars, feed, historyVars, runtimeVars, cacheVars,
                 ghostVars, lives, ops, links>>

\* ... then the builder reads the records, ...
ViewBuild ==
  /\ view.stage = "build"
  /\ view' = [view EXCEPT !.stage = "store", !.value = Records]
  /\ UNCHANGED <<connected, worker, playerVars, feed, historyVars, runtimeVars, cacheVars,
                 ghostVars, lives, ops, links>>

\* (mutated: the key is taken when the value is stored)
StoreKeyLate == epoch

StoreKey == view.key

\* ... and the value is stored under the key, whatever happened in between.
ViewStore ==
  /\ view.stage = "store"
  /\ cache' = cache \cup {[key |-> StoreKey, value |-> view.value]}
  /\ view' = NoView
  /\ UNCHANGED <<connected, worker, playerVars, feed, historyVars, runtimeVars, epoch, stale,
                 ghostVars, lives, ops, links>>

Ui ==
  \/ AutoConnect \/ Connect \/ Disconnect
  \/ \E log \in Logs : LoadReplay(log)
  \/ StartReplay \/ PauseOrResume \/ StopReplay \/ Advance \/ Feed \/ FeedRaises \/ ClearHistory
  \/ ViewKey \/ ViewBuild \/ ViewStore

Next == Worker \/ LinkLost \/ Ui

\* The page's timer ticks; a line that is being applied, and a view that is being
\* built, come to their end.
Fairness == WF_vars(Advance) /\ WF_vars(Feed \/ FeedRaises) /\ WF_vars(LiveSample \/ LiveRaises)
              /\ WF_vars(LiveDone) /\ WF_vars(ViewBuild) /\ WF_vars(ViewStore)

Spec     == Init /\ [][Next]_vars
FairSpec == Spec /\ Fairness

-----------------------------------------------------------------------------
(* Properties.  The first three hold of a user who does not connect while  *)
(* a replay is loaded.                                                     *)

\* What each variable holds; a replay is loaded exactly when it has entries, plays
\* only while there are some left, and the chunk being fed consists of its lines.
TypeOK ==
  /\ connected \in BOOLEAN /\ worker \in {"idle", "saved", "sampled"}
  /\ loaded \in BOOLEAN /\ active \in BOOLEAN /\ paused \in BOOLEAN
  /\ entries \in Seq(Kind) /\ position \in 0 .. Len(entries)
  /\ feed \in Seq(Nat) /\ \A i \in DOMAIN feed : feed[i] \in DOMAIN entries
  /\ loaded <=> entries # <<>>
  /\ active => loaded /\ ~paused /\ position < Len(entries)
  /\ db \in Seq(Reading) /\ replay_records \in Seq(Reading) /\ Len(replay_records) <= ReplayMax
  /\ device \in Source /\ kfm \in Source /\ latest \in Source /\ previous \in Source
  /\ engine \subseteq Nat
  /\ epoch \in Nat /\ cache \subseteq [key : Nat, value : Seq(Reading)] /\ stale \in BOOLEAN
  /\ view \in [stage : {"none", "build", "store"}, key : Nat, value : Seq(Reading)]
  /\ load \in Nat /\ laps \in Nat /\ broken \in BOOLEAN /\ received \in Seq(Reading)
  /\ lives \in Nat /\ ops \in Nat /\ links \in Nat

Sources(records) == {records[i].src : i \in DOMAIN records}

\* Whose data may be on show: the loaded replay's, or the gateway's.
Current == IF loaded THEN load ELSE Live

\* Live and replayed data never meet: the database holds the gateway's readings
\* only, the replay records those of the replay that is loaded, and what is on
\* show, what the next sample is compared with and what the event engine has
\* learnt comes from the current source alone.
SourcesStayApart ==
  /\ loaded => ~connected
  /\ Sources(db) \subseteq {Live}
  /\ Sources(replay_records) \subseteq {load} /\ (~loaded => replay_records = <<>>)
  /\ {device, kfm, latest, previous} \subseteq {Current, NoSource}
  /\ engine \subseteq {Current}

\* How many of the first p lines of the loaded log are snapshots, and how many there
\* are in n laps of it followed by its first p lines.
SnapLines(p) == {i \in 1 .. p : entries[i] \in Snapshots}
SnapsIn(n, p) == n * Cardinality(SnapLines(Len(entries))) + Cardinality(SnapLines(p))

\* A replay feeds each line once per lap and in order, however it is paused, resumed
\* and cut into chunks: the records are the last of the snapshots fed in the laps it
\* has run, and the i-th from the end is the i-th snapshot from where the replay is.
\* A line that raises is the one exception (event_engine.py:65): it takes the rest of its
\* chunk with it.
ReplayFeedsInOrder ==
  loaded /\ ~broken =>
    LET lap  == IF position = 0 THEN laps ELSE laps - 1
        fed  == SnapsIn(lap, position - Len(feed))
        kept == Len(replay_records)
    IN /\ kept = IF fed < ReplayMax THEN fed ELSE ReplayMax
       /\ \A i \in 1 .. kept :
            /\ replay_records[i].n \in SnapLines(Len(entries))
            /\ \E l \in 0 .. lap : SnapsIn(l, replay_records[i].n) = fed - kept + i

\* No line being applied: a view found in the cache shows what a new one would; after a
\* replayed line that raised, from the next line or operation on that invalidates.
CacheIsFresh ==
  worker = "idle" /\ ~stale => \A c \in cache : c.key = epoch => c.value = Records

\* A replay that plays comes to its end, or the user stops or pauses it.
ReplayEnds == active ~> ~active

\* Every reading of the gateway is kept in the database until the history is cleared,
\* whatever replays are loaded, played and stopped in between (README.md:245; a user who
\* presses Connect while a replay is loaded, which service.py:343 allows, loses some).
LiveIsPersisted == db = received
=============================================================================

-------------------------- MODULE DashboardProofs --------------------------
(***************************************************************************)
(* Theorems about Dashboard for every set of replay logs, every chunk size *)
(* and limit, and any number of readings, links and user operations: its   *)
(* types; that live and replayed data stay apart if the user does not      *)
(* connect during a replay; that the caches are never stale; and that a    *)
(* replay feeds its lines in order.                                        *)
(***************************************************************************)
EXTENDS Dashboard, FiniteSetTheorems, TLAPS

LEMMA SubSeqFacts ==
  ASSUME NEW S, NEW q \in Seq(S), NEW m \in 1 .. Len(q) + 1
  PROVE  /\ SubSeq(q, m, Len(q)) \in Seq(S)
         /\ Len(SubSeq(q, m, Len(q))) = Len(q) - m + 1
         /\ \A i \in 1 .. (Len(q) - m + 1) : SubSeq(q, m, Len(q))[i] = q[m + i - 1]
  OBVIOUS

\* What a deque with a maxlen keeps of a sequence.
LEMMA LastOfFacts ==
  ASSUME NEW S, NEW q \in Seq(S), NEW max \in Nat \ {0}
  PROVE  /\ LastOf(max, q) \in Seq(S)
         /\ Len(LastOf(max, q)) <= max
         /\ \A i \in DOMAIN LastOf(max, q) : \E j \in DOMAIN q : LastOf(max, q)[i] = q[j]
<1> DEFINE m == IF Len(q) > max THEN Len(q) - max + 1 ELSE 1
<1>1. m \in Nat /\ m >= 1 /\ m <= Len(q) + 1 /\ Len(q) - m + 1 <= max /\ Len(q) \in Nat
  OBVIOUS
<1>2. LastOf(max, q) = SubSeq(q, m, Len(q))
  BY DEF LastOf
<1> HIDE DEF m
<1>3. /\ SubSeq(q, m, Len(q)) \in Seq(S)
      /\ Len(SubSeq(q, m, Len(q))) = Len(q) - m + 1
      /\ \A i \in 1 .. (Len(q) - m + 1) : SubSeq(q, m, Len(q))[i] = q[m + i - 1]
  BY SubSeqFacts, <1>1
<1>4. ASSUME NEW i \in 1 .. (Len(q) - m + 1)
      PROVE  m + i - 1 \in DOMAIN q
  BY <1>1
<1>5. DOMAIN LastOf(max, q) = 1 .. (Len(q) - m + 1)
  <2>1. Len(q) - m + 1 \in Nat
    BY <1>1
  <2> QED BY <1>2, <1>3, <2>1
<1>6. ASSUME NEW i \in DOMAIN LastOf(max, q)
      PROVE  \E j \in DOMAIN q : LastOf(max, q)[i] = q[j]
  <2>1. LastOf(max, q)[i] = q[m + i - 1] /\ m + i - 1 \in DOMAIN q
    BY <1>2, <1>3, <1>4, <1>5
  <2> QED BY <2>1
<1>7. LastOf(max, q) \in Seq(S) /\ Len(LastOf(max, q)) <= max
  BY <1>1, <1>2, <1>3
<1> QED BY <1>6, <1>7

LEMMA AppendFacts ==
  ASSUME NEW S, NEW q \in Seq(S), NEW e \in S
  PROVE  /\ Append(q, e) \in Seq(S)
         /\ \A i \in DOMAIN Append(q, e) : Append(q, e)[i] = e \/ \E j \in DOMAIN q : Append(q, e)[i] = q[j]
<1>1. Append(q, e) \in Seq(S) /\ DOMAIN Append(q, e) = 1 .. Len(q) + 1 /\ DOMAIN q = 1 .. Len(q)
  OBVIOUS
<1>2. \A i \in 1 .. Len(q) : Append(q, e)[i] = q[i]
  OBVIOUS
<1>3. Append(q, e)[Len(q) + 1] = e
  OBVIOUS
<1> QED BY <1>1, <1>2, <1>3

\* The parts of the type invariant.
PlayerType ==
  /\ loaded \in BOOLEAN /\ active \in BOOLEAN /\ paused \in BOOLEAN
  /\ entries \in Seq(Kind) /\ position \in 0 .. Len(entries)
  /\ feed \in Seq(Nat) /\ \A i \in DOMAIN feed : feed[i] \in DOMAIN entries
  /\ loaded <=> entries # <<>>
  /\ active => loaded /\ ~paused /\ position < Len(entries)

RecordsType ==
  /\ db \in Seq(Reading) /\ replay_records \in Seq(Reading)
  /\ Len(replay_records) <= ReplayMax

RuntimeType ==
  /\ device \in Source /\ kfm \in Source /\ latest \in Source /\ previous \in Source
  /\ engine \subseteq Nat

CacheType ==
  /\ epoch \in Nat /\ cache \subseteq [key : Nat, value : Seq(Reading)] /\ stale \in BOOLEAN
  /\ view \in [stage : {"none", "build", "store"}, key : Nat, value : Seq(Reading)]

RestType ==
  /\ connected \in BOOLEAN /\ worker \in {"idle", "saved", "sampled"}
  /\ load \in Nat /\ laps \in Nat /\ broken \in BOOLEAN /\ received \in Seq(Reading)
  /\ lives \in Nat /\ ops \in Nat /\ links \in Nat

LEMMA TypeParts == TypeOK <=> PlayerType /\ RecordsType /\ RuntimeType /\ CacheType /\ RestType
  BY DEF TypeOK, PlayerType, RecordsType, RuntimeType, CacheType, RestType

LEMMA TypeWhole == PlayerType' /\ RecordsType' /\ RuntimeType' /\ CacheType' /\ RestType' => TypeOK'
  BY DEF TypeOK, PlayerType, RecordsType, RuntimeType, CacheType, RestType

LEMMA RecordType ==
  ASSUME RecordsType, NEW r \in Reading, Record(r)
  PROVE  RecordsType'
<1>1. CASE loaded
  <2>1. Append(replay_records, r) \in Seq(Reading)
    BY AppendFacts DEF RecordsType
  <2>2. /\ LastOf(ReplayMax, Append(replay_records, r)) \in Seq(Reading)
        /\ Len(LastOf(ReplayMax, Append(replay_records, r))) <= ReplayMax
    BY <2>1, LastOfFacts, DashboardAssumption
  <2> QED BY <1>1, <2>2 DEF Record, RecordsType, ReplayMode
<1>2. CASE ~loaded
  BY <1>2, AppendFacts DEF Record, RecordsType, ReplayMode
<1> QED BY <1>1, <1>2

LEMMA InvalidateType ==
  ASSUME CacheType, Invalidate, UNCHANGED view
  PROVE  CacheType'
<1>1. stale' \in BOOLEAN
  <2>1. stale' = FALSE
    BY DEF Invalidate
  <2> QED BY <2>1
<1> QED BY <1>1 DEF CacheType, Invalidate

LEMMA ClearType ==
  ASSUME RecordsType, CacheType, ClearReplayRuntime, UNCHANGED <<db, view>>
  PROVE  RecordsType' /\ CacheType' /\ RuntimeType'
<1>1. CacheType'
  BY InvalidateType DEF ClearReplayRuntime
<1>2. RecordsType'
  BY DashboardAssumption DEF RecordsType, ClearReplayRuntime
<1>3. RuntimeType'
  BY DEF RuntimeType, ClearReplayRuntime, ResetLiveBuffers, Source, NoSource
<1> QED BY <1>1, <1>2, <1>3

\* The chunk of the log that Advance hands out.
LEMMA ChunkFacts ==
  ASSUME NEW p \in Nat, NEW e \in Nat, p <= e
  PROVE  /\ [i \in 1 .. (e - p) |-> p + i] \in Seq(Nat)
         /\ DOMAIN [i \in 1 .. (e - p) |-> p + i] = 1 .. (e - p)
         /\ \A i \in 1 .. (e - p) : p + i \in 1 .. e
<1>1. e - p \in Nat
  OBVIOUS
<1> QED BY <1>1

LEMMA TailFacts ==
  ASSUME NEW q \in Seq(Nat), q # <<>>
  PROVE  /\ Tail(q) \in Seq(Nat)
         /\ DOMAIN Tail(q) = 1 .. (Len(q) - 1)
         /\ \A i \in 1 .. (Len(q) - 1) : Tail(q)[i] = q[i + 1] /\ i + 1 \in DOMAIN q
         /\ Head(q) \in Nat /\ 1 \in DOMAIN q /\ Head(q) = q[1]
  OBVIOUS

-----------------------------------------------------------------------------
(* Every action keeps the types.                                             *)

LEMMA LiveSnapType == TypeOK /\ LiveSnap => TypeOK'
<1> SUFFICES ASSUME TypeOK, LiveSnap PROVE TypeOK'
  OBVIOUS
<1> DEFINE r == [src |-> Live, n |-> lives + 1]
<1>1. r \in Reading
  BY DEF TypeOK, Reading, Live
<1>2. RecordsType'
  BY <1>1, TypeParts, RecordType DEF LiveSnap
<1>3. PlayerType'
  BY TypeParts DEF PlayerType, LiveSnap, playerVars
<1>4. RuntimeType'
  BY TypeParts DEF RuntimeType, LiveSnap, Source, Live
<1>5. CacheType'
  BY TypeParts DEF CacheType, LiveSnap, cacheVars
<1>6. RestType'
  <2>1. received' \in Seq(Reading)
    BY <1>1, TypeParts, AppendFacts DEF RestType, LiveSnap
  <2> QED BY <2>1, TypeParts DEF RestType, LiveSnap
<1> QED BY <1>2, <1>3, <1>4, <1>5, <1>6, TypeWhole

LEMMA LiveSampleType == TypeOK /\ LiveSample => TypeOK'
<1> SUFFICES ASSUME TypeOK, LiveSample PROVE TypeOK'
  OBVIOUS
<1> USE TypeParts
<1>1. PlayerType' /\ RecordsType' /\ CacheType'
  BY DEF PlayerType, RecordsType, CacheType, LiveSample, playerVars, historyVars, cacheVars
<1>2. RuntimeType'
  BY DEF RuntimeType, LiveSample, Sample, Source, Live
<1>3. RestType'
  BY DEF RestType, LiveSample, ghostVars
<1> QED BY <1>1, <1>2, <1>3, TypeWhole

LEMMA LiveRaisesType == TypeOK /\ LiveRaises => TypeOK'
<1> SUFFICES ASSUME TypeOK, LiveRaises PROVE TypeOK'
  OBVIOUS
<1> USE TypeParts
<1>1. PlayerType' /\ RecordsType'
  BY DEF PlayerType, RecordsType, LiveRaises, playerVars, historyVars
<1>2. RuntimeType'
  BY DEF RuntimeType, LiveRaises, Source, Live
<1>3. CacheType'
  BY InvalidateType DEF LiveRaises
<1>4. RestType'
  <2>1. connected' = FALSE
    BY DEF LiveRaises
  <2>2. connected' \in BOOLEAN
    BY <2>1
  <2> QED BY <2>2 DEF RestType, LiveRaises, ghostVars
<1> QED BY <1>1, <1>2, <1>3, <1>4, TypeWhole

LEMMA LiveOtherType == \A kind \in Kind \ Snapshots : TypeOK /\ LiveOther(kind) => TypeOK'
<1> SUFFICES ASSUME NEW kind \in Kind \ Snapshots, TypeOK, LiveOther(kind) PROVE TypeOK'
  OBVIOUS
<1> USE TypeParts
<1>1. PlayerType' /\ RecordsType' /\ CacheType'
  BY DEF PlayerType, RecordsType, CacheType, LiveOther, playerVars, historyVars, cacheVars
<1>2. RuntimeType'
  BY DEF RuntimeType, LiveOther, ApplyOther, Source, Live
<1>3. RestType'
  BY DEF RestType, LiveOther, ghostVars
<1> QED BY <1>1, <1>2, <1>3, TypeWhole

LEMMA LiveDoneType == TypeOK /\ LiveDone => TypeOK'
<1> SUFFICES ASSUME TypeOK, LiveDone PROVE TypeOK'
  OBVIOUS
<1> USE TypeParts
<1>1. PlayerType' /\ RecordsType' /\ RuntimeType'
  BY DEF PlayerType, RecordsType, RuntimeType, LiveDone, playerVars, historyVars, runtimeVars
<1>2. CacheType'
  BY InvalidateType DEF LiveDone
<1>3. RestType'
  BY DEF RestType, LiveDone, ghostVars
<1> QED BY <1>1, <1>2, <1>3, TypeWhole

\* Connect, AutoConnect, Disconnect and LinkLost.
LEMMA LinkType == TypeOK /\ (LinkUp \/ LinkDown) /\ ops' \in Nat => TypeOK'
<1> SUFFICES ASSUME TypeOK, LinkUp \/ LinkDown, ops' \in Nat PROVE TypeOK'
  OBVIOUS
<1> USE TypeParts
<1>1. PlayerType' /\ RecordsType' /\ RuntimeType'
  BY DEF PlayerType, RecordsType, RuntimeType, LinkUp, LinkDown, playerVars, historyVars, runtimeVars
<1>2. CacheType'
  BY InvalidateType DEF LinkUp, LinkDown
<1>3. RestType'
  <2>1. connected' \in BOOLEAN
    <3>1. connected' = TRUE \/ connected' = FALSE
      BY DEF LinkUp, LinkDown
    <3> QED BY <3>1
  <2>2. links' \in Nat
    BY DEF RestType, LinkUp, LinkDown
  <2> QED BY <2>1, <2>2 DEF RestType, LinkUp, LinkDown, ghostVars
<1> QED BY <1>1, <1>2, <1>3, TypeWhole

LEMMA LoadReplayType == \A log \in Logs : TypeOK /\ LoadReplay(log) => TypeOK'
<1> SUFFICES ASSUME NEW log \in Logs, TypeOK, LoadReplay(log) PROVE TypeOK'
  OBVIOUS
<1> USE TypeParts
<1>1. PlayerType'
  <2>1. entries' \in Seq(Kind) /\ entries' = log /\ position' = 0 /\ feed' = <<>>
    BY DashboardAssumption DEF LoadReplay, UserOp, UiFree
  <2>2. loaded' = (log # <<>>) /\ active' = FALSE /\ paused' = FALSE
    BY DEF LoadReplay
  <2>3. loaded' \in BOOLEAN /\ active' \in BOOLEAN /\ paused' \in BOOLEAN
    BY <2>2
  <2>4. position' \in 0 .. Len(entries') /\ feed' \in Seq(Nat) /\ DOMAIN feed' = {}
    BY <2>1
  <2>5. (loaded' <=> entries' # <<>>) /\ ~active'
    BY <2>1, <2>2
  <2>6. entries' \in Seq(Kind)
    BY <2>1
  <2> QED BY <2>3, <2>4, <2>5, <2>6 DEF PlayerType
<1>2. RecordsType' /\ CacheType' /\ RuntimeType'
  BY ClearType DEF LoadReplay
<1>3. RestType'
  <2>1. broken' = FALSE /\ (connected' = FALSE \/ connected' = connected)
    BY DEF LoadReplay
  <2>2. broken' \in BOOLEAN /\ connected' \in BOOLEAN
    BY <2>1 DEF RestType
  <2> QED BY <2>2 DEF RestType, LoadReplay, UserOp
<1> QED BY <1>1, <1>2, <1>3, TypeWhole

LEMMA StopReplayType == TypeOK /\ StopReplay => TypeOK'
<1> SUFFICES ASSUME TypeOK, StopReplay PROVE TypeOK'
  OBVIOUS
<1> USE TypeParts
<1>1. PlayerType'
  <2>1. entries' = <<>> /\ position' = 0 /\ feed' = <<>>
    BY DEF StopReplay, UserOp, UiFree
  <2>2. loaded' = FALSE /\ active' = FALSE /\ paused' = FALSE
    BY DEF StopReplay
  <2>3. loaded' \in BOOLEAN /\ active' \in BOOLEAN /\ paused' \in BOOLEAN
    BY <2>2
  <2>4. position' \in 0 .. Len(entries') /\ entries' \in Seq(Kind) /\ feed' \in Seq(Nat)
        /\ DOMAIN feed' = {}
    BY <2>1
  <2> QED BY <2>1, <2>2, <2>3, <2>4 DEF PlayerType
<1>2. RecordsType' /\ CacheType' /\ RuntimeType'
  BY ClearType DEF StopReplay
<1>3. RestType'
  <2>1. broken' = FALSE /\ (connected' = FALSE \/ connected' = connected)
    BY DEF StopReplay
  <2>2. broken' \in BOOLEAN /\ connected' \in BOOLEAN
    BY <2>1 DEF RestType
  <2> QED BY <2>2 DEF RestType, StopReplay, UserOp
<1> QED BY <1>1, <1>2, <1>3, TypeWhole

LEMMA StartReplayType == TypeOK /\ StartReplay => TypeOK'
<1> SUFFICES ASSUME TypeOK, StartReplay PROVE TypeOK'
  OBVIOUS
<1> USE TypeParts
<1>1. PlayerType'
  <2>1. entries # <<>> /\ Len(entries) \in Nat /\ Len(entries) > 0
    BY DEF PlayerType, StartReplay
  <2>2. position' \in 0 .. Len(entries) /\ position' < Len(entries)
    BY <2>1 DEF PlayerType, StartReplay
  <2> QED BY <2>1, <2>2 DEF PlayerType, StartReplay
<1>2. RecordsType' /\ RuntimeType' /\ CacheType'
  BY DEF RecordsType, RuntimeType, CacheType, StartReplay, historyVars, runtimeVars, cacheVars
<1>3. RestType'
  BY DEF RestType, StartReplay, UserOp, ghostVars
<1> QED BY <1>1, <1>2, <1>3, TypeWhole

LEMMA PauseOrResumeType == TypeOK /\ PauseOrResume => TypeOK'
<1> SUFFICES ASSUME TypeOK, PauseOrResume PROVE TypeOK'
  OBVIOUS
<1> USE TypeParts
<1>1. PlayerType'
  <2>1. \/ active' = FALSE /\ paused' = TRUE
        \/ position < Len(entries) /\ active' = TRUE /\ paused' = FALSE
        \/ UNCHANGED <<active, paused>>
    BY DEF PauseOrResume
  <2>2. active' \in BOOLEAN /\ paused' \in BOOLEAN
    BY <2>1 DEF PlayerType
  <2>3. loaded /\ UNCHANGED <<loaded, entries, position, feed>>
    BY DEF PauseOrResume
  <2>4. active' => loaded' /\ ~paused' /\ position' < Len(entries')
    BY <2>1, <2>3 DEF PlayerType
  <2> QED BY <2>2, <2>3, <2>4 DEF PlayerType
<1>2. RecordsType' /\ RuntimeType' /\ CacheType'
  BY DEF RecordsType, RuntimeType, CacheType, PauseOrResume, historyVars, runtimeVars, cacheVars
<1>3. RestType'
  BY DEF RestType, PauseOrResume, UserOp, ghostVars
<1> QED BY <1>1, <1>2, <1>3, TypeWhole

LEMMA AdvanceType == TypeOK /\ Advance => TypeOK'
<1> SUFFICES ASSUME TypeOK, Advance PROVE TypeOK'
  OBVIOUS
<1> USE TypeParts
<1> DEFINE end == IF position + LinesPerTick < Len(entries) THEN position + LinesPerTick
                                                            ELSE Len(entries)
<1>1. /\ position \in Nat /\ end \in Nat /\ position <= end /\ end <= Len(entries)
      /\ Len(entries) \in Nat /\ DOMAIN entries = 1 .. Len(entries)
  BY DashboardAssumption DEF PlayerType
<1>2. /\ feed' = [i \in 1 .. (end - position) |-> position + i]
      /\ position' = end /\ active' = (end < Len(entries))
      /\ UNCHANGED <<loaded, paused, entries>>
  BY DEF Advance, NextPosition, PlaysOn
<1>3. feed' \in Seq(Nat) /\ \A i \in DOMAIN feed' : feed'[i] \in DOMAIN entries'
  <2> HIDE DEF end
  <2>1. feed' \in Seq(Nat) /\ DOMAIN feed' = 1 .. (end - position)
    BY <1>1, <1>2, ChunkFacts
  <2>2. ASSUME NEW i \in 1 .. (end - position) PROVE position + i \in 1 .. Len(entries)
    BY <1>1
  <2> QED BY <1>1, <1>2, <2>1, <2>2
<1>4. active' \in BOOLEAN
  BY <1>2
<1>5. PlayerType'
  <2>1. position' \in 0 .. Len(entries')
    BY <1>1, <1>2
  <2>2. active' => loaded' /\ ~paused' /\ position' < Len(entries')
    BY <1>2 DEF PlayerType, Advance
  <2> QED BY <1>2, <1>3, <1>4, <2>1, <2>2 DEF PlayerType
<1>6. RecordsType' /\ RuntimeType' /\ CacheType'
  BY DEF RecordsType, RuntimeType, CacheType, Advance, historyVars, runtimeVars, cacheVars
<1>7. RestType'
  BY DEF RestType, Advance
<1> QED BY <1>5, <1>6, <1>7, TypeWhole

LEMMA FeedType == TypeOK /\ Feed => TypeOK'
<1> SUFFICES ASSUME TypeOK, Feed PROVE TypeOK'
  OBVIOUS
<1> USE TypeParts
<1>1. PlayerType'
  <2>1. feed' \in Seq(Nat) /\ \A i \in DOMAIN feed' : feed'[i] \in DOMAIN entries
    BY TailFacts DEF PlayerType, Feed
  <2> QED BY <2>1 DEF PlayerType, Feed, playerVars
<1>2. [src |-> load, n |-> Head(feed)] \in Reading
  BY TailFacts DEF PlayerType, RestType, Feed, Reading
<1>3. RecordsType'
  <2>1. CASE entries[Head(feed)] \in Snapshots
    BY <1>2, <2>1, RecordType DEF Feed
  <2>2. CASE entries[Head(feed)] \notin Snapshots
    BY <2>2 DEF Feed, RecordsType, historyVars
  <2> QED BY <2>1, <2>2
<1>4. RuntimeType'
  BY DEF RuntimeType, RestType, Feed, Sample, ApplyOther, Source
<1>5. CacheType'
  BY InvalidateType DEF Feed
<1>6. RestType'
  BY DEF RestType, Feed, ghostVars
<1> QED BY <1>1, <1>3, <1>4, <1>5, <1>6, TypeWhole

LEMMA FeedRaisesType == TypeOK /\ FeedRaises => TypeOK'
<1> SUFFICES ASSUME TypeOK, FeedRaises PROVE TypeOK'
  OBVIOUS
<1> USE TypeParts
<1>1. PlayerType'
  <2>1. feed' = <<>> /\ UNCHANGED playerVars
    BY DEF FeedRaises
  <2>2. feed' \in Seq(Nat) /\ DOMAIN feed' = {}
    BY <2>1
  <2> QED BY <2>1, <2>2 DEF PlayerType, playerVars
<1>2. RecordsType'
  <2>1. [src |-> load, n |-> Head(feed)] \in Reading
    BY TailFacts DEF PlayerType, RestType, FeedRaises, Reading
  <2> QED BY <2>1, RecordType DEF FeedRaises
<1>3. RuntimeType'
  BY DEF RuntimeType, RestType, FeedRaises, Source
<1>4. CacheType'
  <2>1. stale' = TRUE
    BY DEF FeedRaises
  <2>2. stale' \in BOOLEAN
    BY <2>1
  <2> QED BY <2>2 DEF CacheType, FeedRaises
<1>5. RestType'
  <2>1. broken' = TRUE
    BY DEF FeedRaises
  <2>2. broken' \in BOOLEAN
    BY <2>1
  <2> QED BY <2>2 DEF RestType, FeedRaises
<1> QED BY <1>1, <1>2, <1>3, <1>4, <1>5, TypeWhole

LEMMA ClearHistoryType == TypeOK /\ ClearHistory => TypeOK'
<1> SUFFICES ASSUME TypeOK, ClearHistory PROVE TypeOK'
  OBVIOUS
<1> USE TypeParts
<1>1. PlayerType' /\ RuntimeType'
  BY DEF PlayerType, RuntimeType, ClearHistory, playerVars, runtimeVars
<1>2. RecordsType'
  BY DashboardAssumption DEF RecordsType, ClearHistory
<1>3. CacheType'
  BY InvalidateType DEF ClearHistory
<1>4. RestType'
  BY DEF RestType, ClearHistory, UserOp
<1> QED BY <1>1, <1>2, <1>3, <1>4, TypeWhole

LEMMA ViewType == TypeOK /\ (ViewKey \/ ViewBuild \/ ViewStore) => TypeOK'
<1> SUFFICES ASSUME TypeOK, ViewKey \/ ViewBuild \/ ViewStore PROVE TypeOK'
  OBVIOUS
<1> USE TypeParts
<1>1. PlayerType' /\ RecordsType' /\ RuntimeType'
  BY DEF PlayerType, RecordsType, RuntimeType, ViewKey, ViewBuild, ViewStore, playerVars,
         historyVars, runtimeVars
<1>2. CacheType'
  <2>1. CASE ViewKey
    BY <2>1 DEF CacheType, ViewKey, cacheVars
  <2>2. CASE ViewBuild
    BY <2>2 DEF CacheType, RecordsType, ViewBuild, Records, cacheVars
  <2>3. CASE ViewStore
    BY <2>3 DEF CacheType, ViewStore, NoView, StoreKey
  <2> QED BY <2>1, <2>2, <2>3
<1>3. RestType'
  BY DEF RestType, ViewKey, ViewBuild, ViewStore, ghostVars
<1> QED BY <1>1, <1>2, <1>3, TypeWhole

LEMMA InitType == Init => TypeOK
<1> SUFFICES ASSUME Init PROVE TypeOK
  OBVIOUS
<1>1. PlayerType
  <2>1. entries = <<>> /\ position = 0 /\ feed = <<>>
    BY DEF Init
  <2>2. loaded = FALSE /\ active = FALSE /\ paused = FALSE
    BY DEF Init
  <2>3. loaded \in BOOLEAN /\ active \in BOOLEAN /\ paused \in BOOLEAN
    BY <2>2
  <2>4. position \in 0 .. Len(entries) /\ entries \in Seq(Kind) /\ feed \in Seq(Nat)
        /\ DOMAIN feed = {}
    BY <2>1
  <2> QED BY <2>1, <2>2, <2>3, <2>4 DEF PlayerType
<1>2. RecordsType
  BY DashboardAssumption DEF Init, RecordsType
<1>3. RuntimeType
  BY DEF Init, RuntimeType, Source
<1>4. CacheType
  <2>1. stale = FALSE
    BY DEF Init
  <2>2. stale \in BOOLEAN
    BY <2>1
  <2> QED BY <2>2 DEF Init, CacheType, NoView
<1>5. RestType
  <2>1. connected = FALSE /\ broken = FALSE
    BY DEF Init
  <2>2. connected \in BOOLEAN /\ broken \in BOOLEAN
    BY <2>1
  <2> QED BY <2>2 DEF Init, RestType
<1> QED BY <1>1, <1>2, <1>3, <1>4, <1>5, TypeParts

LEMMA NextType == TypeOK /\ [Next]_vars => TypeOK'
<1> SUFFICES ASSUME TypeOK, [Next]_vars PROVE TypeOK'
  OBVIOUS
<1>1. CASE Worker
  BY <1>1, LiveSnapType, LiveSampleType, LiveRaisesType, LiveOtherType, LiveDoneType DEF Worker
<1>2. CASE LinkLost \/ AutoConnect \/ Connect \/ Disconnect
  <2>1. ops' \in Nat
    BY <1>2 DEF LinkLost, AutoConnect, Connect, Disconnect, UserOp, TypeOK
  <2> QED BY <1>2, <2>1, LinkType DEF LinkLost, AutoConnect, Connect, Disconnect
<1>3. CASE Ui /\ ~(AutoConnect \/ Connect \/ Disconnect)
  BY <1>3, LoadReplayType, StartReplayType, PauseOrResumeType, StopReplayType, AdvanceType,
     FeedType, FeedRaisesType, ClearHistoryType, ViewType DEF Ui
<1>4. CASE UNCHANGED vars
  BY <1>4 DEF TypeOK, vars, playerVars, historyVars, runtimeVars, cacheVars, ghostVars
<1> QED BY <1>1, <1>2, <1>3, <1>4 DEF Next, Ui

\* Every variable of the dashboard keeps its type; what a replay has left to play
\* and to feed are lines of its log.
THEOREM TypeCorrect == Spec => []TypeOK
<1> QED BY InitType, NextType, PTL DEF Spec

-----------------------------------------------------------------------------
(* Live and replayed data stay apart.  What makes it inductive: lines are   *)
(* fed only while their replay is loaded, and a worker applies a line only   *)
(* while the link is open, since closing it waits for the worker.            *)

Apart ==
  /\ SourcesStayApart
  /\ feed # <<>> => loaded
  /\ worker # "idle" => connected

\* One more record from a source.
LEMMA SourcesGrow ==
  ASSUME NEW q \in Seq(Reading), NEW r \in Reading
  PROVE  /\ Sources(Append(q, r)) \subseteq Sources(q) \cup {r.src}
         /\ Sources(LastOf(ReplayMax, Append(q, r))) \subseteq Sources(q) \cup {r.src}
<1>1. Append(q, r) \in Seq(Reading)
  BY AppendFacts
<1>2. \A i \in DOMAIN Append(q, r) : Append(q, r)[i] = r \/ \E j \in DOMAIN q : Append(q, r)[i] = q[j]
  BY AppendFacts
<1>3. Sources(Append(q, r)) \subseteq Sources(q) \cup {r.src}
  BY <1>2 DEF Sources
<1>4. Sources(LastOf(ReplayMax, Append(q, r))) \subseteq Sources(Append(q, r))
  <2>1. \A i \in DOMAIN LastOf(ReplayMax, Append(q, r)) : \E j \in DOMAIN Append(q, r) :
          LastOf(ReplayMax, Append(q, r))[i] = Append(q, r)[j]
    BY <1>1, LastOfFacts, DashboardAssumption
  <2> QED BY <2>1 DEF Sources
<1> QED BY <1>3, <1>4

LEMMA NoSources == Sources(<<>>) = {}
  BY DEF Sources

\* After clear_replay_runtime nothing of either source is left in memory.
LEMMA ClearApart ==
  ASSUME ClearReplayRuntime
  PROVE  /\ replay_records' = <<>> /\ Sources(replay_records') = {}
         /\ {device', kfm', latest', previous'} = {NoSource} /\ engine' = {}
<1>1. replay_records' = <<>>
  BY DEF ClearReplayRuntime
<1> QED BY <1>1, NoSources DEF ClearReplayRuntime, ResetLiveBuffers

LEMMA WorkerApart == TypeOK /\ Apart /\ Worker => Apart'
<1> SUFFICES ASSUME TypeOK, Apart, Worker PROVE Apart'
  OBVIOUS
<1>1. CASE LiveSnap
  <2>1. connected /\ ~loaded
    BY <1>1 DEF LiveSnap, Apart, SourcesStayApart
  <2>2. [src |-> Live, n |-> lives + 1] \in Reading
    BY DEF TypeOK, Reading, Live
  <2>3. db' = Append(db, [src |-> Live, n |-> lives + 1]) /\ UNCHANGED replay_records
    BY <1>1, <2>1 DEF LiveSnap, Record, ReplayMode
  <2>4. Sources(db') \subseteq {Live}
    <3>1. db \in Seq(Reading)
      BY DEF TypeOK
    <3>2. Sources(db') \subseteq Sources(db) \cup {[src |-> Live, n |-> lives + 1].src}
      BY <2>2, <2>3, <3>1, SourcesGrow
    <3> QED BY <3>2 DEF Apart, SourcesStayApart
  <2>5. /\ UNCHANGED <<connected, loaded, load, feed, device, kfm, previous, engine>>
        /\ latest' = Live
    BY <1>1 DEF LiveSnap, playerVars
  <2>6. Current' = Live /\ Current = Live
    BY <2>1, <2>5 DEF Current
  <2>7. Sources(replay_records') \subseteq {load'} /\ replay_records' = <<>>
    BY <2>1, <2>3, <2>5 DEF Apart, SourcesStayApart
  <2>8. feed' # <<>> => loaded'
    BY <2>5 DEF Apart
  <2>9. {device', kfm', latest', previous'} \subseteq {Live, NoSource} /\ engine' \subseteq {Live}
    BY <2>5, <2>6 DEF Apart, SourcesStayApart
  <2> QED BY <2>1, <2>4, <2>5, <2>6, <2>7, <2>8, <2>9 DEF Apart, SourcesStayApart
<1>2. CASE LiveSample
  <2>1. connected /\ ~loaded
    BY <1>2 DEF LiveSample, Apart, SourcesStayApart
  <2>2. /\ UNCHANGED <<connected, loaded, load, feed, db, replay_records, device, kfm, latest>>
        /\ previous' = Live /\ engine' = engine \cup {Live}
    BY <1>2 DEF LiveSample, Sample, playerVars, historyVars, ghostVars
  <2>3. Current' = Live /\ Current = Live
    BY <2>1, <2>2 DEF Current
  <2> QED BY <2>1, <2>2, <2>3 DEF Apart, SourcesStayApart
<1>3. ASSUME NEW kind \in Kind \ Snapshots, LiveOther(kind) PROVE Apart'
  <2>1. connected /\ ~loaded
    BY <1>3 DEF LiveOther, Apart, SourcesStayApart
  <2>2. /\ UNCHANGED <<connected, loaded, load, feed, db, replay_records, latest, previous, engine>>
        /\ device' \in {device, Live} /\ kfm' \in {kfm, Live}
    BY <1>3 DEF LiveOther, ApplyOther, playerVars, historyVars, ghostVars
  <2>3. Current' = Live /\ Current = Live
    BY <2>1, <2>2 DEF Current
  <2> QED BY <2>1, <2>2, <2>3 DEF Apart, SourcesStayApart
<1>4. CASE LiveDone
  <2>1. /\ UNCHANGED <<connected, loaded, load, feed, db, replay_records>>
        /\ UNCHANGED <<device, kfm, latest, previous, engine>> /\ worker' = "idle"
    BY <1>4 DEF LiveDone, playerVars, historyVars, runtimeVars, ghostVars
  <2> QED BY <2>1 DEF Apart, SourcesStayApart, Current
<1>5. CASE LiveRaises
  <2>1. connected /\ ~loaded
    BY <1>5 DEF LiveRaises, Apart, SourcesStayApart
  <2>2. /\ UNCHANGED <<loaded, load, feed, db, replay_records, device, kfm, latest, engine>>
        /\ previous' = Live /\ connected' = FALSE /\ worker' = "idle"
    BY <1>5 DEF LiveRaises, playerVars, historyVars, ghostVars
  <2>3. Current' = Live /\ Current = Live
    BY <2>1, <2>2 DEF Current
  <2> QED BY <2>1, <2>2, <2>3 DEF Apart, SourcesStayApart
<1> QED BY <1>1, <1>2, <1>3, <1>4, <1>5 DEF Worker

\* A replay only meets a closed link, and the link only opens without a replay.
LEMMA LinkApart ==
  ~ConnectDuringReplay /\ Apart /\ (AutoConnect \/ Connect \/ Disconnect \/ LinkLost) => Apart'
<1> SUFFICES ASSUME ~ConnectDuringReplay, Apart, AutoConnect \/ Connect \/ Disconnect \/ LinkLost
             PROVE  Apart'
  OBVIOUS
<1>1. /\ UNCHANGED <<loaded, load, feed, db, replay_records, worker>>
      /\ UNCHANGED <<device, kfm, latest, previous, engine>>
  BY DEF AutoConnect, Connect, Disconnect, LinkLost, LinkUp, LinkDown, playerVars, historyVars,
         runtimeVars, ghostVars
<1>2. \/ ~loaded /\ connected' = TRUE
      \/ worker = "idle" /\ connected' = FALSE
  BY DEF AutoConnect, Connect, Disconnect, LinkLost, LinkUp, LinkDown
<1> QED BY <1>1, <1>2 DEF Apart, SourcesStayApart, Current

LEMMA UiApart ==
  TypeOK /\ Apart /\ Ui /\ ~(AutoConnect \/ Connect \/ Disconnect) => Apart'
<1> SUFFICES ASSUME TypeOK, Apart, Ui, ~(AutoConnect \/ Connect \/ Disconnect) PROVE Apart'
  OBVIOUS
<1>1. ASSUME NEW log \in Logs, LoadReplay(log) PROVE Apart'
  <2>1. /\ ClearReplayRuntime /\ connected' = FALSE /\ UNCHANGED db /\ feed = <<>>
        /\ UNCHANGED <<worker, feed>> /\ worker = "idle"
    BY <1>1 DEF LoadReplay, UserOp, UiFree
  <2> QED BY <2>1, ClearApart DEF Apart, SourcesStayApart
<1>2. CASE StopReplay
  <2>1. /\ ClearReplayRuntime /\ UNCHANGED <<connected, db, worker, feed>> /\ feed = <<>>
        /\ loaded' = FALSE
    BY <1>2 DEF StopReplay, UserOp, UiFree
  <2> QED BY <2>1, ClearApart DEF Apart, SourcesStayApart
<1>3. CASE StartReplay \/ PauseOrResume \/ ViewKey \/ ViewBuild \/ ViewStore
  <2>1. /\ UNCHANGED <<connected, worker, loaded, load, feed, db, replay_records>>
        /\ UNCHANGED <<device, kfm, latest, previous, engine>>
    BY <1>3 DEF StartReplay, PauseOrResume, ViewKey, ViewBuild, ViewStore, playerVars, historyVars,
                runtimeVars, ghostVars
  <2> QED BY <2>1 DEF Apart, SourcesStayApart, Current
<1>4. CASE Advance
  <2>1. /\ UNCHANGED <<connected, worker, loaded, load, db, replay_records>>
        /\ UNCHANGED <<device, kfm, latest, previous, engine>> /\ loaded
    BY <1>4 DEF Advance, historyVars, runtimeVars
  <2> QED BY <2>1 DEF Apart, SourcesStayApart, Current
<1>5. CASE Feed
  <2>1. loaded /\ UNCHANGED <<connected, worker, loaded, load>>
    BY <1>5 DEF Feed, Apart, playerVars, ghostVars
  <2>2. [src |-> load, n |-> Head(feed)] \in Reading
    BY <1>5, TailFacts DEF TypeOK, Feed, Reading
  <2>3. UNCHANGED db /\ Sources(replay_records') \subseteq Sources(replay_records) \cup {load}
    <3>1. CASE entries[Head(feed)] \in Snapshots
      <4>1. Record([src |-> load, n |-> Head(feed)])
        BY <1>5, <3>1 DEF Feed
      <4>2. replay_records' = LastOf(ReplayMax, Append(replay_records, [src |-> load, n |-> Head(feed)]))
        BY <2>1, <4>1 DEF Record, ReplayMode
      <4>3. UNCHANGED db
        BY <2>1, <4>1 DEF Record, ReplayMode
      <4> QED BY <2>2, <4>2, <4>3, SourcesGrow DEF TypeOK
    <3>2. CASE entries[Head(feed)] \notin Snapshots
      BY <1>5, <3>2 DEF Feed, historyVars
    <3> QED BY <3>1, <3>2
  <2>4. /\ device' \in {device, load} /\ kfm' \in {kfm, load} /\ latest' \in {latest, load}
        /\ previous' \in {previous, load} /\ engine' \in {engine, engine \cup {load}}
    BY <1>5 DEF Feed, Sample, ApplyOther
  <2>5. Current' = load /\ Current = load
    BY <2>1 DEF Current
  <2> QED BY <2>1, <2>3, <2>4, <2>5 DEF Apart, SourcesStayApart
<1>6. CASE ClearHistory
  <2>1. /\ UNCHANGED <<connected, worker, loaded, load, feed>>
        /\ UNCHANGED <<device, kfm, latest, previous, engine>>
        /\ db' = <<>> /\ replay_records' = <<>>
    BY <1>6 DEF ClearHistory, playerVars, runtimeVars
  <2> QED BY <2>1, NoSources DEF Apart, SourcesStayApart, Current
<1>7. CASE FeedRaises
  <2>1. loaded /\ feed' = <<>> /\ UNCHANGED <<connected, worker, loaded, load>>
    BY <1>7 DEF FeedRaises, Apart, playerVars
  <2>2. [src |-> load, n |-> Head(feed)] \in Reading
    BY <1>7, TailFacts DEF TypeOK, FeedRaises, Reading
  <2>3. Record([src |-> load, n |-> Head(feed)])
    BY <1>7 DEF FeedRaises
  <2>4. /\ UNCHANGED db
        /\ replay_records' = LastOf(ReplayMax, Append(replay_records, [src |-> load, n |-> Head(feed)]))
    BY <2>1, <2>3 DEF Record, ReplayMode
  <2>5. Sources(replay_records') \subseteq Sources(replay_records) \cup {load}
    BY <2>2, <2>4, SourcesGrow DEF TypeOK
  <2>6. UNCHANGED <<device, kfm, engine>> /\ latest' = load /\ previous' = load
    BY <1>7 DEF FeedRaises
  <2>7. Current' = load /\ Current = load
    BY <2>1 DEF Current
  <2> QED BY <2>1, <2>4, <2>5, <2>6, <2>7 DEF Apart, SourcesStayApart
<1> QED BY <1>1, <1>2, <1>3, <1>4, <1>5, <1>6, <1>7 DEF Ui

LEMMA NextApart == ~ConnectDuringReplay => (TypeOK /\ Apart /\ [Next]_vars => Apart')
<1> SUFFICES ASSUME ~ConnectDuringReplay, TypeOK, Apart, [Next]_vars PROVE Apart'
  OBVIOUS
<1>1. CASE UNCHANGED vars
  BY <1>1 DEF Apart, SourcesStayApart, Current, vars, playerVars, historyVars, runtimeVars, ghostVars
<1> QED BY <1>1, WorkerApart, LinkApart, UiApart DEF Next

\* As long as the user does not connect while a replay is loaded, the database holds
\* readings of the gateway only, and the memory those of the current source.
THEOREM SourcesApart == ~ConnectDuringReplay => (Spec => []SourcesStayApart)
<1> SUFFICES ASSUME ~ConnectDuringReplay PROVE Spec => []SourcesStayApart
  OBVIOUS
<1>1. Init => Apart
  BY NoSources DEF Init, Apart, SourcesStayApart
<1>2. TypeOK /\ Apart /\ [Next]_vars => Apart'
  BY NextApart
<1>3. Apart => SourcesStayApart
  BY DEF Apart
<1> QED BY <1>1, <1>2, <1>3, TypeCorrect, PTL DEF Spec

-----------------------------------------------------------------------------
(* The gateway's readings are kept.  Apart says that no replay is loaded when  *)
(* the worker applies a line, and that one is when a line is fed.              *)

LEMMA NextPersisted == TypeOK /\ Apart /\ LiveIsPersisted /\ [Next]_vars => LiveIsPersisted'
<1> SUFFICES ASSUME TypeOK, Apart, LiveIsPersisted, [Next]_vars PROVE LiveIsPersisted'
  OBVIOUS
<1>1. CASE LiveSnap
  <2>1. ~ReplayMode
    BY <1>1 DEF LiveSnap, Apart, SourcesStayApart, ReplayMode
  <2> QED BY <1>1, <2>1 DEF LiveSnap, Record, LiveIsPersisted
<1>2. CASE Feed
  <2>1. ReplayMode /\ UNCHANGED received
    BY <1>2 DEF Feed, Apart, ReplayMode, ghostVars
  <2>2. CASE entries[Head(feed)] \in Snapshots
    <3>1. Record([src |-> load, n |-> Head(feed)])
      BY <1>2, <2>2 DEF Feed
    <3> QED BY <2>1, <3>1 DEF Record, LiveIsPersisted
  <2>3. CASE entries[Head(feed)] \notin Snapshots
    BY <1>2, <2>1, <2>3 DEF Feed, historyVars, LiveIsPersisted
  <2> QED BY <2>2, <2>3
<1>3. CASE ClearHistory
  BY <1>3 DEF ClearHistory, LiveIsPersisted
<1>4. ASSUME UNCHANGED <<db, received>> PROVE LiveIsPersisted'
  BY <1>4 DEF LiveIsPersisted
<1>5. CASE LiveSample \/ LiveRaises \/ LiveDone \/ \E kind \in Kind \ Snapshots : LiveOther(kind)
  BY <1>5, <1>4 DEF LiveSample, LiveRaises, LiveDone, LiveOther, historyVars, ghostVars
<1>6. CASE AutoConnect \/ Connect \/ Disconnect \/ LinkLost
  BY <1>6, <1>4 DEF AutoConnect, Connect, Disconnect, LinkLost, LinkUp, LinkDown, historyVars, ghostVars
<1>7. CASE StopReplay \/ \E log \in Logs : LoadReplay(log)
  BY <1>7, <1>4 DEF StopReplay, LoadReplay
<1>8. CASE StartReplay \/ PauseOrResume \/ Advance \/ ViewKey \/ ViewBuild \/ ViewStore \/ UNCHANGED vars
  BY <1>8, <1>4 DEF StartReplay, PauseOrResume, Advance, ViewKey, ViewBuild, ViewStore, vars,
     historyVars, ghostVars
<1>9. CASE FeedRaises
  <2>1. ReplayMode /\ UNCHANGED received /\ Record([src |-> load, n |-> Head(feed)])
    BY <1>9 DEF FeedRaises, Apart, ReplayMode
  <2> QED BY <2>1 DEF Record, LiveIsPersisted
<1> QED BY <1>1, <1>2, <1>3, <1>5, <1>6, <1>7, <1>8, <1>9 DEF Next, Worker, Ui

\* As long as the user does not connect while a replay is loaded, the database holds every
\* reading of the gateway since the history was broken, in order, and nothing else.
THEOREM LivePersisted == ~ConnectDuringReplay => (Spec => []LiveIsPersisted)
<1> SUFFICES ASSUME ~ConnectDuringReplay PROVE Spec => []LiveIsPersisted
  OBVIOUS
<1>1. Init => Apart /\ LiveIsPersisted
  BY NoSources DEF Init, Apart, SourcesStayApart, LiveIsPersisted
<1>2. TypeOK /\ Apart /\ LiveIsPersisted /\ [Next]_vars => Apart' /\ LiveIsPersisted'
  BY NextApart, NextPersisted
<1> QED BY <1>1, <1>2, TypeCorrect, PTL DEF Spec

-----------------------------------------------------------------------------
(* The caches.  A view is stored under the key it was started with, so what  *)
(* matters is the view still under construction: if nothing was ingested     *)
(* since its key was taken, what it has read is what there is now.           *)

Fresh ==
  /\ CacheIsFresh
  /\ \A c \in cache : c.key <= epoch
  /\ view.stage # "none" => view.key <= epoch
  /\ worker = "idle" /\ ~stale /\ view.stage = "store" /\ view.key = epoch => view.value = Records

\* Whoever changes the records and invalidates the caches in one step is safe.
LEMMA InvalidateFresh ==
  ASSUME TypeOK, Fresh, Invalidate, UNCHANGED view
  PROVE  Fresh'
<1>1. epoch' = epoch + 1 /\ cache' = {} /\ epoch \in Nat /\ view' = view
  BY DEF Invalidate, TypeOK
<1>2. view.key \in Nat
  BY DEF TypeOK
<1> QED BY <1>1, <1>2 DEF Fresh, CacheIsFresh

LEMMA NextFresh == TypeOK /\ Fresh /\ [Next]_vars => Fresh'
<1> SUFFICES ASSUME TypeOK, Fresh, [Next]_vars PROVE Fresh'
  OBVIOUS
<1>1. CASE LiveDone \/ AutoConnect \/ Connect \/ Disconnect \/ LinkLost \/ StopReplay \/ Feed
             \/ ClearHistory \/ LiveRaises
  BY <1>1, InvalidateFresh DEF LiveDone, LiveRaises, AutoConnect, Connect, Disconnect, LinkLost, LinkUp,
     LinkDown, StopReplay, Feed, ClearHistory, ClearReplayRuntime
<1>2. ASSUME NEW log \in Logs, LoadReplay(log) PROVE Fresh'
  BY <1>2, InvalidateFresh DEF LoadReplay, ClearReplayRuntime
<1>3. ASSUME worker' # "idle", UNCHANGED <<epoch, cache, view>> PROVE Fresh'
  BY <1>3 DEF Fresh, CacheIsFresh
<1>4. CASE LiveSnap \/ LiveSample \/ \E kind \in Kind \ Snapshots : LiveOther(kind)
  BY <1>4, <1>3 DEF LiveSnap, LiveSample, LiveOther, cacheVars
<1>5. ASSUME UNCHANGED <<worker, epoch, cache, stale, view, db, replay_records>> PROVE Fresh'
  BY <1>5 DEF Fresh, CacheIsFresh, Records
<1>6. CASE StartReplay \/ PauseOrResume \/ Advance \/ UNCHANGED vars
  BY <1>6, <1>5 DEF StartReplay, PauseOrResume, Advance, vars, historyVars, cacheVars
<1>7. CASE ViewKey
  <2>1. /\ view' = [stage |-> "build", key |-> epoch, value |-> <<>>]
        /\ UNCHANGED <<worker, epoch, cache, stale, db, replay_records>> /\ epoch \in Nat
    BY <1>7 DEF ViewKey, cacheVars, historyVars, TypeOK
  <2> QED BY <2>1 DEF Fresh, CacheIsFresh, Records
<1>8. CASE ViewBuild
  <2>1. /\ view'.stage = "store" /\ view'.key = view.key /\ view'.value = Records
        /\ view.stage = "build" /\ UNCHANGED <<worker, epoch, cache, stale, db, replay_records>>
    BY <1>8 DEF ViewBuild, cacheVars, historyVars, TypeOK
  <2> QED BY <2>1 DEF Fresh, CacheIsFresh, Records
<1>9. CASE ViewStore
  <2>1. /\ view.stage = "store" /\ view'.stage = "none"
        /\ cache' = cache \cup {[key |-> view.key, value |-> view.value]}
        /\ UNCHANGED <<worker, epoch, stale, db, replay_records>>
    BY <1>9 DEF ViewStore, historyVars, NoView, StoreKey
  <2>2. Records' = Records
    BY <2>1 DEF Records
  <2>3. \A c \in cache' : c.key <= epoch'
    BY <2>1 DEF Fresh
  <2>4. CacheIsFresh'
    BY <2>1, <2>2 DEF Fresh, CacheIsFresh
  <2> QED BY <2>1, <2>3, <2>4 DEF Fresh
<1>10. CASE FeedRaises
  BY <1>10 DEF FeedRaises, Fresh, CacheIsFresh
<1> QED BY <1>1, <1>2, <1>4, <1>6, <1>7, <1>8, <1>9, <1>10 DEF Next, Worker, Ui

\* Whatever the worker does while a view is built: once it has finished its line, a
\* view found in the cache is the one that would be built now; after a replayed line that
\* raised, once something has invalidated the caches.
THEOREM CacheFresh == Spec => []CacheIsFresh
<1>1. Init => Fresh
  BY DEF Init, Fresh, CacheIsFresh, NoView
<1>2. Fresh => CacheIsFresh
  BY DEF Fresh
<1> QED BY <1>1, <1>2, NextFresh, TypeCorrect, PTL DEF Spec

-----------------------------------------------------------------------------
(* A replay feeds its lines in order.  What makes it inductive: the chunk    *)
(* still to be fed is the stretch of the log that ends where the player is,  *)
(* so that advance_replay, which moves the player, leaves the line that is   *)
(* fed next where it was; and a player that has moved has begun a lap.       *)

\* What of an appended sequence a deque keeps: the end, with the new element last.
LEMMA PushFacts ==
  ASSUME NEW e \in Reading, NEW k \in Nat, replay_records \in Seq(Reading), k = Len(replay_records),
         NEW d \in Nat, d = IF k + 1 > ReplayMax THEN k + 1 - ReplayMax ELSE 0,
         replay_records' = LastOf(ReplayMax, Append(replay_records, e))
  PROVE  /\ Len(replay_records') = k + 1 - d /\ replay_records'[k + 1 - d] = e
         /\ \A i \in 1 .. k - d : i + d \in 1 .. k /\ replay_records'[i] = replay_records[i + d]
<1>1. ReplayMax \in Nat /\ ReplayMax > 0
  BY DashboardAssumption
<1>2. PICK a \in Seq(Reading) : a = Append(replay_records, e)
  BY AppendFacts
<1>3. Len(a) = k + 1 /\ a[k + 1] = e /\ \A i \in 1 .. k : a[i] = replay_records[i]
  BY <1>2
<1>4. replay_records' = SubSeq(a, d + 1, Len(a)) /\ d + 1 \in 1 .. Len(a) + 1
  BY <1>1, <1>2, <1>3 DEF LastOf
<1>5. /\ Len(replay_records') = k + 1 - d
      /\ \A i \in 1 .. k + 1 - d : replay_records'[i] = a[i + d]
  <2>1. PICK m \in 1 .. Len(a) + 1 : m = d + 1
    BY <1>4
  <2>2. /\ Len(SubSeq(a, m, Len(a))) = Len(a) - m + 1
        /\ \A i \in 1 .. (Len(a) - m + 1) : SubSeq(a, m, Len(a))[i] = a[m + i - 1]
    BY SubSeqFacts
  <2>3. Len(a) - m + 1 = k + 1 - d
    <3>1. Len(a) = k + 1 /\ m = d + 1
      BY <1>3, <2>1
    <3> QED BY ONLY <3>1, k \in Nat, d \in Nat
  <2>5. ASSUME NEW i \in 1 .. k + 1 - d PROVE m + i - 1 = i + d
    BY ONLY <2>1, d \in Nat, i \in 1 .. k + 1 - d, k \in Nat
  <2>4. replay_records' = SubSeq(a, m, Len(a))
    BY <1>4, <2>1
  <2> QED BY <2>2, <2>3, <2>4, <2>5
<1>6. k + 1 - d \in 1 .. k + 1 - d /\ (k + 1 - d) + d = k + 1
  BY <1>1
<1>7. ASSUME NEW i \in 1 .. k - d
      PROVE  i + d \in 1 .. k /\ replay_records'[i] = replay_records[i + d]
  <2>1. i \in 1 .. k + 1 - d /\ i + d \in 1 .. k
    OBVIOUS
  <2> QED BY <1>3, <1>5, <2>1
<1> QED BY <1>3, <1>5, <1>6, <1>7

\* Snapshots are counted line by line.
LEMMA LinesFinite ==
  ASSUME NEW log, NEW p \in Nat
  PROVE  /\ IsFiniteSet({i \in 1 .. p : log[i] \in Snapshots})
         /\ Cardinality({i \in 1 .. p : log[i] \in Snapshots}) \in Nat
<1>1. IsFiniteSet(1 .. p) /\ {i \in 1 .. p : log[i] \in Snapshots} \subseteq 1 .. p
  BY FS_Interval
<1>2. IsFiniteSet({i \in 1 .. p : log[i] \in Snapshots})
  BY <1>1, FS_Subset
<1> QED BY <1>2, FS_CardinalityType

LEMMA SnapsFinite ==
  ASSUME NEW p \in Nat
  PROVE  IsFiniteSet(SnapLines(p)) /\ Cardinality(SnapLines(p)) \in Nat
  BY LinesFinite DEF SnapLines

LEMMA SnapsAtStart == Cardinality(SnapLines(0)) = 0
<1>1. SnapLines(0) = {}
  BY DEF SnapLines
<1> QED BY <1>1, FS_EmptySet

LEMMA SnapsNext ==
  ASSUME NEW p \in Nat
  PROVE  Cardinality(SnapLines(p + 1))
           = IF entries[p + 1] \in Snapshots THEN Cardinality(SnapLines(p)) + 1 ELSE Cardinality(SnapLines(p))
<1>1. CASE entries[p + 1] \in Snapshots
  <2>1. SnapLines(p + 1) = SnapLines(p) \cup {p + 1}
    BY <1>1 DEF SnapLines
  <2>2. p + 1 \notin SnapLines(p)
    BY DEF SnapLines
  <2>3. Cardinality(SnapLines(p) \cup {p + 1}) = Cardinality(SnapLines(p)) + 1
    BY <2>2, SnapsFinite, FS_AddElement
  <2> QED BY <1>1, <2>1, <2>3
<1>2. CASE entries[p + 1] \notin Snapshots
  <2>1. SnapLines(p + 1) = SnapLines(p)
    BY <1>2 DEF SnapLines
  <2> QED BY <1>2, <2>1
<1> QED BY <1>1, <1>2

LEMMA SnapsInType == ASSUME NEW n \in Nat, NEW p \in Nat, entries \in Seq(Kind)
                     PROVE  SnapsIn(n, p) \in Nat
<1>1. Len(entries) \in Nat
  OBVIOUS
<1>2. Cardinality(SnapLines(Len(entries))) \in Nat /\ Cardinality(SnapLines(p)) \in Nat
  BY <1>1, SnapsFinite
<1>3. \A a, b, c \in Nat : a * b + c \in Nat
  OBVIOUS
<1> QED BY <1>2, <1>3 DEF SnapsIn

LEMMA SnapsInNext ==
  ASSUME NEW n \in Nat, NEW p \in Nat, entries \in Seq(Kind)
  PROVE  SnapsIn(n, p + 1) = IF entries[p + 1] \in Snapshots THEN SnapsIn(n, p) + 1 ELSE SnapsIn(n, p)
<1>1. Len(entries) \in Nat
  OBVIOUS
<1>2. Cardinality(SnapLines(Len(entries))) \in Nat /\ Cardinality(SnapLines(p)) \in Nat
  BY <1>1, SnapsFinite
<1>3. \A a, b, c \in Nat : a * b + (c + 1) = (a * b + c) + 1
  OBVIOUS
<1>4. SnapsIn(n, p + 1) = n * Cardinality(SnapLines(Len(entries))) + Cardinality(SnapLines(p + 1))
  BY DEF SnapsIn
<1>5. SnapsIn(n, p) = n * Cardinality(SnapLines(Len(entries))) + Cardinality(SnapLines(p))
  BY DEF SnapsIn
<1>6. CASE entries[p + 1] \in Snapshots
  <2>1. Cardinality(SnapLines(p + 1)) = Cardinality(SnapLines(p)) + 1
    BY <1>6, SnapsNext
  <2> QED BY <1>2, <1>3, <1>4, <1>5, <1>6, <2>1
<1>7. CASE entries[p + 1] \notin Snapshots
  <2>1. Cardinality(SnapLines(p + 1)) = Cardinality(SnapLines(p))
    BY <1>7, SnapsNext
  <2> QED BY <1>4, <1>5, <1>7, <2>1
<1> QED BY <1>6, <1>7

\* The end of a lap is the beginning of the next.
LEMMA SnapsInWrap ==
  ASSUME NEW n \in Nat, entries \in Seq(Kind)
  PROVE  SnapsIn(n, Len(entries)) = SnapsIn(n + 1, 0)
<1>1. Len(entries) \in Nat
  OBVIOUS
<1>2. Cardinality(SnapLines(Len(entries))) \in Nat
  BY <1>1, SnapsFinite
<1>3. \A a, b \in Nat : a * b + b = (a + 1) * b + 0
  OBVIOUS
<1> QED BY <1>2, <1>3, SnapsAtStart DEF SnapsIn

\* The laps that are over, and how much of the current one has been fed.
Lap == IF position = 0 THEN laps ELSE laps - 1
Fed == position - Len(feed)

\* That the records are the last of the snapshots of l laps and p lines.
RecordsOf(l, p) ==
  LET kept == Len(replay_records)
  IN /\ kept = IF SnapsIn(l, p) < ReplayMax THEN SnapsIn(l, p) ELSE ReplayMax
     /\ \A i \in 1 .. kept :
          /\ replay_records[i].n \in SnapLines(Len(entries))
          /\ \E m \in 0 .. l : SnapsIn(m, replay_records[i].n) = SnapsIn(l, p) - kept + i

LEMMA InOrderIs == ReplayFeedsInOrder <=> (loaded /\ ~broken => RecordsOf(Lap, Fed))
  BY DEF ReplayFeedsInOrder, RecordsOf, Lap, Fed

FeedInv ==
  /\ Len(feed) <= position
  /\ \A i \in 1 .. Len(feed) : feed[i] = Fed + i
  /\ position > 0 => laps > 0
  /\ loaded /\ ~broken => RecordsOf(Lap, Fed)

\* A step that leaves the log and the records alone, and where the replay is.
LEMMA RecordsStay ==
  ASSUME UNCHANGED <<entries, replay_records>>, Lap' = Lap, Fed' = Fed, RecordsOf(Lap, Fed)
  PROVE  RecordsOf(Lap, Fed)'
<1>1. UNCHANGED SnapsIn(Lap, Fed)
  BY DEF SnapsIn, SnapLines
<1>2. \A m, p : SnapsIn(m, p)' = SnapsIn(m, p) /\ SnapLines(p)' = SnapLines(p)
  BY DEF SnapsIn, SnapLines
<1> QED BY <1>1, <1>2 DEF RecordsOf

LEMMA FeedInvStays ==
  ASSUME FeedInv, UNCHANGED <<loaded, entries, position, feed, replay_records, laps, broken>>
  PROVE  FeedInv'
<1>1. Lap' = Lap /\ Fed' = Fed
  BY DEF Lap, Fed
<1>2. loaded /\ ~broken => RecordsOf(Lap, Fed)'
  BY <1>1, RecordsStay DEF FeedInv
<1> QED BY <1>1, <1>2 DEF FeedInv

\* A replay that has just been loaded, or unloaded.
LEMMA FeedInvStarts ==
  ASSUME TypeOK', laps' = 0, position' = 0, feed' = <<>>, replay_records' = <<>>
  PROVE  FeedInv'
<1>1. Lap' = 0 /\ Fed' = 0 /\ Len(replay_records') = 0
  <2>1. Len(feed') = 0 /\ Len(replay_records') = 0
    OBVIOUS
  <2>2. Lap' = 0
    BY DEF Lap
  <2>3. Fed' = 0
    <3>1. Fed' = 0 - 0
      BY <2>1, Zenon DEF Fed
    <3> QED BY <3>1
  <2> QED BY <2>1, <2>2, <2>3
<1>2. SnapsIn(Lap, Fed)' = 0
  <2>1. Len(entries') \in Nat
    BY DEF TypeOK
  <2>2. Cardinality(SnapLines(Len(entries)))' \in Nat /\ Cardinality(SnapLines(0))' = 0
    <3>1. /\ \A p \in Nat : Cardinality(SnapLines(p)) \in Nat
          /\ Cardinality(SnapLines(0)) = 0
      BY SnapsFinite, SnapsAtStart
    <3>2. /\ \A p \in Nat : Cardinality(SnapLines(p)') \in Nat
          /\ Cardinality(SnapLines(0)') = 0
      <4>1. \A p \in Nat : Cardinality({i \in 1 .. p : entries'[i] \in Snapshots}) \in Nat
        BY LinesFinite
      <4>2. {i \in 1 .. 0 : entries'[i] \in Snapshots} = {} /\ Cardinality({}) = 0
        BY FS_EmptySet
      <4> QED BY <4>1, <4>2 DEF SnapLines
    <3> QED BY <2>1, <3>2 DEF SnapLines
  <2> QED BY <1>1, <2>2 DEF SnapsIn, SnapLines
<1>3. RecordsOf(Lap, Fed)'
  BY <1>1, <1>2, DashboardAssumption DEF RecordsOf
<1> QED BY <1>1, <1>3 DEF FeedInv

LEMMA AdvanceInOrder == TypeOK /\ FeedInv /\ Advance => FeedInv'
<1> SUFFICES ASSUME TypeOK, FeedInv, Advance PROVE FeedInv'
  OBVIOUS
<1>1. PICK end \in Nat : end = IF position + LinesPerTick < Len(entries) THEN position + LinesPerTick
                                                                       ELSE Len(entries)
  BY DashboardAssumption DEF TypeOK
<1>2. /\ feed' = [i \in 1 .. (end - position) |-> position + i] /\ position' = end
      /\ laps' = IF position = 0 THEN laps + 1 ELSE laps
      /\ feed = <<>> /\ UNCHANGED <<loaded, entries, replay_records, broken>>
  BY <1>1 DEF Advance, UiFree, NextPosition, historyVars
<1>3. position \in Nat /\ laps \in Nat /\ position < end
  BY <1>1, DashboardAssumption DEF TypeOK, Advance
<1>4. end - position \in Nat /\ Len(feed') = end - position
  BY <1>2, <1>3
<1>5. Fed = position /\ Fed' = position
  BY <1>2, <1>3, <1>4 DEF Fed
<1>6. Lap' = Lap
  BY <1>2, <1>3 DEF Lap
<1>7. loaded /\ ~broken => RecordsOf(Lap, Fed)'
  BY <1>2, <1>5, <1>6, RecordsStay DEF FeedInv
<1>8. \A i \in 1 .. Len(feed') : feed'[i] = Fed' + i
  BY <1>2, <1>4, <1>5
<1>9. position' > 0 => laps' > 0
  BY <1>2, <1>3 DEF FeedInv
<1> QED BY <1>2, <1>3, <1>4, <1>7, <1>8, <1>9 DEF FeedInv

\* Starting at the end of the log begins the next lap with nothing skipped.
LEMMA StartInOrder == TypeOK /\ FeedInv /\ StartReplay => FeedInv'
<1> SUFFICES ASSUME TypeOK, FeedInv, StartReplay PROVE FeedInv'
  OBVIOUS
<1>1. UNCHANGED <<loaded, entries, feed, replay_records, laps, broken>> /\ feed = <<>> /\ loaded
  BY DEF StartReplay, UserOp, UiFree, historyVars, ghostVars
<1>2. CASE position < Len(entries)
  BY <1>1, <1>2, FeedInvStays DEF StartReplay, TypeOK
<1>3. CASE position >= Len(entries)
  <2>1. position = Len(entries) /\ Len(entries) \in Nat /\ position' = 0 /\ laps \in Nat
    BY <1>3 DEF StartReplay, TypeOK
  <2>2. position > 0
    BY <1>1, <2>1 DEF TypeOK
  <2>3. Lap = laps - 1 /\ Lap \in Nat /\ Fed = Len(entries) /\ Lap' = Lap + 1 /\ Fed' = 0
    <3>1. Len(feed) = 0 /\ UNCHANGED laps /\ feed' = <<>>
      BY <1>1
    <3>2. Len(feed') = 0
      BY <3>1
    <3>3. laps > 0
      BY <2>2 DEF FeedInv
    <3>4. Lap = laps - 1 /\ Lap' = laps
      BY <2>1, <2>2, <3>1 DEF Lap
    <3>5. Fed = Len(entries) - 0 /\ Fed' = 0 - 0
      BY <2>1, <3>1, <3>2, Zenon DEF Fed
    <3> QED BY <2>1, <3>3, <3>4, <3>5
  <2>4. SnapsIn(Lap, Fed) = SnapsIn(Lap + 1, 0)
    BY <2>3, SnapsInWrap DEF TypeOK
  <2>5. \A m, p : SnapsIn(m, p)' = SnapsIn(m, p) /\ SnapLines(p)' = SnapLines(p)
    BY <1>1 DEF SnapsIn, SnapLines
  <2>6. SnapsIn(Lap, Fed)' = SnapsIn(Lap, Fed)
    BY <1>1, <2>3, <2>4 DEF SnapsIn, SnapLines
  <2>7. 0 .. Lap \subseteq 0 .. Lap'
    BY <2>3
  <2>8. RecordsOf(Lap, Fed) => RecordsOf(Lap, Fed)'
    BY <1>1, <2>5, <2>6, <2>7 DEF RecordsOf
  <2> QED BY <1>1, <2>1, <2>8 DEF FeedInv
<1> QED BY <1>2, <1>3 DEF TypeOK

LEMMA FeedInOrder == TypeOK /\ Apart /\ FeedInv /\ Feed => FeedInv'
<1> SUFFICES ASSUME TypeOK, Apart, FeedInv, Feed PROVE FeedInv'
  OBVIOUS
<1>1. /\ UNCHANGED <<loaded, entries, position, laps, broken, load>> /\ loaded
      /\ feed # <<>> /\ feed' = Tail(feed)
  BY DEF Feed, Apart, playerVars, ghostVars
<1>2. PICK n \in Nat : n = Len(feed)
  BY DEF TypeOK
<1>3. PICK k \in Nat : k = Len(replay_records)
  BY DEF TypeOK
<1>4. /\ Len(feed') = n - 1 /\ n > 0 /\ Head(feed) = feed[1] /\ Head(feed) \in 1 .. Len(entries)
      /\ \A i \in 1 .. n - 1 : feed'[i] = feed[i + 1] /\ i + 1 \in 1 .. n
  <2>1. feed \in Seq(Nat) /\ DOMAIN feed = 1 .. n /\ DOMAIN entries = 1 .. Len(entries)
    BY <1>2 DEF TypeOK
  <2>2. feed' \in Seq(Nat) /\ DOMAIN feed' = 1 .. n - 1 /\ 1 \in 1 .. n
    BY <1>1, <1>2, <2>1, TailFacts
  <2>3. n > 0 /\ Len(feed') = n - 1
    BY <1>2, <2>2
  <2>4. Head(feed) = feed[1] /\ \A i \in 1 .. n - 1 : feed'[i] = feed[i + 1] /\ i + 1 \in 1 .. n
    BY <1>1, <1>2, <2>1, TailFacts
  <2>5. feed[1] \in 1 .. Len(entries)
    BY <2>1, <2>2 DEF TypeOK
  <2> QED BY <2>3, <2>4, <2>5
<1>5. PICK p \in Nat : p = Fed /\ Fed' = p + 1 /\ Head(feed) = p + 1 /\ position > 0
  <2>1. position \in Nat /\ n <= position
    BY <1>2 DEF FeedInv, TypeOK
  <2>2. Fed = position - n /\ Fed' = position - (n - 1)
    BY <1>1, <1>2, <1>4 DEF Fed
  <2>3. Head(feed) = Fed + 1
    BY <1>2, <1>4 DEF FeedInv
  <2> QED BY <1>4, <2>1, <2>2, <2>3
<1>6. PICK l \in Nat : l = Lap /\ Lap' = l
  <2>1. laps \in Nat /\ laps > 0 /\ position # 0
    BY <1>5 DEF FeedInv, TypeOK
  <2>2. Lap = laps - 1
    BY <2>1 DEF Lap
  <2>3. Lap' = laps - 1
    BY <1>1, <2>1 DEF Lap
  <2> QED BY <2>1, <2>2, <2>3
<1>7. SnapsIn(l, p + 1) = IF entries[p + 1] \in Snapshots THEN SnapsIn(l, p) + 1 ELSE SnapsIn(l, p)
  BY SnapsInNext DEF TypeOK
<1>8. \A m, q : SnapsIn(m, q)' = SnapsIn(m, q) /\ SnapLines(q)' = SnapLines(q)
  BY <1>1 DEF SnapsIn, SnapLines
<1>9. SnapsIn(Lap, Fed)' = SnapsIn(l, p + 1)
  BY <1>1, <1>5, <1>6 DEF SnapsIn, SnapLines
<1>10. ASSUME ~broken, entries[p + 1] \notin Snapshots PROVE RecordsOf(Lap, Fed)'
  <2>1. UNCHANGED replay_records
    BY <1>5, <1>10 DEF Feed, historyVars
  <2>2. SnapsIn(Lap, Fed)' = SnapsIn(Lap, Fed) /\ 0 .. Lap' = 0 .. Lap
    BY <1>5, <1>6, <1>7, <1>9, <1>10
  <2>3. RecordsOf(Lap, Fed)
    BY <1>1, <1>10 DEF FeedInv
  <2> QED BY <1>1, <1>8, <2>1, <2>2, <2>3 DEF RecordsOf
<1>11. ASSUME ~broken, entries[p + 1] \in Snapshots PROVE RecordsOf(Lap, Fed)'
  <2> DEFINE r == [src |-> load, n |-> p + 1]
  <2>1. r \in Reading /\ r.n = p + 1
    BY DEF Reading, TypeOK
  <2>2. replay_records' = LastOf(ReplayMax, Append(replay_records, r))
    BY <1>1, <1>5, <1>11 DEF Feed, Record, ReplayMode
  <2> HIDE DEF r
  <2>3. PICK d \in Nat : d = IF k + 1 > ReplayMax THEN k + 1 - ReplayMax ELSE 0
    <3>1. ReplayMax \in Nat
      BY DashboardAssumption
    <3>2. (IF k + 1 > ReplayMax THEN k + 1 - ReplayMax ELSE 0) \in Nat
      BY <3>1
    <3> QED BY <3>2, Zenon
  <2>4. /\ Len(replay_records') = k + 1 - d /\ replay_records'[k + 1 - d] = r
        /\ \A i \in 1 .. k - d : i + d \in 1 .. k /\ replay_records'[i] = replay_records[i + d]
    <3>1. replay_records \in Seq(Reading)
      BY DEF TypeOK
    <3> QED BY <1>3, <2>1, <2>2, <2>3, <3>1, PushFacts, SMTT(30)
  <2>5. PICK f \in Nat : f = SnapsIn(l, p) /\ SnapsIn(Lap, Fed)' = f + 1
    BY <1>7, <1>9, <1>11, SnapsInType DEF TypeOK
  <2>6. /\ k = IF f < ReplayMax THEN f ELSE ReplayMax
        /\ \A i \in 1 .. k :
             /\ replay_records[i].n \in SnapLines(Len(entries))
             /\ \E m \in 0 .. l : SnapsIn(m, replay_records[i].n) = f - k + i
    BY <1>1, <1>3, <1>5, <1>6, <1>11, <2>5 DEF FeedInv, RecordsOf
  <2>7. k + 1 - d = IF f + 1 < ReplayMax THEN f + 1 ELSE ReplayMax
    BY <2>3, <2>6, DashboardAssumption
  <2>8. ASSUME NEW i \in 1 .. k + 1 - d
        PROVE  /\ replay_records'[i].n \in SnapLines(Len(entries))
               /\ \E m \in 0 .. l : SnapsIn(m, replay_records'[i].n) = (f + 1) - (k + 1 - d) + i
    <3>1. CASE i = k + 1 - d
      <4>1. replay_records'[i].n = p + 1
        BY <2>1, <2>4, <3>1
      <4>2. p + 1 \in SnapLines(Len(entries))
        BY <1>4, <1>5, <1>11 DEF SnapLines
      <4>3. SnapsIn(l, p + 1) = (f + 1) - (k + 1 - d) + i /\ l \in 0 .. l
        BY <1>7, <1>11, <2>5, <3>1
      <4> QED BY <4>1, <4>2, <4>3
    <3>2. CASE i # k + 1 - d
      <4>1. i \in 1 .. k - d
        BY <3>2
      <4>2. i + d \in 1 .. k /\ replay_records'[i].n = replay_records[i + d].n
        BY <2>4, <4>1
      <4>3. f - k + (i + d) = (f + 1) - (k + 1 - d) + i
        OBVIOUS
      <4> QED BY <2>6, <4>2, <4>3
    <3> QED BY <3>1, <3>2
  <2>9. Len(replay_records)' = k + 1 - d
    BY <2>4
  <2>10. SnapLines(Len(entries))' = SnapLines(Len(entries))
    BY <1>1 DEF SnapLines
  <2> QED BY <1>6, <1>8, <2>5, <2>7, <2>8, <2>9, <2>10 DEF RecordsOf
<1>12. Len(feed') <= position' /\ \A i \in 1 .. Len(feed') : feed'[i] = Fed' + i
  <2>1. \A i \in 1 .. n : feed[i] = p + i
    BY <1>2, <1>5 DEF FeedInv
  <2>2. \A i \in 1 .. n - 1 : feed'[i] = (p + 1) + i
    BY <1>4, <2>1
  <2>3. n - 1 <= position
    BY <1>2 DEF FeedInv, TypeOK
  <2> QED BY <1>1, <1>4, <1>5, <2>2, <2>3
<1>13. position' > 0 => laps' > 0
  BY <1>1 DEF FeedInv
<1> QED BY <1>1, <1>10, <1>11, <1>12, <1>13 DEF FeedInv

LEMMA NextInOrder == TypeOK /\ TypeOK' /\ Apart /\ FeedInv /\ [Next]_vars => FeedInv'
<1> SUFFICES ASSUME TypeOK, TypeOK', Apart, FeedInv, [Next]_vars PROVE FeedInv'
  OBVIOUS
<1>1. CASE StopReplay \/ \E log \in Logs : LoadReplay(log)
  BY <1>1, FeedInvStarts DEF StopReplay, LoadReplay, ClearReplayRuntime, UserOp, UiFree
<1>2. CASE ClearHistory
  <2>1. /\ broken' = TRUE /\ UNCHANGED <<position, feed, laps>>
    BY <1>2 DEF ClearHistory, playerVars
  <2>2. Fed' = Fed
    BY <2>1 DEF Fed
  <2> QED BY <2>1, <2>2 DEF FeedInv
<1>3. CASE LiveSnap
  <2>1. UNCHANGED replay_records
    BY <1>3 DEF LiveSnap, Record, Apart, SourcesStayApart, ReplayMode
  <2> QED BY <1>3, <2>1, FeedInvStays DEF LiveSnap, playerVars
<1>4. CASE LiveSample \/ LiveRaises \/ LiveDone \/ \E kind \in Kind \ Snapshots : LiveOther(kind)
  BY <1>4, FeedInvStays DEF LiveSample, LiveRaises, LiveDone, LiveOther, playerVars, historyVars, ghostVars
<1>5. CASE AutoConnect \/ Connect \/ Disconnect \/ LinkLost
  BY <1>5, FeedInvStays DEF AutoConnect, Connect, Disconnect, LinkLost, LinkUp, LinkDown, playerVars,
     historyVars, ghostVars
<1>6. CASE PauseOrResume \/ ViewKey \/ ViewBuild \/ ViewStore \/ UNCHANGED vars
  BY <1>6, FeedInvStays DEF PauseOrResume, ViewKey, ViewBuild, ViewStore, vars, playerVars,
     historyVars, ghostVars
<1>7. CASE Advance \/ StartReplay \/ Feed
  BY <1>7, AdvanceInOrder, StartInOrder, FeedInOrder
<1>8. CASE FeedRaises
  <2>1. broken' = TRUE /\ feed' = <<>> /\ UNCHANGED <<position, laps>>
    BY <1>8 DEF FeedRaises, playerVars
  <2>2. Len(feed') = 0 /\ position \in Nat
    BY <2>1 DEF TypeOK
  <2> QED BY <2>1, <2>2 DEF FeedInv
<1> QED BY <1>1, <1>2, <1>3, <1>4, <1>5, <1>6, <1>7, <1>8 DEF Next, Worker, Ui

\* However a replay is cut into chunks, paused, resumed and started again, the records are
\* the last of the snapshots it has fed: none is skipped, fed twice in a lap or out of order,
\* as long as no line raises.
THEOREM ReplayInOrder == ~ConnectDuringReplay => (Spec => []ReplayFeedsInOrder)
<1> SUFFICES ASSUME ~ConnectDuringReplay PROVE Spec => []ReplayFeedsInOrder
  OBVIOUS
<1>1. Init => Apart /\ FeedInv
  <2> SUFFICES ASSUME Init PROVE Apart /\ FeedInv
    OBVIOUS
  <2>1. Apart
    BY NoSources DEF Init, Apart, SourcesStayApart
  <2>2. ~loaded /\ position = 0 /\ feed = <<>>
    BY DEF Init
  <2> QED BY <2>1, <2>2 DEF FeedInv
<1>2. TypeOK /\ TypeOK' /\ Apart /\ FeedInv /\ [Next]_vars => Apart' /\ FeedInv'
  BY NextApart, NextInOrder
<1>3. FeedInv => ReplayFeedsInOrder
  BY InOrderIs DEF FeedInv
<1> QED BY <1>1, <1>2, <1>3, TypeCorrect, PTL DEF Spec
=============================================================================

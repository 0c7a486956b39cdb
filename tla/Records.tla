------------------------------ MODULE Records ------------------------------
(***************************************************************************)
(* The two places readings are kept: the SQLite table of                   *)
(* backend/storage.py and the replay's deque of history_service.py, which  *)
(* stands in for the table while it is not empty.                          *)
(*                                                                         *)
(* Both are sequences of readings in the order they came in.  Every query  *)
(* answers with the newest first.                                          *)
(***************************************************************************)
EXTENDS Analysis

CONSTANT ReplayMax  \* maxlen of the deque

ASSUME ReplayAssumption == ReplayMax \in Nat \ {0}

Newest(n, desc) == SubSeq(desc, 1, Smaller(n, Len(desc)))

\* save_snapshot: AUTOINCREMENT, so the order of the ids is the order of arrival.
save_snapshot(table, r) == Append(table, r)

\* appendleft on the bounded deque: the oldest record falls out.
ReplayRecords(fed) == SubSeq(Reverse(fed), 1, Smaller(ReplayMax, Len(fed)))

get_all(table) == Reverse(table)

get_recent(table, limit) == Newest(limit, get_all(table))

\* ORDER BY meter_timestamp DESC, id DESC.
Newer(table, i, j) == table[i].t > table[j].t \/ (table[i].t = table[j].t /\ i > j)

\* (mutated: ORDER BY without DESC)
UpwardsByTime(table, ids) ==
  [k \in 1 .. Cardinality(ids) |->
     CHOOSE i \in ids : Cardinality({j \in ids : Newer(table, i, j)}) = k - 1]

NewestByTime(table, ids) ==
  [k \in 1 .. Cardinality(ids) |->
     CHOOSE i \in ids : Cardinality({j \in ids : Newer(table, j, i)}) = k - 1]

\* WHERE meter_timestamp >= since: a text that is no date is smaller than every date.
get_since_meter_time(table, since, limit) ==
  LET ids == NewestByTime(table, {i \in 1 .. Len(table) : table[i].t # NoTime /\ table[i].t >= since})
      rows == [k \in 1 .. Len(ids) |-> table[ids[k]]]
  IN IF limit > 0 THEN Newest(limit, rows) ELSE rows

\* AVG, MAX and MIN over the newest readings.
Summary(desc) ==
  LET S == 1 .. Len(desc)
      Net(i) == desc[i].import - desc[i].export IN
  IF desc = <<>> THEN [count |-> 0]
  ELSE [count |-> Len(desc),
        avgImport |-> MeanOf(LAMBDA i : desc[i].import, S), avgNet |-> MeanOf(Net, S),
        maxImport |-> Max({desc[i].import : i \in S}),
        minNet |-> Min({Net(i) : i \in S}), maxNet |-> Max({Net(i) : i \in S})]

get_summary(table, limit) == Summary(get_recent(table, limit))

\* export_csv: the oldest first.
export_csv(table, limit) == Reverse(IF limit > 0 THEN get_recent(table, limit) ELSE get_all(table))

-----------------------------------------------------------------------------
(* HistoryService: the replay's records, if there are any, else the table's. *)

all_records_desc(table, replay, limit) ==
  IF replay # <<>> THEN IF limit > 0 THEN Newest(limit, replay) ELSE replay
  ELSE IF limit > 0 THEN get_recent(table, limit) ELSE get_all(table)

records_desc(table, replay, limit) ==
  IF replay # <<>> THEN Newest(limit, replay) ELSE get_recent(table, limit)

records_since_meter_time(table, replay, since, limit) ==
  IF replay = <<>> THEN get_since_meter_time(table, since, limit)
  ELSE LET rows == At(replay, {k \in 1 .. Len(replay) : replay[k].t # NoTime /\ replay[k].t >= since})
       IN IF limit > 0 THEN Newest(limit, rows) ELSE rows

summary(table, replay, limit) ==
  IF replay = <<>> THEN get_summary(table, limit) ELSE Summary(records_desc(table, replay, limit))

integrated_intervals(table, replay, limit) ==
  LET d == Dated(all_records_desc(table, replay, limit))
      ids == InOrder(EnergyIntervals(d))
  IN [k \in 1 .. Len(ids) |-> LET i == ids[k] IN
        [start |-> d[i].t, ticks |-> Gap(d, i), import |-> d[i].import, export |-> d[i].export]]

\* GatewayService.analysis_summary: the energy of the running week.
WeekSummary(table, replay, limit) ==
  LET recent == records_desc(table, replay, limit)
      latest == recent[1].t
      energy == IF latest = NoTime THEN recent
                ELSE records_since_meter_time(table, replay, WeekOf(latest) * WeekLen, 0)
  IN analysis_summary(recent, energy)
=============================================================================

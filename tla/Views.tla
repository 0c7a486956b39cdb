------------------------------- MODULE Views -------------------------------
(***************************************************************************)
(* What the dashboard shows, computed several times by functions that were *)
(* written apart: from a growing history of readings, from the hours of a  *)
(* month, and from a command that is typed.  The functions are pure; what  *)
(* can be wrong is that they disagree, that the tab that is open does not  *)
(* show what they return (module Panels), or that the lines they start     *)
(* from were never sent (module Wire).  The five parts have nothing to do  *)
(* with each other: only one of them moves in a behaviour.  The properties *)
(* of the last three, commands, panels and wire, are in their modules.     *)
(***************************************************************************)
EXTENDS Costs, Protocol, Panels, Wire

CONSTANTS
  Start,        \* the first meter times
  Gaps,         \* what can lie between two readings; NoTime for one without a time
  Kinds,        \* the readings: records of import, export and amps
  MaxReadings, MaxHours,   \* bounds
  Kw,           \* the mean imports of an hour
  RowLimits     \* the rows the page asks for: records of summary, top, graph and cost

ASSUME ViewsAssumption ==
  /\ Start \subseteq Int \ {NoTime} /\ Gaps \subseteq Int /\ Kw \subseteq Nat
  /\ \A kind \in Kinds : kind.import \in Int /\ kind.export \in Int /\ kind.amps \in [Conductor -> Int]
  /\ MaxReadings \in Nat /\ MaxHours \in Nat
  /\ \A n \in RowLimits : {n.summary, n.top, n.graph, n.cost} \subseteq Nat \ {0}

VARIABLES
  table,    \* the readings stored, the oldest first
  hours     \* the hours of a month: a sequence of rows for estimate_capacity

vars == <<table, hours, command, panelVars, wireVars>>

NoData == table = <<>> /\ hours = <<>>

Init == NoData /\ InitCommand /\ InitPanels /\ InitWire

\* The newest time that was read; the meter's clock goes on from there.
Clock == LET d == Dated(Reverse(table)) IN d[Len(d)].t

Reading(t, kind) == [t |-> t, import |-> kind.import, export |-> kind.export, amps |-> kind.amps]

\* A snapshot arrives.
AddReading ==
  /\ InitCommand /\ InitPanels /\ InitWire
  /\ Len(table) < MaxReadings /\ hours = <<>>
  /\ \E kind \in Kinds :
       \/ /\ table = <<>>
          /\ \E t \in Start : table' = save_snapshot(table, Reading(t, kind))
       \/ /\ table # <<>>
          /\ \E gap \in Gaps :
               table' = save_snapshot(table, Reading(IF gap = NoTime THEN NoTime ELSE Clock + gap, kind))
  /\ UNCHANGED <<hours, command, panelVars, wireVars>>

\* An hour of the month is complete: the next of the same day, or the first of a later day.
AddHour ==
  /\ InitCommand /\ InitPanels /\ InitWire
  /\ Len(hours) < MaxHours /\ table = <<>>
  /\ \E day \in {0, 1}, kw \in Kw :
       LET h == IF hours = <<>> THEN 0
                ELSE IF day = 0 THEN hours[Len(hours)].hour + 1
                ELSE (hours[Len(hours)].day + 1) * MaxHours IN
       hours' = Append(hours, [day |-> h \div MaxHours, hour |-> h, kw |-> Ratio(kw, 1)])
  /\ UNCHANGED <<table, command, panelVars, wireVars>>

\* A command is typed.
UseCommand == NoData /\ InitPanels /\ InitWire /\ TypeCommand /\ UNCHANGED <<table, hours, panelVars, wireVars>>

\* The page is used.
UsePage == NoData /\ InitCommand /\ InitWire /\ NextPanels /\ UNCHANGED <<table, hours, command, wireVars>>

\* The gateway prints and the dashboard reads.
UseWire == NoData /\ InitCommand /\ InitPanels /\ NextWire /\ UNCHANGED <<table, hours, command, panelVars>>

Next == AddReading \/ AddHour \/ UseCommand \/ UsePage \/ UseWire

Spec == Init /\ [][Next]_vars

-----------------------------------------------------------------------------
(* The history.                                                              *)

desc == get_all(table)
dated == Dated(desc)
Parses == \A i \in 1 .. Len(table) : table[i].t # NoTime
Forward == \A i \in 1 .. Len(dated) - 1 : Gap(dated, i) > 0

Threshold == 30
Networks  == {"TN", "IT"}

\* The heatmap cuts intervals at the hours, merges weekdays, and counts steps.  Against
\* tick by tick: an hour's bucket holds the ticks of the hour that lie in an interval and
\* the power of each (analysis.py:709-735); no hour of a clock that only goes forward has
\* more than its ticks; weekdays hold what the days hold (800-822); in a TN network every
\* step above the threshold that the currents show is counted, in a slot that names the
\* conductor that changed most (738-745, mains.py:43).
HeatmapIsExact ==
  dated # <<>> => \A net \in Networks :
    LET map == build_load_heatmaps(desc, 7, Threshold, net)
        I == HeatIntervals(dated)
        Ticks(h) == {x \in I \X (h * HourLen .. (h + 1) * HourLen - 1) :
                       dated[x[1]].t <= x[2] /\ x[2] < dated[x[1] + 1].t}
        Big == {i \in I : Step(dated, i) >= Threshold}
        Largest(i) == {p \in Conductor : \A q \in Conductor :
          Abs(dated[i + 1].amps[q] - dated[i].amps[q]) <= Abs(dated[i + 1].amps[p] - dated[i].amps[p])}
        Seen == {i \in Big : \E p \in Conductor : Abs(dated[i + 1].amps[p] - dated[i].amps[p]) >= 20}
    IN /\ \A h \in DOMAIN map.bucket :
            /\ map.bucket[h].duration = Cardinality(Ticks(h))
            /\ map.bucket[h].use = Sum(LAMBDA x : Use(dated[x[1]]), Ticks(h))
            /\ Forward => map.bucket[h].duration <= HourLen
       /\ Sum(LAMBDA h : map.bucket[h].signed, DOMAIN map.bucket)
            = Sum(LAMBDA i : signed_grid_w(dated[i]) * Gap(dated, i), I)
       /\ \A k \in 1 .. 4 :
            Sum(LAMBDA w : Sum(LAMBDA x : map.weekday[w][x].switches[k], DOMAIN map.weekday[w]), DOMAIN map.weekday)
              = Sum(LAMBDA h : map.bucket[h].switches[k], DOMAIN map.bucket)
       /\ net = "TN" =>
            /\ Cardinality(Seen)
                 = Sum(LAMBDA h : map.bucket[h].switches[1] + map.bucket[h].switches[2]
                                  + map.bucket[h].switches[3] + map.bucket[h].switches[4], DOMAIN map.bucket)
            /\ \A i \in Seen : Largest(i) \cap StepLabel(dated, i, net) # {}

\* No reading since a time is lost to a view of the newest n.
Reaches(n, start) == \A i \in 1 .. Len(table) - n : table[i].t < start

\* Four views of the same energy and three of the same hourly averages agree: the windows
\* of the analysis page (analysis.py:284), the cost rows (cost_service.py:79), the heatmap
\* where no interval crosses an hour or is exactly half an hour long (there they differ by
\* design) and the hours of the capacity estimate (cost_service.py:17); the top hours (442),
\* the daily graph (470) and the running hour (349).  The page gives each its own number of
\* rows (5, 10 and 20 times the history limit the user has typed and 12000,
\* state_parts/analysis.py:65-110, cost.py:42), the week all: two agree on an hour, the
\* day or the week that both reach back to; on one that is cut they need not.  The costs
\* and the capacity step are of the same rows, and agree on every hour.  The meter's clock
\* goes forward, and every reading has a time.
Genuine == [price |-> 3, fallback |-> FALSE]

ViewsAgree ==
  table # <<>> /\ Forward /\ Parses => \A n \in RowLimits :
    LET latest == desc[1].t
        iv == integrated_intervals(table, <<>>, n.cost)
        costs == build_summary(iv, Genuine, [k \in 1 .. Len(iv) |-> Genuine], 2, 1)
        view == WeekSummary(table, <<>>, n.summary)
        recent == all_records_desc(table, <<>>, n.graph)
        map == build_load_heatmaps(recent, 7, Threshold, "TN")
        Whole(h) == \A i \in HeatIntervals(Dated(recent)) :
          Segment(Dated(recent), i, h) > 0 =>
            Segment(Dated(recent), i, h) = Gap(Dated(recent), i) /\ Gap(Dated(recent), i) # HalfHour
        top == top_hour_rows(all_records_desc(table, <<>>, n.top), 8)
        graph == daily_graph_data(recent)
    IN /\ \A h \in DOMAIN costs.rows : Reaches(n.cost, h * HourLen) =>
            /\ Reaches(n.graph, h * HourLen) /\ Whole(h) =>
                 map.bucket[h].import = costs.rows[h].import /\ map.bucket[h].export = costs.rows[h].export
            /\ h = HourOf(latest) => view.windows.hour.import = costs.rows[h].import
       /\ Reaches(n.cost, DayOf(latest) * DayLen) =>
            \/ \A h \in DOMAIN costs.rows : h \div HoursPerDay # DayOf(latest)
            \/ /\ view.windows.day.import = Sum(LAMBDA h : costs.rows[h].import, DOMAIN costs.rows)
               /\ view.windows.day.export = Sum(LAMBDA h : costs.rows[h].export, DOMAIN costs.rows)
       /\ Reaches(n.cost, WeekOf(latest) * WeekLen) =>
            view.windows.week.import =
              Sum(LAMBDA k : IF WeekOf(iv[k].start) = WeekOf(latest) THEN iv[k].import * iv[k].ticks ELSE 0, 1 .. Len(iv))
       /\ \A k \in 1 .. Len(top) : Reaches(n.top, top[k].hour * HourLen) =>
            /\ top[k].hour \in DOMAIN graph.rows /\ Reaches(n.graph, top[k].hour * HourLen) =>
                 SameRatio(graph.rows[top[k].hour].import, top[k].import)
            /\ top[k].hour = HourOf(latest) /\ Reaches(n.summary, top[k].hour * HourLen) =>
                 SameRatio(view.currentHour, top[k].signed)
       /\ graph.day = DayOf(latest)
       /\ \A h \in DOMAIN costs.rows : \E r \in CapacityRows(iv) :
            r.hour = h /\ SameRatio(r.kw, Ratio(costs.rows[h].import, costs.rows[h].ticks))

\* A replay shows what the same readings show from the database: the records, the records
\* since a time, the summary and the week's energy, whether SQL or Python selects and
\* sorts them, up to what the bounded deque has dropped (history_service.py:50-87,
\* storage.py:94-156).
ReplayLooksLikeLive ==
  table # <<>> /\ Forward =>
    LET replay == ReplayRecords(table) IN
    \A n \in 1 .. ReplayMax :
      /\ all_records_desc(table, <<>>, n) = all_records_desc(table, replay, n)
      /\ records_desc(table, <<>>, n) = records_desc(table, replay, n)
      /\ summary(table, <<>>, n) = summary(table, replay, n)
      /\ export_csv(table, n) = Reverse(records_desc(table, replay, n))
      /\ Len(table) <= ReplayMax =>
           /\ \A i \in 1 .. Len(dated) : records_since_meter_time(table, <<>>, dated[i].t, n)
                                          = records_since_meter_time(table, replay, dated[i].t, n)
           /\ WeekSummary(table, <<>>, n) = WeekSummary(table, replay, n)

\* No interval is priced with the fallback in silence, whenever in the loop the live price
\* arrives: the hours warned about are those with an interval at the fallback price, every
\* other hour costs its energy at the live price, and the day costs what its hours cost
\* ("warnings when fallback pricing was used", cost_service.py:91, 139).
FallbackIsSurfaced ==
  table # <<>> =>
    LET iv == integrated_intervals(table, <<>>, 0) IN
    \A arrives \in 1 .. Len(iv) + 1 :
      LET quote == [k \in 1 .. Len(iv) |-> [price |-> IF k < arrives THEN 10 ELSE 3, fallback |-> k < arrives]]
          costs == build_summary(iv, Genuine, quote, 2, 1)
          AtFallback(h) == \E k \in 1 .. Len(iv) : HourOf(iv[k].start) = h /\ k < arrives
      IN /\ \A h \in DOMAIN costs.rows :
              /\ h \in costs.warned <=> AtFallback(h)
              /\ h \notin costs.warned =>
                   /\ costs.rows[h].cost = costs.rows[h].import * (3 + costs.rows[h].grid)
                   /\ costs.rows[h].value = costs.rows[h].export * 3
         /\ costs.daily.cost = Sum(LAMBDA h : costs.rows[h].cost, DOMAIN costs.rows)

-----------------------------------------------------------------------------
(* The capacity step.                                                        *)

Rows == {hours[k] : k \in 1 .. Len(hours)}
estimate == estimate_capacity(Rows)

\* The basis is the largest mean of up to three hours of different days (pricing.py:181:
\* "top 3 hourly averages on different days"); it lies in the step chosen; the ladder
\* shows every lower step passed, that one active, every higher one to come.
CapacityFollowsLadder ==
  hours # <<>> =>
    LET import == {r \in Rows : r.kw.sum > 0}
        days == {r.day : r \in import}
        Picks == {R \in SUBSET import : /\ \A r, s \in R : r # s => r.day # s.day
                                        /\ Cardinality(R) = Smaller(3, Cardinality(days))}
        k == estimate.chosen
    IN /\ \E R \in Picks : SameRatio(estimate.basis, Mean(R))
       /\ \A R \in Picks : ~AboveRatio(Mean(R), estimate.basis)
       /\ k = Len(Ladder) \/ ~AboveRatio(estimate.basis, Step1(Ladder[k]))
       /\ k = 1 \/ AboveRatio(estimate.basis, Step1(Ladder[k - 1]))
       /\ estimate.steps = [j \in 1 .. Len(Ladder) |->
            IF j < k THEN "passed" ELSE IF j = k THEN "active" ELSE "future"]

=============================================================================

------------------------------ MODULE Analysis ------------------------------
(***************************************************************************)
(* The views of domain/analysis.py: energy windows, hourly averages, the   *)
(* daily graph, the phases and the load heatmap.                           *)
(*                                                                         *)
(* A reading is a snapshot with its meter time; NoTime stands for a time   *)
(* that does not parse.  Time counts ticks (ten minutes, say), HourLen of  *)
(* them to an hour; hours are numbered from the start of the calendar.     *)
(* Power counts units of 10 W, so that every threshold is an integer, and  *)
(* energy power units times ticks.  A mean is kept as the pair of its sum  *)
(* and its count.  The texts and colours made of all this are left out.    *)
(***************************************************************************)
EXTENDS Mains, Sequences, SequencesExt, FiniteSetsExt

CONSTANTS
  HourLen,     \* ticks of an hour
  HoursPerDay,
  DaysPerWeek

ASSUME CalendarAssumption ==
  /\ HourLen \in Nat \ {0} /\ HourLen % 2 = 0
  /\ HoursPerDay \in Nat \ {0} /\ DaysPerWeek \in Nat \ {0}

NoTime   == -1
HalfHour == HourLen \div 2
DayLen   == HourLen * HoursPerDay
WeekLen  == DayLen * DaysPerWeek

HourOf(t) == t \div HourLen
DayOf(t)  == t \div DayLen
WeekOf(t) == t \div WeekLen

Sum(op(_), S) == SumFunctionOnSet([x \in S |-> op(x)], S)
Larger(a, b)  == IF a > b THEN a ELSE b
Smaller(a, b) == IF a < b THEN a ELSE b
Abs(x)        == Larger(x, -x)

\* Means, and their comparison without division.
Ratio(sum, count) == [sum |-> sum, count |-> count]
SameRatio(a, b)   == a.sum * b.count = b.sum * a.count
AboveRatio(a, b)  == a.sum * b.count > b.sum * a.count

MeanOf(op(_), S) == Ratio(Sum(op, S), Cardinality(S))

signed_grid_w(r) == r.export - r.import

\* _sample_power: the power a heatmap calls "use".
Use(r) == Larger(r.import, r.export)

\* A set of numbers in order, and the k-th of them.
Nth(E, k)  == CHOOSE j \in E : Cardinality({m \in E : m < j}) = k - 1
InOrder(E) == [k \in 1 .. Cardinality(E) |-> Nth(E, k)]

\* What is at the places E of a sequence, in their order.
At(seq, E) == LET ids == InOrder(E) IN [k \in 1 .. Len(ids) |-> seq[ids[k]]]

\* Records come newest first; the views that integrate turn them round and skip the
\* readings without a time.
Dated(desc) == LET r == Reverse(desc) IN At(r, {i \in 1 .. Len(r) : r[i].t # NoTime})

Gap(d, i) == d[i + 1].t - d[i].t

-----------------------------------------------------------------------------
(* Energy of the hour, the day and the week.                                 *)

\* Power is taken as constant until the next reading, if that comes within half an hour.
EnergyIntervals(d) == {i \in 1 .. Len(d) - 1 : 0 < Gap(d, i) /\ Gap(d, i) < HalfHour}

\* (mutated: the reading at the end of the interval gives the power)
KwhOfNext(d, S) == [import |-> Sum(LAMBDA i : d[i + 1].import * Gap(d, i), S),
                    export |-> Sum(LAMBDA i : d[i + 1].export * Gap(d, i), S)]

Kwh(d, S) == [import |-> Sum(LAMBDA i : d[i].import * Gap(d, i), S),
              export |-> Sum(LAMBDA i : d[i].export * Gap(d, i), S)]

\* An interval belongs whole to the windows its start is in.
_integrated_energy_windows(desc, latest) ==
  LET d == Dated(desc)
      Since(start) == Kwh(d, {i \in EnergyIntervals(d) : d[i].t >= start})
  IN [hour |-> Since(HourOf(latest) * HourLen),
      day  |-> Since(DayOf(latest) * DayLen),
      week |-> Since(WeekOf(latest) * WeekLen)]

\* The power shown for the running hour: the readings of the latest one's hour.
CurrentHour(desc) ==
  MeanOf(LAMBDA i : signed_grid_w(desc[i]),
         {i \in 1 .. Len(desc) : desc[i].t # NoTime /\ HourOf(desc[i].t) = HourOf(desc[1].t)})

analysis_summary(desc, energy_desc) ==
  LET latest == desc[1].t
      None == [import |-> 0, export |-> 0]
      All == 1 .. Len(desc)
  IN [average |-> MeanOf(LAMBDA i : signed_grid_w(desc[i]), All),
      currentHour |-> IF latest = NoTime THEN Ratio(0, 1) ELSE CurrentHour(desc),
      windows |-> IF latest = NoTime THEN [hour |-> None, day |-> None, week |-> None]
                  ELSE _integrated_energy_windows(IF energy_desc = <<>> THEN desc ELSE energy_desc, latest),
      importPeak |-> Max({desc[i].import : i \in All}),
      exportPeak |-> Max({desc[i].export : i \in All})]

-----------------------------------------------------------------------------
(* Hourly averages.                                                          *)

Hours(desc) == {HourOf(desc[i].t) : i \in {j \in 1 .. Len(desc) : desc[j].t # NoTime}}

InHour(desc, h) == {i \in 1 .. Len(desc) : desc[i].t # NoTime /\ HourOf(desc[i].t) = h}

HourRow(desc, h) ==
  LET S == InHour(desc, h) IN
  [hour |-> h, import |-> MeanOf(LAMBDA i : desc[i].import, S),
   export |-> MeanOf(LAMBDA i : desc[i].export, S),
   signed |-> MeanOf(LAMBDA i : signed_grid_w(desc[i]), S)]

\* The flow of an hour, whatever its direction; of equals the later hour comes first.
Flow(r) == Ratio(Abs(r.signed.sum), r.signed.count)
Stronger(a, b) == AboveRatio(Flow(a), Flow(b)) \/ (SameRatio(Flow(a), Flow(b)) /\ a.hour > b.hour)

\* The hours with the largest flow.
top_hour_rows(desc, n) ==
  LET rows == {HourRow(desc, h) : h \in Hours(desc)} IN
  [k \in 1 .. Smaller(n, Cardinality(rows)) |->
     CHOOSE r \in rows : Cardinality({s \in rows : Stronger(s, r)}) = k - 1]

\* The newest day that has a reading, hour by hour.
daily_graph_data(desc) ==
  LET day == Max({h \div HoursPerDay : h \in Hours(desc)}) IN
  [day |-> day,
   rows |-> [h \in {k \in Hours(desc) : k \div HoursPerDay = day} |->
               [import |-> MeanOf(LAMBDA i : desc[i].import, InHour(desc, h)),
                export |-> MeanOf(LAMBDA i : desc[i].export, InHour(desc, h))]]]

\* The phases: live samples if there are any (oldest first), else the records as they
\* come from the history.  The latest is the last of the list.
phase_analysis(samples, desc) ==
  LET s == IF samples # <<>> THEN samples ELSE [i \in 1 .. Smaller(Len(desc), 200) |-> desc[i].amps]
      avg == [p \in Conductor |-> MeanOf(LAMBDA i : s[i][p], 1 .. Len(s))]
      Top(p) == \A q \in Conductor : avg[q].sum < avg[p].sum \/ (avg[q].sum = avg[p].sum /\ p <= q)
  IN [latest |-> s[Len(s)],
      average |-> avg,
      dominant |-> CHOOSE p \in Conductor : Top(p),
      imbalance |-> Ratio(Max({avg[p].sum : p \in Conductor}) - Min({avg[p].sum : p \in Conductor}), Len(s))]

-----------------------------------------------------------------------------
(* The load heatmap.                                                         *)

\* Here an interval of exactly half an hour counts.
HeatIntervals(d) == {i \in 1 .. Len(d) - 1 : 0 < Gap(d, i) /\ Gap(d, i) <= HalfHour}

\* (mutated: the interval is not cut at the hour)
Uncut(d, i, h) == IF HourOf(d[i].t) = h THEN Gap(d, i) ELSE 0

\* How much of an interval lies in hour h: the loop over next_hour_boundary cuts it.
Segment(d, i, h) ==
  Larger(0, Smaller(d[i + 1].t, (h + 1) * HourLen) - Larger(d[i].t, h * HourLen))

\* The hour a step is counted in: that of the reading that shows it.
StepHour(d, i) == HourOf(d[i + 1].t)
Step(d, i)     == Abs(signed_grid_w(d[i + 1]) - signed_grid_w(d[i]))
StepLabel(d, i, net) ==
  classify_phase_delta([p \in Conductor |-> d[i + 1].amps[p] - d[i].amps[p]], net)

\* _record_switch: the three slots of the network type, and "3-phase" as the fourth.
Slot(k, net) == IF k = 4 THEN ThreePhase ELSE SwitchSlots(net)[k]

\* The bucket of hour h, as the loop leaves it.
Bucket(d, h, threshold, net) ==
  LET I == HeatIntervals(d)
      S == {i \in I : Segment(d, i, h) > 0}
      E == {i \in I : StepHour(d, i) = h}
      Energy(op(_)) == Sum(LAMBDA i : op(d[i]) * Segment(d, i, h), S)
  IN [duration |-> Sum(LAMBDA i : Segment(d, i, h), S),
      use |-> Energy(Use), signed |-> Energy(signed_grid_w),
      import |-> Energy(LAMBDA r : r.import), export |-> Energy(LAMBDA r : r.export),
      step |-> Ratio(Sum(LAMBDA i : Step(d, i), E), Cardinality(E)),
      peak |-> Max({0} \cup {Use(d[i]) : i \in S} \cup {Use(d[i + 1]) : i \in E}),
      switches |-> [k \in 1 .. 4 |-> Cardinality({i \in E : Step(d, i) >= threshold
                                                  /\ StepLabel(d, i, net) = Slot(k, net)})]]

\* _bucket_stats; a bucket without duration is an empty cell, whatever else it holds.
SwitchTotal(b) ==
  IF b.duration <= 0 THEN 0 ELSE b.switches[1] + b.switches[2] + b.switches[3] + b.switches[4]

AvgUse(b) == IF b.duration <= 0 THEN Ratio(0, 1) ELSE Ratio(b.use, b.duration)

\* Two buckets of one weekday and hour of day, joined.
Merged(a, b) ==
  [duration |-> a.duration + b.duration, use |-> a.use + b.use, signed |-> a.signed + b.signed,
   import |-> a.import + b.import, export |-> a.export + b.export,
   step |-> Ratio(a.step.sum + b.step.sum, a.step.count + b.step.count),
   peak |-> Larger(a.peak, b.peak),
   switches |-> [k \in 1 .. 4 |-> a.switches[k] + b.switches[k]]]

_empty_heat_bucket ==
  [duration |-> 0, use |-> 0, signed |-> 0, import |-> 0, export |-> 0,
   step |-> Ratio(0, 0), peak |-> 0, switches |-> [k \in 1 .. 4 |-> 0]]

MergedAll(bucket, S) == FoldSet(LAMBDA h, acc : Merged(acc, bucket[h]), _empty_heat_bucket, S)

\* The hours with a bucket, from segments and from steps.
HeatHours(d) ==
  UNION {HourOf(d[i].t) .. HourOf(d[i + 1].t - 1) \cup {StepHour(d, i)} : i \in HeatIntervals(d)}

build_load_heatmaps(desc, recent, threshold, net) ==
  LET d == Dated(desc)
      bucket == [h \in HeatHours(d) |-> Bucket(d, h, threshold, net)]
      days == {h \div HoursPerDay : h \in HeatHours(d)}
      filled == {h \in HeatHours(d) : bucket[h].duration > 0}
      OfWeekday(w, k) == {h \in HeatHours(d) : (h \div HoursPerDay) % DaysPerWeek = w /\ h % HoursPerDay = k}
  IN [bucket |-> bucket,
      days |-> {x \in days : Cardinality({y \in days : y > x}) < recent},
      weekday |-> [w \in 0 .. DaysPerWeek - 1 |-> [k \in 0 .. HoursPerDay - 1 |-> MergedAll(bucket, OfWeekday(w, k))]],
      peakHours |-> {h \in filled : \A k \in filled : ~AboveRatio(AvgUse(bucket[k]), AvgUse(bucket[h]))},
      changeHours |-> {h \in filled : \A k \in filled : SwitchTotal(bucket[k]) <= SwitchTotal(bucket[h])}]
=============================================================================

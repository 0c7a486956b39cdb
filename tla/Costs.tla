------------------------------- MODULE Costs -------------------------------
(***************************************************************************)
(* What the energy costs: services/cost_service.py and the capacity step   *)
(* of domain/pricing.py.                                                   *)
(*                                                                         *)
(* quote[k] is the answer of quote_for_hour to the k-th call, for the      *)
(* k-th interval: its price, and whether it is the fallback.  Prices can   *)
(* arrive between two calls.                                               *)
(***************************************************************************)
EXTENDS Records

CONSTANTS
  Ladder,        \* CAPACITY_STEPS: the upper bounds of the steps
  NightHours,    \* the hours of the day with the night rate
  DaysPerMonth

ASSUME LadderAssumption ==
  /\ Ladder \in Seq(Nat \ {0}) /\ Ladder # <<>>
  /\ \A k \in 2 .. Len(Ladder) : Ladder[k - 1] < Ladder[k]
  /\ NightHours \subseteq 0 .. HoursPerDay - 1 /\ DaysPerMonth \in Nat \ {0}

current_grid_rate(hour, day, night) == IF hour % HoursPerDay \in NightHours THEN night ELSE day

\* (mutated: only the quote for now is looked at)
NowOnly(now, hours) == {h \in hours : now.fallback}

Warned(now, hours) == hours

\* The rows of the newest day that has an interval, and the warning on the fallback.
build_summary(iv, now, quote, day, night) ==
  LET Hour(k)   == HourOf(iv[k].start)
      Grid(k)   == current_grid_rate(Hour(k), day, night)
      latest    == {k \in 1 .. Len(iv) : \A m \in 1 .. Len(iv) : DayOf(iv[m].start) <= DayOf(iv[k].start)}
      In(h)     == {k \in latest : Hour(k) = h}
      Import(k) == iv[k].import * iv[k].ticks
      Export(k) == iv[k].export * iv[k].ticks
      Cost(k)   == Import(k) * (quote[k].price + Grid(k))
      Value(k)  == Export(k) * quote[k].price
      Row(h)    == [spot |-> quote[Min(In(h))].price, grid |-> Grid(Min(In(h))),
                    ticks |-> Sum(LAMBDA k : iv[k].ticks, In(h)),
                    import |-> Sum(Import, In(h)), export |-> Sum(Export, In(h)),
                    cost |-> Sum(Cost, In(h)), value |-> Sum(Value, In(h))]
  IN [rows |-> [h \in {Hour(k) : k \in latest} |-> Row(h)],
      daily |-> [cost |-> Sum(Cost, latest), value |-> Sum(Value, latest)],
      nowWarned |-> now.fallback,
      warned |-> Warned(now, {Hour(k) : k \in {m \in latest : quote[m].fallback}})]

-----------------------------------------------------------------------------
(* The capacity step.                                                        *)

\* The hours of the newest month with their mean import.
CapacityRows(iv) ==
  LET Month(k) == DayOf(iv[k].start) \div DaysPerMonth
      month == {k \in 1 .. Len(iv) : \A m \in 1 .. Len(iv) : Month(m) <= Month(k)}
      In(h) == {k \in month : HourOf(iv[k].start) = h}
  IN {[day |-> h \div HoursPerDay, hour |-> h,
       kw |-> Ratio(Sum(LAMBDA k : iv[k].import * iv[k].ticks, In(h)),
                    Sum(LAMBDA k : iv[k].ticks, In(h)))] : h \in {HourOf(iv[k].start) : k \in month}}

\* The hours with an import.
AnyHours(rows) == {r \in rows : r.kw.sum > 0}

\* best_by_day: the highest hour of each day that has an import.
BestByDay(rows) ==
  {r \in AnyHours(rows) : \A s \in AnyHours(rows) :
     s.day = r.day => AboveRatio(r.kw, s.kw) \/ (SameRatio(r.kw, s.kw) /\ r.hour <= s.hour)}

Top3(rows) ==
  LET best == BestByDay(rows)
      Before(a, b) == AboveRatio(a.kw, b.kw) \/ (SameRatio(a.kw, b.kw) /\ a.hour < b.hour)
  IN {r \in best : Cardinality({s \in best : Before(s, r)}) < 3}

\* The mean of a set of ratios.
AddRatio(a, b) == Ratio(a.sum * b.count + b.sum * a.count, a.count * b.count)
Mean(rows) ==
  LET total == FoldSet(LAMBDA r, acc : AddRatio(acc, r.kw), Ratio(0, 1), rows)
  IN Ratio(total.sum, total.count * Larger(1, Cardinality(rows)))

Step1(k) == Ratio(k, 1)

\* The step a basis falls in; above the ladder it is the last one.
Chosen(basis) ==
  Min({Len(Ladder)} \cup {k \in 1 .. Len(Ladder) : ~AboveRatio(basis, Step1(Ladder[k]))})

\* (mutated: a full step below the basis counts as passed even if it is the active one)
PassedWhenFull(basis, k) == "passed"

FullStatus(basis, k) == IF k = Chosen(basis) THEN "active" ELSE "passed"

Visual(basis, k) ==
  IF ~AboveRatio(Step1(Ladder[k]), basis) THEN FullStatus(basis, k)
  ELSE IF k = Chosen(basis) THEN "active" ELSE "future"

\* The warning names the first step whose bound is above the basis, and that bound.
estimate_capacity(rows) ==
  LET basis == Mean(Top3(rows))
      above == {k \in 1 .. Len(Ladder) : AboveRatio(Step1(Ladder[k]), basis)} IN
  [basis |-> basis, chosen |-> Chosen(basis),
   days |-> {r.day : r \in Top3(rows)},
   warning |-> IF above = {} THEN [limit |-> 0, step |-> 0] ELSE [limit |-> Ladder[Min(above)], step |-> Min(above)],
   steps |-> [k \in 1 .. Len(Ladder) |-> Visual(basis, k)]]
=============================================================================

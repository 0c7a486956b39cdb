---------------------------- MODULE EventEngine ----------------------------
(***************************************************************************)
(* The diagnostics: EventEngineV2 of domain/event_engine.py, fed by        *)
(* RuntimeService.apply_parsed with the baseline GatewayService derives    *)
(* from the recent history.                                                *)
(*                                                                         *)
(* A reading has a voltage per phase, the signed power at the grid         *)
(* connection and the label that classify_phase_delta gives the change of  *)
(* the currents.  An alarm is raised under a key; last_emit_by_key keeps   *)
(* it from being raised again too soon.  No key occurs twice in a sample,  *)
(* so the rules of a sample are applied at once.                           *)
(***************************************************************************)
EXTENDS Integers, Sequences, FiniteSets

CONSTANTS
  Phase,       \* the phases
  Readings,    \* what a sample may be: [volts, watts, label]
  Gaps,        \* the seconds that may pass between two samples
  MaxSamples,  \* bound: samples
  MaxResets    \* bound: engines replaced

ASSUME EventAssumption ==
  /\ Phase # {} /\ IsFiniteSet(Phase)
  /\ \A r \in Readings : r.volts \in [Phase -> Nat] /\ r.watts \in Int
  /\ Gaps \subseteq Nat \ {0} /\ MaxSamples \in Nat /\ MaxResets \in Nat

VARIABLES
  now,             \* the meter's clock, in seconds
  recent,          \* the last of recent_phase_samples, if there is one: a sequence
  history,         \* the snapshots of the history, the newest first: [t, watts]
  active_quality, active_sessions, last_emit_by_key, \* the engine
  log,             \* history: the engine's events: [t, key, kind, marker, cooldown]
  missing_since,   \* history: when the engine first saw the phase's outage, or None
  samples, resets  \* counters for the bounds

vars == <<now, recent, history, active_quality, active_sessions, last_emit_by_key, log,
          missing_since, samples, resets>>

None == -1
Abs(n) == IF n < 0 THEN -n ELSE n

\* (mutated: the outages of the old engine survive)
NewEngineKeepsOutages ==
  /\ active_sessions' = <<>> /\ last_emit_by_key' = <<>>
  /\ log' = {} /\ missing_since' = [ph \in Phase |-> None] /\ UNCHANGED active_quality

\* EventEngineV2(): its events are counted from here, too.
NewEngine ==
  /\ active_quality' = {} /\ active_sessions' = <<>> /\ last_emit_by_key' = <<>>
  /\ log' = {} /\ missing_since' = [ph \in Phase |-> None]

Init ==
  /\ now = 0 /\ recent = <<>> /\ history = <<>>
  /\ active_quality = {} /\ active_sessions = <<>> /\ last_emit_by_key = <<>>
  /\ log = {} /\ missing_since = [ph \in Phase |-> None]
  /\ samples = 0 /\ resets = 0

-----------------------------------------------------------------------------
(* _derive_baseline.                                                         *)

\* sorted(values)[len // 2], for values in any order.
Median(values) ==
  CHOOSE v \in {values[i] : i \in DOMAIN values} :
    /\ Cardinality({i \in DOMAIN values : values[i] < v}) <= Cardinality(DOMAIN values) \div 2
    /\ Cardinality({i \in DOMAIN values : values[i] <= v}) > Cardinality(DOMAIN values) \div 2

\* The median of the last dozen readings, those of the last two minutes; without any,
\* the engine takes the reading itself.
Baseline(t, r) ==
  LET near == {i \in DOMAIN history : i <= 12 /\ Abs(t - history[i].t) <= 120}
  IN IF near = {} THEN r.watts ELSE Median([i \in near |-> history[i].watts])

-----------------------------------------------------------------------------
(* process_sample.                                                           *)

\* (mutated: the default cooldown for every rule)
CooledDownDefault(t, last, cooldown) == Abs(t - last.t) >= 10

CooledDown(t, last, cooldown) == Abs(t - last.t) >= cooldown

\* _should_emit.
ShouldEmit(t, a) ==
  a.key \in DOMAIN last_emit_by_key =>
    LET last == last_emit_by_key[a.key]
    IN CooledDown(t, last, a.cooldown) \/ Abs(a.marker - last.marker) >= 1

Missing(r) == {ph \in Phase : r.volts[ph] < 80}

\* (mutated: also while the outage is known; only where the voltage has just gone)
NewlyMissingAgain(r) == Missing(r)
NewlyMissingEdge(r)  == {ph \in Missing(r) \ active_quality : recent[1].volts[ph] >= 80}

NewlyMissing(r) == Missing(r) \ active_quality

Spread(r) == LET v == r.volts IN
  CHOOSE s \in {v[p] - v[q] : p, q \in Phase} : \A p, q \in Phase : v[p] - v[q] <= s

\* The direction of a session, and its key.
SessionKey(label, delta) == <<"session", label, IF delta > 0 THEN "export" ELSE "import">>

\* The alarms a sample calls for: spread and sag only when all voltages are valid, a
\* session only if the same one is not active.
Alarms(t, r) ==
  LET previous == recent[1]
      delta == r.watts - Baseline(t, r)
      step  == Abs(r.watts - previous.watts)
      Drop(ph) == previous.volts[ph] - r.volts[ph]
  IN {[key |-> <<"missing", ph>>, marker |-> 1, cooldown |-> 60] : ph \in NewlyMissing(r)}
     \cup {[key |-> <<"spread">>, marker |-> Spread(r), cooldown |-> 30] :
             x \in {y \in {r} : Missing(y) = {} /\ Spread(y) >= 10}}
     \cup {[key |-> <<"sag", ph>>, marker |-> Drop(ph), cooldown |-> 20] :
             ph \in {p \in Phase : Missing(r) = {} /\ Drop(p) >= 8}}
     \cup {[key |-> key, marker |-> Abs(delta), cooldown |-> 20] :
             key \in {k \in {SessionKey(r.label, delta)} :
                        Abs(delta) >= 800 /\ k \notin DOMAIN active_sessions}}
     \cup {[key |-> <<"step", r.label>>, marker |-> step, cooldown |-> 8] :
             x \in {y \in {r} : step >= 1000}}

Event(t, kind, a) == [t |-> t, kind |-> kind, key |-> a.key, marker |-> a.marker, cooldown |-> a.cooldown]
Closing(key)      == [key |-> key, marker |-> 0, cooldown |-> 0]

Process(t, r) ==
  LET raised   == {a \in Alarms(t, r) : ShouldEmit(t, a)}
      keys     == {a.key : a \in raised}
      of(key)  == CHOOSE a \in raised : a.key = key
      open     == active_quality \cup {ph \in Phase : <<"missing", ph>> \in keys}
      back     == {ph \in open : r.volts[ph] > 180}
      started  == {k \in keys : k[1] = "session"}
      sessions == [k \in DOMAIN active_sessions \cup started |->
                     IF k \in started THEN Baseline(t, r) ELSE active_sessions[k]]
      ended    == {k \in DOMAIN sessions : Abs(r.watts - sessions[k]) < 350}
  IN /\ active_quality' = open \ back
     /\ active_sessions' = [k \in DOMAIN sessions \ ended |-> sessions[k]]
     /\ last_emit_by_key' = [k \in DOMAIN last_emit_by_key \cup keys |->
          IF k \in keys THEN [t |-> t, marker |-> of(k).marker] ELSE last_emit_by_key[k]]
     /\ log' = log \cup {Event(t, "open", a) : a \in raised}
                   \cup {Event(t, "resolved", Closing(<<"missing", ph>>)) : ph \in back}
                   \cup {Event(t, "resolved", Closing(k)) : k \in ended}
     /\ missing_since' = [ph \in Phase |-> IF ph \notin Missing(r) THEN None
                                           ELSE IF missing_since[ph] = None THEN t
                                           ELSE missing_since[ph]]

-----------------------------------------------------------------------------

\* apply_parsed of a snapshot: it is recorded, and processed if there is a sample
\* to compare it with.
Sample(gap, r) ==
  /\ samples < MaxSamples /\ samples' = samples + 1
  /\ now' = now + gap
  /\ history' = <<[t |-> now + gap, watts |-> r.watts]>> \o history
  /\ recent' = <<r>>
  /\ IF recent = <<>>
     THEN UNCHANGED <<active_quality, active_sessions, last_emit_by_key, log, missing_since>>
     ELSE Process(now + gap, r)
  /\ UNCHANGED resets

\* reset_live_buffers, when a replay is loaded: its records are gone, too.
ResetLiveBuffers ==
  /\ resets < MaxResets /\ resets' = resets + 1
  /\ NewEngine /\ recent' = <<>> /\ history' = <<>>
  /\ UNCHANGED <<now, samples>>

\* set_mains_network_type: a new engine goes on with the old samples.
SetMainsNetworkType ==
  /\ resets < MaxResets /\ resets' = resets + 1
  /\ NewEngine
  /\ UNCHANGED <<now, recent, history, samples>>

Next ==
  \/ \E gap \in Gaps, r \in Readings : Sample(gap, r)
  \/ ResetLiveBuffers
  \/ SetMainsNetworkType

Spec == Init /\ [][Next]_vars

-----------------------------------------------------------------------------
(* Properties.                                                             *)

Opens(key) == {e \in log : e.key = key /\ e.kind = "open"}
Keys       == {e.key : e \in log}

\* The types; the engine remembers the last opening of every key it has opened.
TypeOK ==
  /\ now \in Nat /\ recent \in {<<>>} \cup {<<r>> : r \in Readings}
  /\ active_quality \subseteq Phase /\ missing_since \in [Phase -> Nat \cup {None}]
  /\ DOMAIN last_emit_by_key = {e.key : e \in {f \in log : f.kind = "open"}}
  /\ \A key \in DOMAIN last_emit_by_key :
       \A e \in Opens(key) : e.t <= last_emit_by_key[key].t

\* The engine is in step with its events: what is active, an outage or a session, is
\* what the user saw opened and not yet resolved.
ActiveIsOpen ==
  LET Open(key) == \E e \in Opens(key) : \A f \in log : f.key = key => f.t <= e.t
  IN /\ active_quality = {ph \in Phase : Open(<<"missing", ph>>)}
     /\ DOMAIN active_sessions = {key \in Keys : key[1] = "session" /\ Open(key)}

\* An outage, or a load session, is opened once: before it is opened again it has been
\* resolved.
OpenedOnce ==
  \A e, f \in log :
    /\ e.key = f.key /\ e.kind = "open" /\ f.kind = "open" /\ e.t < f.t
    /\ e.key[1] \in {"missing", "session"}
    => \E g \in log : g.key = e.key /\ g.kind = "resolved" /\ e.t < g.t /\ g.t < f.t

\* Alarms of one key keep their distance, unless they differ by a unit.
CooldownKept ==
  \A e, f \in log :
    /\ e.key = f.key /\ e.kind = "open" /\ f.kind = "open" /\ e.t < f.t
    /\ \A g \in Opens(e.key) : ~(e.t < g.t /\ g.t < f.t)
    => f.t - e.t >= f.cooldown \/ Abs(f.marker - e.marker) >= 1

\* The cooldown delays the report of an outage that comes back, but does not swallow
\* it: a phase without voltage for a minute is reported.
LastingOutageIsReported ==
  \A ph \in Phase :
    missing_since[ph] # None /\ now - missing_since[ph] >= 60 => ph \in active_quality
=============================================================================

------------------------- MODULE EventEngineProofs -------------------------
(***************************************************************************)
(* Theorems about the diagnostics, for any phases, readings, gaps between  *)
(* samples and changes of the engine: what is active is what the log shows *)
(* as open, nothing is opened twice, alarms keep their distance, and an    *)
(* outage that lasts is reported.                                          *)
(***************************************************************************)
EXTENDS EventEngine, FiniteSetTheorems, WellFoundedInduction, TLAPS

(* The median exists, so a baseline is a power.  The only use of induction: *)
(* a set of naturals has a least element.                                   *)

LEMMA NatWellFounded ==
  \E R : IsWellFoundedOn(R, Nat) /\ \A m, n \in Nat : m < n => <<m, n>> \in R
<1>1. IsWellFoundedOn(OpToRel(<, Nat), Nat)
  BY NatLessThanWellFounded
<1>2. \A m, n \in Nat : m < n => <<m, n>> \in OpToRel(<, Nat)
  BY DEF OpToRel
<1>. QED  BY <1>1, <1>2

LEMMA Least ==
  ASSUME NEW T, T \subseteq Nat, T # {}
  PROVE  \E n \in T : \A m \in T : n <= m
<1>1. PICK R : IsWellFoundedOn(R, Nat) /\ \A m, n \in Nat : m < n => <<m, n>> \in R
  BY NatWellFounded
<1>2. \E n \in T : \A m \in T : ~ (<<m, n>> \in R)
  BY <1>1, WFMin, ZenonT(30)
<1>3. \A m, n \in Nat : m < n => <<m, n>> \in R
  BY <1>1
<1>4. PICK n \in T : \A m \in T : ~ (<<m, n>> \in R)
  BY <1>2
<1>5. \A m \in T : ~ (m < n)
  BY <1>3, <1>4
<1>. QED  BY <1>4, <1>5

\* Finitely many values have a greatest: the one that most of them do not exceed.
LEMMA Greatest ==
  ASSUME NEW D, IsFiniteSet(D), NEW f \in [D -> Int], NEW I \in SUBSET D, I # {}
  PROVE  \E i \in I : \A j \in I : f[j] <= f[i]
<1> DEFINE UpTo(i) == {j \in D : f[j] <= f[i]}
           Rest(i) == Cardinality(D) - Cardinality(UpTo(i))
<1>1. \A i \in D : /\ IsFiniteSet(UpTo(i)) /\ Cardinality(UpTo(i)) \in Nat
                   /\ Cardinality(D) \in Nat /\ Cardinality(UpTo(i)) <= Cardinality(D)
  <2>1. \A i \in D : UpTo(i) \in SUBSET D
    OBVIOUS
  <2>2. \A S \in SUBSET D : IsFiniteSet(S) /\ Cardinality(S) <= Cardinality(D)
    BY FS_Subset
  <2>3. \A S : IsFiniteSet(S) => Cardinality(S) \in Nat
    BY FS_CardinalityType
  <2>. HIDE DEF UpTo
  <2>. QED  BY <2>1, <2>2, <2>3
<1>2. {Rest(i) : i \in I} \subseteq Nat /\ {Rest(i) : i \in I} # {}
  <2>. HIDE DEF UpTo
  <2>1. \A i \in I : Rest(i) \in Nat
    BY <1>1
  <2>. QED  BY <2>1
<1>3. PICK i \in I : \A j \in I : Rest(i) <= Rest(j)
  <2>1. PICK n \in {Rest(i) : i \in I} : \A m \in {Rest(i) : i \in I} : n <= m
    BY <1>2, Least
  <2>2. PICK i \in I : n = Rest(i)
    BY <2>1
  <2>3. \A j \in I : Rest(i) <= Rest(j)
    BY <2>1, <2>2
  <2>. QED  BY <2>3
<1>4. ASSUME NEW j \in I, ~(f[j] <= f[i]) PROVE FALSE
  <2>1. UpTo(i) \in SUBSET UpTo(j) /\ j \in UpTo(j) /\ j \notin UpTo(i)
    BY <1>4
  <2>2. Cardinality(UpTo(i)) <= Cardinality(UpTo(j)) /\ Cardinality(UpTo(i)) # Cardinality(UpTo(j))
    <3>. HIDE DEF UpTo
    <3>. QED  BY <1>1, <2>1, FS_Subset
  <2>3. Rest(i) <= Rest(j)
    BY <1>3
  <2>. HIDE DEF UpTo
  <2>. QED  BY <1>1, <2>2, <2>3
<1>. QED  BY <1>4

LEMMA MedianType ==
  ASSUME NEW D, IsFiniteSet(D), D # {}, NEW f \in [D -> Int]
  PROVE  Median(f) \in Int
<1> DEFINE UpTo(i)  == {j \in D : f[j] <= f[i]}
           Below(i) == {j \in D : f[j] < f[i]}
           Half     == Cardinality(D) \div 2
           Large    == {i \in D : Cardinality(UpTo(i)) > Half}
<1>1. \A S \in SUBSET D : IsFiniteSet(S) /\ Cardinality(S) \in Nat
  BY FS_Subset, FS_CardinalityType
<1>2. Cardinality(D) \in Nat \ {0} /\ Half \in Nat /\ Half < Cardinality(D)
  <2>1. Cardinality(D) \in Nat /\ Cardinality(D) # 0
    BY FS_CardinalityType, FS_EmptySet
  <2>. QED  BY <2>1
<1>3. Large # {}
  <2>1. PICK i \in D : \A j \in D : f[j] <= f[i]
    BY Greatest
  <2>2. UpTo(i) = D
    BY <2>1
  <2>. HIDE DEF UpTo
  <2>. QED  BY <1>2, <2>2
<1>4. PICK i \in Large : \A j \in Large : f[i] <= f[j]
  <2> DEFINE g == [j \in D |-> -f[j]]
  <2>1. g \in [D -> Int] /\ Large \in SUBSET D
    OBVIOUS
  <2>2. PICK i \in Large : \A j \in Large : g[j] <= g[i]
    <3>. HIDE DEF g, Large
    <3>. QED  BY <1>3, <2>1, Greatest
  <2>3. \A j \in Large : -f[j] <= -f[i]
    BY <2>2
  <2>4. \A j \in Large : f[i] <= f[j]
    BY <2>3
  <2>. QED  BY <2>4
<1>5. i \in D /\ f[i] \in Int /\ Cardinality(UpTo(i)) > Half
  OBVIOUS
<1>6. Cardinality(Below(i)) <= Half
  <2>1. CASE Below(i) = {}
    <3>. HIDE DEF Below
    <3>. QED  BY <1>2, <2>1, FS_EmptySet
  <2>2. CASE Below(i) # {}
    <3>1. PICK k \in Below(i) : \A j \in Below(i) : f[j] <= f[k]
      <4>1. Below(i) \in SUBSET D
        OBVIOUS
      <4>. HIDE DEF Below
      <4>. QED  BY <2>2, <4>1, Greatest
    <3>2. Below(i) = UpTo(k)
      BY <1>5, <3>1
    <3>3. k \in D /\ k \notin Large
      BY <1>4, <1>5, <3>1
    <3>4. ~(Cardinality(UpTo(k)) > Half)
      BY <3>3
    <3>5. UpTo(k) \in SUBSET D
      OBVIOUS
    <3>. HIDE DEF UpTo, Below
    <3>. QED  BY <1>1, <1>2, <3>2, <3>4, <3>5
  <2>. QED  BY <2>1, <2>2
<1>7. /\ f[i] \in {f[j] : j \in DOMAIN f}
      /\ Cardinality({j \in DOMAIN f : f[j] < f[i]}) <= Cardinality(DOMAIN f) \div 2
      /\ Cardinality({j \in DOMAIN f : f[j] <= f[i]}) > Cardinality(DOMAIN f) \div 2
  <2>1. DOMAIN f = D
    OBVIOUS
  <2>. QED  BY <1>5, <1>6, <2>1
<1>8. Median(f) \in {f[j] : j \in DOMAIN f}
  BY <1>7 DEF Median
<1>. QED  BY <1>8
-----------------------------------------------------------------------------
(* Types.                                                                  *)

\* When an alarm was last raised under a key, and by how much.
LastT(k) == last_emit_by_key[k].t
LastM(k) == last_emit_by_key[k].marker

Types ==
  /\ now \in Nat /\ recent \in {<<>>} \cup {<<r>> : r \in Readings}
  /\ history \in Seq([t : Nat, watts : Int])
  /\ active_quality \subseteq Phase /\ missing_since \in [Phase -> Nat \cup {None}]
  /\ active_sessions \in [DOMAIN active_sessions -> Int]
  /\ \A k \in DOMAIN active_sessions : k[1] = "session"
  /\ \A k \in DOMAIN last_emit_by_key : LastT(k) \in Nat /\ LastT(k) <= now
  /\ \A e \in log : e.t \in Nat /\ e.t <= now

LEMMA AbsFacts == \A n \in Int : Abs(n) \in Nat /\ (n >= 0 => Abs(n) = n)
  BY DEF Abs

LEMMA BaselineType ==
  ASSUME Types, NEW t, NEW r \in Readings
  PROVE  Baseline(t, r) \in Int
<1> DEFINE near == {i \in DOMAIN history : i <= 12 /\ Abs(t - history[i].t) <= 120}
           f == [i \in near |-> history[i].watts]
<1>1. DOMAIN history = 1 .. Len(history) /\ Len(history) \in Nat
  BY DEF Types
<1>2. \A i \in DOMAIN history : history[i].watts \in Int
  <2>1. history \in Seq([t : Nat, watts : Int])
    BY DEF Types
  <2>2. \A S : \A q \in Seq(S) : \A i \in 1 .. Len(q) : q[i] \in S
    OBVIOUS
  <2>3. \A i \in 1 .. Len(history) : history[i] \in [t : Nat, watts : Int]
    BY <2>1, <2>2
  <2>. QED  BY <1>1, <2>3
<1>3. IsFiniteSet(near)
  <2>1. IsFiniteSet(1 .. Len(history)) /\ near \in SUBSET (1 .. Len(history))
    BY <1>1, FS_Interval
  <2>. HIDE DEF near
  <2>. QED  BY <2>1, FS_Subset
<1>4. f \in [near -> Int]
  BY <1>2
<1>5. CASE near = {}
  BY <1>5, EventAssumption DEF Baseline
<1>6. CASE near # {}
  <2>1. Median(f) \in Int
    <3>. HIDE DEF near, f
    <3>. QED  BY <1>3, <1>4, <1>6, MedianType
  <2>. QED  BY <1>6, <2>1 DEF Baseline
<1>. QED  BY <1>5, <1>6

-----------------------------------------------------------------------------
(* What a sample raises, closes and leaves active.                          *)

Raised(t, r) == {a \in Alarms(t, r) : ShouldEmit(t, a)}
RaisedKeys(t, r) == {a.key : a \in Raised(t, r)}

\* The alarms that open something which is closed later, and what is open now.
Tracked(key) == key[1] \in {"missing", "session"}
Active == {<<"missing", ph>> : ph \in active_quality} \cup DOMAIN active_sessions

\* Each key is raised by one rule, and the tracked ones only when they are not active.
LEMMA AlarmFacts ==
  ASSUME NEW t, NEW r \in Readings, NEW a \in Alarms(t, r)
  PROVE  /\ \A ph : a.key = <<"missing", ph>> =>
              ph \in NewlyMissing(r) /\ a.marker = 1 /\ a.cooldown = 60
         /\ a.key[1] = "missing" => \E ph \in NewlyMissing(r) : a.key = <<"missing", ph>>
         /\ a.key[1] = "session" =>
              /\ a.key = SessionKey(r.label, r.watts - Baseline(t, r))
              /\ a.key \notin DOMAIN active_sessions
              /\ Abs(r.watts - Baseline(t, r)) >= 800
  BY DEF Alarms, SessionKey

LEMMA OneAlarmPerKey ==
  ASSUME NEW t, NEW r \in Readings, NEW a \in Alarms(t, r), NEW b \in Alarms(t, r), a.key = b.key
  PROVE  a = b
  BY DEF Alarms, SessionKey

\* The keys that a sample closes.
Open(t, r)     == active_quality \cup {ph \in Phase : <<"missing", ph>> \in RaisedKeys(t, r)}
Back(t, r)     == {ph \in Open(t, r) : r.volts[ph] > 180}
Started(t, r)  == {k \in RaisedKeys(t, r) : k[1] = "session"}
Sessions(t, r) == [k \in DOMAIN active_sessions \cup Started(t, r) |->
                     IF k \in Started(t, r) THEN Baseline(t, r) ELSE active_sessions[k]]
Ended(t, r)    == {k \in DOMAIN Sessions(t, r) : Abs(r.watts - Sessions(t, r)[k]) < 350}
Closed(t, r)   == {<<"missing", ph>> : ph \in Back(t, r)} \cup Ended(t, r)

\* A sample closes only what is active, and opens only what is not.
LEMMA Disjoint ==
  ASSUME Types, NEW t, NEW r \in Readings
  PROVE  /\ \A k \in RaisedKeys(t, r) : k \notin Active
         /\ \A k \in Closed(t, r) : k \in Active /\ k \notin RaisedKeys(t, r)
<1>1. ASSUME NEW k \in RaisedKeys(t, r) PROVE k \notin Active
  <2>1. PICK a \in Alarms(t, r) : a.key = k
    BY <1>1 DEF RaisedKeys, Raised
  <2>2. \A ph : k = <<"missing", ph>> => ph \notin active_quality
    BY <2>1, AlarmFacts DEF NewlyMissing
  <2>3. k[1] = "session" => k \notin DOMAIN active_sessions
    BY <2>1, AlarmFacts
  <2>. QED  BY <2>2, <2>3 DEF Active, Types
<1>2. ASSUME NEW ph \in Back(t, r) PROVE ph \in active_quality
  <2>1. ~(r.volts[ph] < 80)
    BY <1>2, EventAssumption DEF Back, Open, Types
  <2>2. SUFFICES ASSUME <<"missing", ph>> \in RaisedKeys(t, r) PROVE FALSE
    BY <1>2 DEF Back, Open
  <2>3. PICK a \in Alarms(t, r) : a.key = <<"missing", ph>>
    BY <2>2 DEF RaisedKeys, Raised
  <2>. QED  BY <2>1, <2>3, AlarmFacts DEF NewlyMissing, Missing
<1>3. ASSUME NEW k \in Ended(t, r) PROVE k \in DOMAIN active_sessions
  <2>1. SUFFICES ASSUME k \in Started(t, r) PROVE FALSE
    BY <1>3 DEF Ended, Sessions
  <2>2. Abs(r.watts - Baseline(t, r)) < 350
    BY <1>3, <2>1 DEF Ended, Sessions
  <2>3. PICK a \in Alarms(t, r) : a.key = k /\ k[1] = "session"
    BY <2>1 DEF Started, RaisedKeys, Raised
  <2>4. Abs(r.watts - Baseline(t, r)) >= 800
    BY <2>3, AlarmFacts
  <2>5. Abs(r.watts - Baseline(t, r)) \in Int
    BY BaselineType, AbsFacts, EventAssumption
  <2>. QED  BY <2>2, <2>4, <2>5
<1>4. \A k \in Closed(t, r) : k \in Active
  BY <1>2, <1>3 DEF Closed, Active
<1>. QED  BY <1>1, <1>4

\* What process_sample does, in these terms.
LEMMA Processed ==
  ASSUME Types, NEW t, NEW r \in Readings, Process(t, r)
  PROVE  /\ Active' = (Active \cup {k \in RaisedKeys(t, r) : Tracked(k)}) \ Closed(t, r)
         /\ log' = log \cup {Event(t, "open", a) : a \in Raised(t, r)}
                       \cup {Event(t, "resolved", Closing(k)) : k \in Closed(t, r)}
<1> DEFINE Shut == {Event(t, "resolved", Closing(<<"missing", ph>>)) : ph \in Back(t, r)}
                   \cup {Event(t, "resolved", Closing(k)) : k \in Ended(t, r)}
<1>1. /\ active_quality' = Open(t, r) \ Back(t, r)
      /\ active_sessions' = [k \in DOMAIN Sessions(t, r) \ Ended(t, r) |-> Sessions(t, r)[k]]
      /\ log' = log \cup {Event(t, "open", a) : a \in Raised(t, r)} \cup Shut
  BY DEF Process, Raised, RaisedKeys, Open, Back, Started, Sessions, Ended
<1>2. Shut = {Event(t, "resolved", Closing(k)) : k \in Closed(t, r)}
  BY DEF Closed
<1>3. Active' = (Active \cup {k \in RaisedKeys(t, r) : Tracked(k)}) \ Closed(t, r)
  <2>1. DOMAIN active_sessions' = (DOMAIN active_sessions \cup Started(t, r)) \ Ended(t, r)
    BY <1>1 DEF Sessions
  <2>2. ASSUME NEW k \in RaisedKeys(t, r), k[1] = "missing"
        PROVE  \E ph \in Phase : k = <<"missing", ph>>
    <3>1. PICK a \in Alarms(t, r) : a.key = k
      BY <2>2 DEF RaisedKeys, Raised
    <3>2. PICK ph \in NewlyMissing(r) : a.key = <<"missing", ph>>
      <4>1. a.key[1] = "missing"
        BY <2>2, <3>1
      <4>2. \E ph \in NewlyMissing(r) : a.key = <<"missing", ph>>
        BY <4>1, AlarmFacts
      <4>. QED  BY <4>2
    <3>. QED  BY <3>1, <3>2 DEF NewlyMissing, Missing
  <2>3. \A k \in Ended(t, r) : k[1] = "session"
    BY DEF Ended, Sessions, Types, Started
  <2>4. \A ph \in active_quality' : <<"missing", ph>> \notin Closed(t, r)
    BY <1>1, <2>3 DEF Closed
  <2>5. \A k \in DOMAIN active_sessions' : k \notin Closed(t, r)
    BY <2>1 DEF Closed, Types, Started
  <2>6. ASSUME NEW k \in Active' PROVE k \in Active \/ (k \in RaisedKeys(t, r) /\ Tracked(k))
    <3>1. CASE k \in DOMAIN active_sessions'
      BY <2>1, <3>1 DEF Active, Tracked, Started
    <3>2. CASE \E ph \in active_quality' : k = <<"missing", ph>>
      BY <1>1, <3>2 DEF Active, Tracked, Open
    <3>. QED  BY <3>1, <3>2 DEF Active
  <2>7. ASSUME NEW k \in (Active \cup {j \in RaisedKeys(t, r) : Tracked(j)}) \ Closed(t, r)
        PROVE  k \in Active'
    <3>1. CASE \E ph \in Phase : k = <<"missing", ph>>
      BY <1>1, <2>7, <3>1 DEF Active, Closed, Open, Types
    <3>2. CASE k[1] = "session"
      BY <2>1, <2>7, <3>2 DEF Active, Closed, Started
    <3>. QED  BY <2>2, <2>7, <3>1, <3>2 DEF Active, Tracked, Types
  <2>. QED  BY <2>4, <2>5, <2>6, <2>7 DEF Active
<1>. QED  BY <1>1, <1>2, <1>3

\* The alarm that is raised under a key.
Alarm(t, r, k) == CHOOSE a \in Raised(t, r) : a.key = k

\* The engine's memory after a sample: of a key that is raised, its alarm; of any other, what
\* it was.
LEMMA Remembered ==
  ASSUME NEW t, NEW r \in Readings, Process(t, r)
  PROVE  /\ DOMAIN last_emit_by_key' = DOMAIN last_emit_by_key \cup RaisedKeys(t, r)
         /\ \A k \in RaisedKeys(t, r) : LastT(k)' = t /\ LastM(k)' = Alarm(t, r, k).marker
         /\ \A k \in DOMAIN last_emit_by_key \ RaisedKeys(t, r) :
              LastT(k)' = LastT(k) /\ LastM(k)' = LastM(k)
<1>1. last_emit_by_key' = [k \in DOMAIN last_emit_by_key \cup RaisedKeys(t, r) |->
        IF k \in RaisedKeys(t, r) THEN [t |-> t, marker |-> Alarm(t, r, k).marker]
                                  ELSE last_emit_by_key[k]]
  BY DEF Process, Raised, RaisedKeys, Alarm
<1>. QED  BY <1>1 DEF LastT, LastM

LEMMA Outages ==
  ASSUME NEW t, NEW r \in Readings, Process(t, r)
  PROVE  /\ active_quality' = Open(t, r) \ Back(t, r)
         /\ missing_since' \in [Phase -> {None, t} \cup {missing_since[ph] : ph \in Phase}]
         /\ \A ph \in Phase :
              missing_since'[ph] = IF ph \notin Missing(r) THEN None
                                   ELSE IF missing_since[ph] = None THEN t ELSE missing_since[ph]
<1>1. missing_since' = [ph \in Phase |-> IF ph \notin Missing(r) THEN None
                                         ELSE IF missing_since[ph] = None THEN t
                                         ELSE missing_since[ph]]
  BY DEF Process
<1>2. active_quality' = Open(t, r) \ Back(t, r)
  BY DEF Process, Raised, RaisedKeys, Open, Back
<1>. QED  BY <1>1, <1>2

LEMMA LogGrows ==
  ASSUME Types, NEW t, NEW r \in Readings, Process(t, r)
  PROVE  /\ log \subseteq log'
         /\ \A e \in log' : \/ e \in log
                            \/ e.t = t /\ e.kind = "open" /\ \E a \in Raised(t, r) : e = Event(t, "open", a)
                            \/ e.t = t /\ e.kind = "resolved" /\ e.key \in Closed(t, r)
         /\ \A a \in Raised(t, r) : Event(t, "open", a) \in log'
         /\ \A k \in RaisedKeys(t, r) : \E e \in log' : e.key = k /\ e.kind = "open" /\ e.t = t
         /\ \A k \in Closed(t, r) : \E e \in log' : e.key = k /\ e.kind = "resolved" /\ e.t = t
<1>1. log' = log \cup {Event(t, "open", a) : a \in Raised(t, r)}
                 \cup {Event(t, "resolved", Closing(k)) : k \in Closed(t, r)}
  BY Processed
<1>2. \A a : /\ Event(t, "open", a).t = t /\ Event(t, "open", a).kind = "open"
             /\ Event(t, "open", a).key = a.key
  BY DEF Event
<1>3. \A k : /\ Event(t, "resolved", Closing(k)).t = t /\ Event(t, "resolved", Closing(k)).key = k
             /\ Event(t, "resolved", Closing(k)).kind = "resolved"
  BY DEF Event, Closing
<1>4. log \subseteq log' /\ \A a \in Raised(t, r) : Event(t, "open", a) \in log'
  BY <1>1
<1>5. \A e \in log' : \/ e \in log
                      \/ e.t = t /\ e.kind = "open" /\ \E a \in Raised(t, r) : e = Event(t, "open", a)
                      \/ e.t = t /\ e.kind = "resolved" /\ e.key \in Closed(t, r)
  BY <1>1, <1>2, <1>3
<1>6. \A k \in RaisedKeys(t, r) : \E e \in log' : e.key = k /\ e.kind = "open" /\ e.t = t
  BY <1>2, <1>4 DEF RaisedKeys
<1>7. \A k \in Closed(t, r) : Event(t, "resolved", Closing(k)) \in log'
  BY <1>1
<1>8. \A k \in Closed(t, r) : \E e \in log' : e.key = k /\ e.kind = "resolved" /\ e.t = t
  BY <1>3, <1>7
<1>. QED  BY <1>4, <1>5, <1>6, <1>8

-----------------------------------------------------------------------------
(* The invariants of a sample.                                              *)

\* What is active was opened, and nothing has happened to it since.
OpenIsLast == \A k \in Active : \E e \in Opens(k) : \A f \in log : f.key = k => f.t <= e.t

\* What was opened and is not active has been resolved.
ResolvedSince ==
  \A e \in log : e.kind = "open" /\ Tracked(e.key) /\ e.key \notin Active =>
    \E g \in log : g.key = e.key /\ g.kind = "resolved" /\ e.t < g.t

\* The engine remembers the last opening of every key.
LastIsKnown ==
  /\ DOMAIN last_emit_by_key = {e.key : e \in {f \in log : f.kind = "open"}}
  /\ \A k \in DOMAIN last_emit_by_key :
       /\ \E e \in Opens(k) : e.t = LastT(k)
       /\ \A e \in Opens(k) : /\ e.t <= LastT(k)
                              /\ e.t = LastT(k) => e.marker = LastM(k)

\* An outage is known, or its report is suppressed because the last is younger than a minute.
OutageIsKnown ==
  /\ recent = <<>> => missing_since = [ph \in Phase |-> None]
  /\ \A ph \in Phase :
       /\ missing_since[ph] <= now
       /\ <<"missing", ph>> \in DOMAIN last_emit_by_key => LastM(<<"missing", ph>>) = 1
       /\ missing_since[ph] # None /\ ph \notin active_quality =>
            /\ <<"missing", ph>> \in DOMAIN last_emit_by_key
            /\ LastT(<<"missing", ph>>) <= missing_since[ph]
            /\ now - LastT(<<"missing", ph>>) < 60

LEMMA ActiveStep ==
  ASSUME Types, OpenIsLast, ResolvedSince, NEW t \in Nat, now < t, NEW r \in Readings, Process(t, r)
  PROVE  OpenIsLast' /\ ResolvedSince'
<1>1. \A e \in log : e.t \in Nat /\ e.t < t
  BY DEF Types
<1>2. Active' = (Active \cup {k \in RaisedKeys(t, r) : Tracked(k)}) \ Closed(t, r)
  BY Processed
<1>3. ASSUME NEW k \in Active'
      PROVE  \E e \in log' : e.key = k /\ e.kind = "open" /\ \A f \in log' : f.key = k => f.t <= e.t
  <2>1. CASE k \in RaisedKeys(t, r)
    <3>1. PICK e \in log' : e.key = k /\ e.kind = "open" /\ e.t = t
      BY <2>1, LogGrows
    <3>2. \A f \in log' : f.t <= t
      BY <1>1, LogGrows
    <3>. QED  BY <3>1, <3>2
  <2>2. CASE k \notin RaisedKeys(t, r)
    <3>1. k \in Active /\ k \notin Closed(t, r)
      BY <1>2, <1>3, <2>2
    <3>2. PICK e \in Opens(k) : \A f \in log : f.key = k => f.t <= e.t
      BY <3>1 DEF OpenIsLast
    <3>3. \A f \in log' : f.key = k => f \in log
      <4>1. \A a \in Raised(t, r) : Event(t, "open", a).key \in RaisedKeys(t, r)
        BY DEF Event, RaisedKeys
      <4>. QED  BY <2>2, <3>1, <4>1, LogGrows
    <3>4. e \in log' /\ e.key = k /\ e.kind = "open"
      BY LogGrows DEF Opens
    <3>. QED  BY <3>2, <3>3, <3>4
  <2>. QED  BY <2>1, <2>2
<1>4. ASSUME NEW e \in log', e.kind = "open", Tracked(e.key), e.key \notin Active'
      PROVE  \E g \in log' : g.key = e.key /\ g.kind = "resolved" /\ e.t < g.t
  <2>1. e \in log
    <3>1. SUFFICES ASSUME e \notin log PROVE FALSE
      OBVIOUS
    <3>2. PICK a \in Raised(t, r) : e = Event(t, "open", a)
      BY <1>4, <3>1, LogGrows
    <3>3. e.key \in RaisedKeys(t, r)
      BY <3>2 DEF Event, RaisedKeys
    <3>4. e.key \notin Closed(t, r)
      BY <3>3, Disjoint
    <3>. QED  BY <1>2, <1>4, <3>3, <3>4
  <2>2. CASE e.key \in Closed(t, r)
    <3>1. PICK g \in log' : g.key = e.key /\ g.kind = "resolved" /\ g.t = t
      BY <2>2, LogGrows
    <3>. QED  BY <1>1, <2>1, <3>1
  <2>3. CASE e.key \notin Closed(t, r)
    <3>1. e.key \notin Active
      BY <1>2, <1>4, <2>3
    <3>2. PICK g \in log : g.key = e.key /\ g.kind = "resolved" /\ e.t < g.t
      BY <1>4, <2>1, <3>1 DEF ResolvedSince
    <3>. QED  BY <3>2, LogGrows
  <2>. QED  BY <2>2, <2>3
<1>5. OpenIsLast'
  BY <1>3 DEF OpenIsLast, Opens
<1>6. ResolvedSince'
  BY <1>4 DEF ResolvedSince
<1>. QED  BY <1>5, <1>6

LEMMA OnceStep ==
  ASSUME Types, ResolvedSince, OpenedOnce, NEW t \in Nat, now < t, NEW r \in Readings, Process(t, r)
  PROVE  OpenedOnce'
<1>1. \A e \in log : e.t \in Nat /\ e.t < t
  BY DEF Types
<1>2. ASSUME NEW e \in log', NEW f \in log', e.key = f.key, e.kind = "open", f.kind = "open", e.t < f.t,
             Tracked(e.key)
      PROVE  \E g \in log' : g.key = e.key /\ g.kind = "resolved" /\ e.t < g.t /\ g.t < f.t
  <2>1. e \in log
    BY <1>1, <1>2, LogGrows
  <2>2. CASE f \in log
    <3>1. PICK g \in log : g.key = e.key /\ g.kind = "resolved" /\ e.t < g.t /\ g.t < f.t
      BY <1>2, <2>1, <2>2 DEF OpenedOnce, Tracked
    <3>. QED  BY <3>1, LogGrows
  <2>3. CASE f \notin log
    <3>1. PICK a \in Raised(t, r) : f = Event(t, "open", a)
      BY <1>2, <2>3, LogGrows
    <3>2. f.key \in RaisedKeys(t, r) /\ f.t = t
      BY <3>1 DEF Event, RaisedKeys
    <3>3. e.key \notin Active
      BY <1>2, <3>2, Disjoint
    <3>4. PICK g \in log : g.key = e.key /\ g.kind = "resolved" /\ e.t < g.t
      BY <1>2, <2>1, <3>3 DEF ResolvedSince
    <3>. QED  BY <1>1, <3>2, <3>4, LogGrows
  <2>. QED  BY <2>2, <2>3
<1>. QED  BY <1>2 DEF OpenedOnce, Tracked

LEMMA OneAlarm ==
  ASSUME NEW t, NEW r \in Readings, NEW a \in Raised(t, r)
  PROVE  Alarm(t, r, a.key) = a /\ a.key \in RaisedKeys(t, r)
<1>1. Alarm(t, r, a.key) \in Raised(t, r) /\ Alarm(t, r, a.key).key = a.key
  BY DEF Alarm
<1>2. \A b \in Raised(t, r) : b.key = a.key => b = a
  BY OneAlarmPerKey DEF Raised
<1>3. a.key \in RaisedKeys(t, r)
  BY DEF RaisedKeys
<1>. QED  BY <1>1, <1>2, <1>3

LEMMA LastStep ==
  ASSUME Types, LastIsKnown, NEW t \in Nat, now < t, NEW r \in Readings, Process(t, r)
  PROVE  LastIsKnown'
<1>1. \A e \in log : e.t \in Nat /\ e.t < t
  BY DEF Types
<1>2. \A e \in log' : e.kind = "open" =>
        e \in log \/ \E a \in Raised(t, r) : e = Event(t, "open", a) /\ e.t = t
  BY LogGrows
<1>3. \A a \in Raised(t, r) : /\ Event(t, "open", a).key = a.key /\ a.key \in RaisedKeys(t, r)
                              /\ Event(t, "open", a).marker = a.marker
  BY DEF Event, RaisedKeys
<1>4. \A k : k \in DOMAIN last_emit_by_key' <=> \E e \in log' : e.kind = "open" /\ e.key = k
  <2>1. \A k : k \in DOMAIN last_emit_by_key <=> \E e \in log : e.kind = "open" /\ e.key = k
    BY DEF LastIsKnown
  <2>2. \A k \in RaisedKeys(t, r) : \E e \in log' : e.key = k /\ e.kind = "open"
    BY LogGrows
  <2>3. log \subseteq log' /\ DOMAIN last_emit_by_key' = DOMAIN last_emit_by_key \cup RaisedKeys(t, r)
    BY LogGrows, Remembered
  <2>. QED  BY <1>2, <1>3, <2>1, <2>2, <2>3
<1>5. ASSUME NEW k \in DOMAIN last_emit_by_key'
      PROVE  /\ \E e \in log' : e.key = k /\ e.kind = "open" /\ e.t = LastT(k)'
             /\ \A e \in log' : e.key = k /\ e.kind = "open" =>
                  /\ e.t <= LastT(k)'
                  /\ e.t = LastT(k)' => e.marker = LastM(k)'
  <2>1. CASE k \in RaisedKeys(t, r)
    <3>1. PICK a \in Raised(t, r) : a.key = k
      BY <2>1 DEF RaisedKeys
    <3>2. LastT(k)' = t /\ LastM(k)' = a.marker
      <4>1. LastT(k)' = t /\ LastM(k)' = Alarm(t, r, k).marker
        BY <2>1, Remembered
      <4>. QED  BY <3>1, <4>1, OneAlarm
    <3>3. \A b \in Raised(t, r) : b.key = k => b = a
      BY <3>1, OneAlarmPerKey DEF Raised
    <3>4. \E e \in log' : e.key = k /\ e.kind = "open" /\ e.t = t
      BY <2>1, LogGrows
    <3>5. ASSUME NEW e \in log', e.key = k, e.kind = "open"
          PROVE  e.t <= t /\ (e.t = t => e.marker = a.marker)
      BY <1>1, <1>2, <1>3, <3>3, <3>5
    <3>. QED  BY <3>2, <3>4, <3>5
  <2>2. CASE k \notin RaisedKeys(t, r)
    <3>1. k \in DOMAIN last_emit_by_key /\ LastT(k)' = LastT(k) /\ LastM(k)' = LastM(k)
      BY <1>5, <2>2, Remembered
    <3>2. \A e \in log' : e.key = k /\ e.kind = "open" => e \in log
      BY <1>2, <1>3, <2>2
    <3>3. /\ \E e \in log : e.key = k /\ e.kind = "open" /\ e.t = LastT(k)
          /\ \A e \in log : e.key = k /\ e.kind = "open" =>
                  /\ e.t <= LastT(k)
                  /\ e.t = LastT(k) => e.marker = LastM(k)
      BY <3>1 DEF LastIsKnown, Opens
    <3>4. log \subseteq log'
      BY LogGrows
    <3>. QED  BY <3>1, <3>2, <3>3, <3>4
  <2>. QED  BY <2>1, <2>2
<1>6. DOMAIN last_emit_by_key' = {e.key : e \in {f \in log' : f.kind = "open"}}
  BY <1>4
<1>. QED  BY <1>5, <1>6 DEF LastIsKnown, Opens

LEMMA CooldownStep ==
  ASSUME Types, LastIsKnown, CooldownKept, NEW t \in Nat, now < t, NEW r \in Readings, Process(t, r)
  PROVE  CooldownKept'
<1>1. \A e \in log : e.t \in Nat /\ e.t < t
  BY DEF Types
<1>2. ASSUME NEW e \in log', NEW f \in log', e.key = f.key, e.kind = "open", f.kind = "open", e.t < f.t,
             \A g \in log' : g.key = e.key /\ g.kind = "open" => ~(e.t < g.t /\ g.t < f.t)
      PROVE  f.t - e.t >= f.cooldown \/ Abs(f.marker - e.marker) >= 1
  <2>1. e \in log
    BY <1>1, <1>2, LogGrows
  <2>2. CASE f \in log
    <3>1. \A g \in Opens(e.key) : ~(e.t < g.t /\ g.t < f.t)
      BY <1>2, LogGrows DEF Opens
    <3>. QED  BY <1>2, <2>1, <2>2, <3>1 DEF CooldownKept
  <2>3. CASE f \notin log
    <3>1. PICK a \in Raised(t, r) : f = Event(t, "open", a)
      BY <1>2, <2>3, LogGrows
    <3>2. /\ f.key = a.key /\ f.t = t /\ f.marker = a.marker /\ f.cooldown = a.cooldown
          /\ ShouldEmit(t, a)
      BY <3>1 DEF Event, Raised
    <3>3. e.key \in DOMAIN last_emit_by_key
      BY <1>2, <2>1 DEF LastIsKnown
    <3> DEFINE k == e.key
    <3>4. PICK g \in log : g.key = e.key /\ g.kind = "open" /\ g.t = LastT(k)
      BY <3>3 DEF LastIsKnown, Opens
    <3>5. e.t <= LastT(k) /\ (e.t = LastT(k) => e.marker = LastM(k))
      BY <1>2, <2>1, <3>3 DEF LastIsKnown, Opens
    <3>6. e.t = LastT(k)
      BY <1>1, <1>2, <2>1, <3>2, <3>4, <3>5, LogGrows
    <3>7. Abs(t - LastT(k)) >= a.cooldown \/ Abs(a.marker - LastM(k)) >= 1
      BY <1>2, <3>2, <3>3 DEF ShouldEmit, CooledDown, LastT, LastM
    <3>8. Abs(t - LastT(k)) = t - e.t
      BY <1>1, <2>1, <3>6, AbsFacts
    <3>. QED  BY <3>2, <3>5, <3>6, <3>7, <3>8
  <2>. QED  BY <2>2, <2>3
<1>. QED  BY <1>2 DEF CooldownKept, Opens

LEMMA OutageStep ==
  ASSUME Types, OutageIsKnown, NEW t \in Nat, now < t, NEW r \in Readings, Process(t, r)
  PROVE  \A ph \in Phase :
           /\ missing_since'[ph] <= t
           /\ <<"missing", ph>> \in DOMAIN last_emit_by_key' => LastM(<<"missing", ph>>)' = 1
           /\ missing_since'[ph] # None /\ ph \notin active_quality' =>
                /\ <<"missing", ph>> \in DOMAIN last_emit_by_key'
                /\ LastT(<<"missing", ph>>)' <= missing_since'[ph]
                /\ t - LastT(<<"missing", ph>>)' < 60
<1>1. SUFFICES ASSUME NEW ph \in Phase
      PROVE /\ missing_since'[ph] <= t
            /\ <<"missing", ph>> \in DOMAIN last_emit_by_key' => LastM(<<"missing", ph>>)' = 1
            /\ missing_since'[ph] # None /\ ph \notin active_quality' =>
                /\ <<"missing", ph>> \in DOMAIN last_emit_by_key'
                /\ LastT(<<"missing", ph>>)' <= missing_since'[ph]
                /\ t - LastT(<<"missing", ph>>)' < 60
  OBVIOUS
<1> DEFINE key == <<"missing", ph>>
           since == missing_since[ph]
<1>2. missing_since'[ph] = IF ph \notin Missing(r) THEN None ELSE IF since = None THEN t ELSE since
  BY Outages
<1>3. since \in Nat \cup {None} /\ since <= now /\ now \in Nat
  BY DEF Types, OutageIsKnown
<1>4. missing_since'[ph] <= t
  BY <1>2, <1>3 DEF None
<1>5. key \in DOMAIN last_emit_by_key' => LastM(key)' = 1
  <2>1. CASE key \in RaisedKeys(t, r)
    <3>1. PICK a \in Raised(t, r) : a.key = key
      BY <2>1 DEF RaisedKeys
    <3>2. a.marker = 1
      BY <3>1, AlarmFacts DEF Raised
    <3>3. LastM(key)' = a.marker
      <4>1. LastM(key)' = Alarm(t, r, key).marker
        BY <2>1, Remembered
      <4>. QED  BY <3>1, <4>1, OneAlarm
    <3>. QED  BY <3>1, <3>2, <3>3
  <2>2. CASE key \notin RaisedKeys(t, r)
    BY <2>2, Remembered DEF OutageIsKnown
  <2>. QED  BY <2>1, <2>2
<1>6. ASSUME missing_since'[ph] # None, ph \notin active_quality'
      PROVE  /\ key \in DOMAIN last_emit_by_key'
             /\ LastT(key)' <= missing_since'[ph]
             /\ t - LastT(key)' < 60
  <2>1. ph \in Missing(r) /\ r.volts[ph] < 80
    BY <1>2, <1>6 DEF Missing
  <2>2. ~(r.volts[ph] > 180)
    BY <2>1, EventAssumption
  <2>3. ph \notin active_quality /\ key \notin RaisedKeys(t, r)
    BY <1>6, <2>2, Outages DEF Open, Back
  <2> DEFINE a == [key |-> key, marker |-> 1, cooldown |-> 60]
  <2>4. a \in Alarms(t, r)
    BY <2>1, <2>3 DEF Alarms, NewlyMissing
  <2>5. ~ShouldEmit(t, a)
    BY <2>3, <2>4 DEF RaisedKeys, Raised
  <2>6. /\ key \in DOMAIN last_emit_by_key
        /\ ~(Abs(t - LastT(key)) >= 60)
    BY <2>5 DEF ShouldEmit, CooledDown, LastT, LastM
  <2>7. LastT(key) \in Nat
    BY <2>6 DEF Types
  <2>8. LastT(key)' = LastT(key) /\ key \in DOMAIN last_emit_by_key'
    BY <2>3, <2>6, Remembered
  <2>. HIDE DEF key, a
  <2>9. t - LastT(key) < 60
    BY <2>6, <2>7, AbsFacts DEF Abs
  <2>10. LastT(key) <= missing_since'[ph]
    <3>1. CASE since = None
      <4>1. LastT(key) <= now
        BY <2>6 DEF Types, key
      <4>. QED  BY <1>2, <1>3, <2>1, <2>7, <3>1, <4>1
    <3>2. CASE since # None
      BY <1>2, <2>1, <2>3, <3>2 DEF OutageIsKnown, key
    <3>. QED  BY <3>1, <3>2
  <2>. QED  BY <2>8, <2>9, <2>10
<1>. QED  BY <1>4, <1>5, <1>6

-----------------------------------------------------------------------------
(* The theorems.                                                            *)

EngineInv ==
  /\ Types /\ OpenIsLast /\ ResolvedSince /\ OpenedOnce /\ LastIsKnown /\ CooldownKept /\ OutageIsKnown

\* A new engine has nothing active and has reported nothing.
LEMMA NewEngineInv ==
  ASSUME NewEngine, now' = now, now \in Nat, history' \in Seq([t : Nat, watts : Int]),
         recent' \in {<<>>} \cup {<<r>> : r \in Readings}
  PROVE  EngineInv'
<1>1. /\ active_quality' = {} /\ active_sessions' = <<>> /\ last_emit_by_key' = <<>> /\ log' = {}
      /\ missing_since' = [ph \in Phase |-> None]
  BY DEF NewEngine
<1>2. DOMAIN active_sessions' = {} /\ DOMAIN last_emit_by_key' = {}
  BY <1>1
<1>3. Active' = {}
  BY <1>1, <1>2 DEF Active
<1>4. active_sessions' \in [DOMAIN active_sessions' -> Int]
  BY <1>1
<1>5. missing_since' \in [Phase -> Nat \cup {None}] /\ \A ph \in Phase : missing_since'[ph] = None
  BY <1>1
<1>6. Types'
  BY <1>1, <1>2, <1>4, <1>5 DEF Types
<1>7. OpenIsLast' /\ ResolvedSince' /\ OpenedOnce' /\ CooldownKept' /\ LastIsKnown'
  BY <1>1, <1>2, <1>3 DEF OpenIsLast, ResolvedSince, OpenedOnce, CooldownKept, LastIsKnown
<1>8. OutageIsKnown'
  BY <1>1, <1>2, <1>5 DEF OutageIsKnown, None
<1>. QED  BY <1>6, <1>7, <1>8 DEF EngineInv

LEMMA InitEngine == Init => EngineInv
<1>. SUFFICES ASSUME Init PROVE EngineInv
  OBVIOUS
<1>1. /\ active_quality = {} /\ active_sessions = <<>> /\ last_emit_by_key = <<>> /\ log = {}
      /\ missing_since = [ph \in Phase |-> None] /\ now = 0 /\ recent = <<>> /\ history = <<>>
  BY DEF Init
<1>2. DOMAIN active_sessions = {} /\ DOMAIN last_emit_by_key = {}
  BY <1>1
<1>3. Active = {}
  BY <1>1, <1>2 DEF Active
<1>4. active_sessions \in [DOMAIN active_sessions -> Int] /\ history \in Seq([t : Nat, watts : Int])
  BY <1>1
<1>5. missing_since \in [Phase -> Nat \cup {None}] /\ \A ph \in Phase : missing_since[ph] = None
  BY <1>1
<1>6. Types
  BY <1>1, <1>2, <1>4, <1>5 DEF Types
<1>7. OpenIsLast /\ ResolvedSince /\ OpenedOnce /\ CooldownKept /\ LastIsKnown
  BY <1>1, <1>2, <1>3 DEF OpenIsLast, ResolvedSince, OpenedOnce, CooldownKept, LastIsKnown
<1>8. OutageIsKnown
  BY <1>1, <1>2, <1>5 DEF OutageIsKnown, None
<1>. QED  BY <1>6, <1>7, <1>8 DEF EngineInv

\* What a sample does to the types, the meter's clock and the history.
LEMMA SampleTypes ==
  ASSUME Types, NEW gap \in Gaps, NEW r \in Readings, Sample(gap, r)
  PROVE  /\ now' \in Nat /\ now < now' /\ now' = now + gap
         /\ recent' \in {<<>>} \cup {<<x>> : x \in Readings} /\ recent' # <<>>
         /\ history' \in Seq([t : Nat, watts : Int])
<1>1. gap \in Nat \ {0} /\ now \in Nat /\ r.watts \in Int
  BY EventAssumption DEF Types
<1>2. now' = now + gap /\ recent' = <<r>> /\ history' = <<[t |-> now + gap, watts |-> r.watts]>> \o history
  BY DEF Sample
<1>3. [t |-> now + gap, watts |-> r.watts] \in [t : Nat, watts : Int]
  BY <1>1
<1>4. history' \in Seq([t : Nat, watts : Int])
  <2>1. \A S : \A x \in S : \A q \in Seq(S) : <<x>> \o q \in Seq(S)
    OBVIOUS
  <2>2. history \in Seq([t : Nat, watts : Int])
    BY DEF Types
  <2>. QED  BY <1>2, <1>3, <2>1, <2>2
<1>. QED  BY <1>1, <1>2, <1>4

LEMMA ProcessTypes ==
  ASSUME Types, LastIsKnown, NEW r \in Readings, Process(now', r), now' \in Nat, now < now',
         recent' \in {<<>>} \cup {<<x>> : x \in Readings}, history' \in Seq([t : Nat, watts : Int])
  PROVE  Types'
<1> DEFINE t == now'
<1>1. active_quality' \subseteq Phase
  BY Outages DEF Types, Open
<1>2. missing_since' \in [Phase -> Nat \cup {None}]
  BY Outages DEF Types
<1>3. active_sessions' \in [DOMAIN active_sessions' -> Int]
  <2>1. active_sessions' = [k \in DOMAIN Sessions(t, r) \ Ended(t, r) |-> Sessions(t, r)[k]]
    BY DEF Process, Raised, RaisedKeys, Started, Sessions, Ended
  <2>2. \A k \in DOMAIN Sessions(t, r) : Sessions(t, r)[k] \in Int
    BY BaselineType DEF Sessions, Types
  <2>. QED  BY <2>1, <2>2
<1>4. \A k \in DOMAIN active_sessions' : k[1] = "session"
  <2>1. \A k \in DOMAIN active_sessions' : k \in DOMAIN active_sessions \/ k \in Started(t, r)
    BY DEF Process, Raised, RaisedKeys, Started, Sessions, Ended
  <2>. QED  BY <2>1 DEF Types, Started
<1>5. \A k \in DOMAIN last_emit_by_key' : LastT(k)' \in Nat /\ LastT(k)' <= t
  <2>1. ASSUME NEW k \in DOMAIN last_emit_by_key' PROVE LastT(k)' \in Nat /\ LastT(k)' <= t
    <3>1. CASE k \in RaisedKeys(t, r)
      <4>1. LastT(k)' = t
        BY <3>1, Remembered
      <4>. QED  BY <4>1
    <3>2. CASE k \notin RaisedKeys(t, r)
      <4>1. k \in DOMAIN last_emit_by_key /\ LastT(k)' = LastT(k)
        BY <2>1, <3>2, Remembered
      <4>. QED  BY <4>1 DEF Types
    <3>. QED  BY <3>1, <3>2
  <2>. QED  BY <2>1
<1>6. \A e \in log' : e.t \in Nat /\ e.t <= t
  <2>1. \A e \in log' : e \in log \/ e.t = t
    BY LogGrows
  <2>. QED  BY <2>1 DEF Types
<1>. QED  BY <1>1, <1>2, <1>3, <1>4, <1>5, <1>6 DEF Types

LEMMA SampleInv ==
  ASSUME EngineInv, NEW gap \in Gaps, NEW r \in Readings, Sample(gap, r)
  PROVE  EngineInv'
<1>. USE DEF EngineInv
<1>1. /\ now' \in Nat /\ now < now' /\ now' = now + gap
      /\ recent' \in {<<>>} \cup {<<x>> : x \in Readings} /\ recent' # <<>>
      /\ history' \in Seq([t : Nat, watts : Int])
  BY SampleTypes
<1>2. CASE recent # <<>>
  <2>1. Process(now', r)
    BY <1>1, <1>2 DEF Sample
  <2>2. Types'
    BY <1>1, <2>1, ProcessTypes
  <2>3. OpenIsLast' /\ ResolvedSince'
    BY <1>1, <2>1, ActiveStep
  <2>4. OpenedOnce'
    BY <1>1, <2>1, OnceStep
  <2>5. LastIsKnown'
    BY <1>1, <2>1, LastStep
  <2>6. CooldownKept'
    BY <1>1, <2>1, CooldownStep
  <2>7. OutageIsKnown'
    BY <1>1, <2>1, OutageStep DEF OutageIsKnown
  <2>. QED  BY <2>2, <2>3, <2>4, <2>5, <2>6, <2>7
<1>3. CASE recent = <<>>
  <2>1. UNCHANGED <<active_quality, active_sessions, last_emit_by_key, log, missing_since>>
    BY <1>3 DEF Sample
  <2>2. Types'
    BY <1>1, <2>1 DEF Types, LastT
  <2>3. OpenIsLast' /\ ResolvedSince' /\ OpenedOnce' /\ CooldownKept'
    BY <2>1 DEF OpenIsLast, ResolvedSince, OpenedOnce, CooldownKept, Active, Opens
  <2>4. LastIsKnown'
    BY <2>1 DEF LastIsKnown, LastT, LastM, Opens
  <2>5. OutageIsKnown'
    BY <1>1, <1>3, <2>1 DEF OutageIsKnown, LastM, None
  <2>. QED  BY <2>2, <2>3, <2>4, <2>5
<1>. QED  BY <1>2, <1>3

LEMMA StepInv == EngineInv /\ [Next]_vars => EngineInv'
<1>. SUFFICES ASSUME EngineInv, [Next]_vars PROVE EngineInv'
  OBVIOUS
<1>1. CASE \E gap \in Gaps, r \in Readings : Sample(gap, r)
  BY <1>1, SampleInv
<1>2. CASE ResetLiveBuffers
  <2>1. NewEngine /\ now' = now /\ recent' = <<>> /\ history' = <<>>
    BY <1>2 DEF ResetLiveBuffers
  <2>2. history' \in Seq([t : Nat, watts : Int])
    BY <2>1
  <2>. QED  BY <2>1, <2>2, NewEngineInv DEF EngineInv, Types
<1>3. CASE SetMainsNetworkType
  BY <1>3, NewEngineInv DEF SetMainsNetworkType, EngineInv, Types
<1>4. CASE UNCHANGED vars
  <2>. USE <1>4 DEF vars, EngineInv
  <2>1. Types' /\ OutageIsKnown'
    BY DEF Types, OutageIsKnown, LastT, LastM
  <2>2. OpenIsLast' /\ ResolvedSince'
    BY DEF OpenIsLast, ResolvedSince, Active, Opens
  <2>3. OpenedOnce' /\ CooldownKept' /\ LastIsKnown'
    BY DEF OpenedOnce, CooldownKept, LastIsKnown, Opens, LastT, LastM
  <2>. QED  BY <2>1, <2>2, <2>3
<1>. QED  BY <1>1, <1>2, <1>3, <1>4 DEF Next

\* The engine is in step with its log, and remembers when it raised what.
THEOREM EngineInvariant == Spec => []EngineInv
  BY InitEngine, StepInv, PTL DEF Spec

\* The types, among them that the engine remembers the last opening of every key it has opened.
THEOREM TypeCorrect == Spec => []TypeOK
<1>1. EngineInv => TypeOK
  BY DEF EngineInv, Types, LastIsKnown, TypeOK, Opens, LastT
<1>. QED  BY <1>1, EngineInvariant, PTL

\* For any phases, readings and engines replaced: what is active is what the log shows as
\* opened and not yet resolved.
THEOREM ActiveMatchesLog == Spec => []ActiveIsOpen
<1>1. EngineInv => ActiveIsOpen
  <2>. SUFFICES ASSUME EngineInv PROVE ActiveIsOpen
    OBVIOUS
  <2> DEFINE IsOpen(key) == \E e \in Opens(key) : \A f \in log : f.key = key => f.t <= e.t
  <2>1. \A k \in Active : IsOpen(k)
    BY DEF EngineInv, OpenIsLast
  <2>2. ASSUME NEW k, Tracked(k), IsOpen(k) PROVE k \in Active
    <3>1. PICK e \in Opens(k) : \A f \in log : f.key = k => f.t <= e.t
      BY <2>2
    <3>2. SUFFICES ASSUME k \notin Active PROVE FALSE
      OBVIOUS
    <3>3. e \in log /\ e.key = k /\ e.kind = "open"
      BY DEF Opens
    <3>4. PICK g \in log : g.key = k /\ e.t < g.t
      BY <2>2, <3>2, <3>3 DEF EngineInv, ResolvedSince
    <3>. QED  BY <3>1, <3>3, <3>4 DEF EngineInv, Types
  <2>3. \A ph : <<"missing", ph>> \in Active <=> ph \in active_quality
    BY DEF Active, EngineInv, Types
  <2>4. active_quality = {ph \in Phase : IsOpen(<<"missing", ph>>)}
    <3>1. \A ph : Tracked(<<"missing", ph>>)
      BY DEF Tracked
    <3>. HIDE DEF IsOpen
    <3>. QED  BY <2>1, <2>2, <2>3, <3>1 DEF EngineInv, Types
  <2>5. \A k : k[1] = "session" => (k \in Active <=> k \in DOMAIN active_sessions)
    BY DEF Active
  <2>6. \A k : IsOpen(k) => k \in Keys
    BY DEF Keys, Opens
  <2>7. DOMAIN active_sessions = {key \in Keys : key[1] = "session" /\ IsOpen(key)}
    <3>1. \A k : k[1] = "session" => Tracked(k)
      BY DEF Tracked
    <3>2. \A k \in DOMAIN active_sessions : k[1] = "session"
      BY DEF EngineInv, Types
    <3>. HIDE DEF IsOpen
    <3>. QED  BY <2>1, <2>2, <2>5, <2>6, <3>1, <3>2
  <2>. QED  BY <2>4, <2>7 DEF ActiveIsOpen
<1>. QED  BY <1>1, EngineInvariant, PTL

\* An outage or a session is opened again only after it was resolved.
THEOREM NotOpenedTwice == Spec => []OpenedOnce
<1>1. EngineInv => OpenedOnce
  BY DEF EngineInv
<1>. QED  BY <1>1, EngineInvariant, PTL

\* Alarms of one key keep the distance their rule asks for, unless they differ.
THEOREM Cooldown == Spec => []CooldownKept
<1>1. EngineInv => CooldownKept
  BY DEF EngineInv
<1>. QED  BY <1>1, EngineInvariant, PTL

\* An outage of a minute is reported, whatever the cooldown has suppressed before.
THEOREM OutageReported == Spec => []LastingOutageIsReported
<1>1. EngineInv => LastingOutageIsReported
  <2>1. SUFFICES ASSUME EngineInv, NEW ph \in Phase, missing_since[ph] # None,
                        now - missing_since[ph] >= 60, ph \notin active_quality
                 PROVE  FALSE
    BY DEF LastingOutageIsReported
  <2> DEFINE key == <<"missing", ph>>
  <2>2. key \in DOMAIN last_emit_by_key /\ LastT(key) <= missing_since[ph] /\ now - LastT(key) < 60
    BY <2>1 DEF EngineInv, OutageIsKnown
  <2>3. LastT(key) \in Nat /\ missing_since[ph] \in Nat /\ now \in Nat
    BY <2>1, <2>2 DEF EngineInv, Types
  <2>. HIDE DEF key
  <2>. QED  BY <2>1, <2>2, <2>3
<1>. QED  BY <1>1, EngineInvariant, PTL
=============================================================================

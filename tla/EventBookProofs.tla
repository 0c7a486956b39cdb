--------------------------- MODULE EventBookProofs ---------------------------
(***************************************************************************)
(* Theorems about the event log and its file, for any length of the log,   *)
(* any interval between two saves and any number of events: whatever the   *)
(* two threads, the crashes and the restarts did before, a log that is at  *)
(* rest and that was saved alone since its threads last met is in the file *)
(* but for the few events counted by dirty.                                *)
(***************************************************************************)
EXTENDS EventBook, TLAPS

USE DEF vars, book, labels

Saving == {"cut", "put", "reset"}

\* What a save has done so far: its copy is the log, and its file is cut or complete.
SaveInv(t) ==
  /\ pc[t] \in Saving => rows[t] = log
  /\ pc[t] = "put" => ~beaten[t]
  /\ pc[t] = "reset" => file = log

\* Every event of the log but the first d is in the file, at its place; the file has
\* older ones only when the log is full.
Kept(d) ==
  /\ d <= Len(log) \/ Len(log) = MaxItems
  /\ \A i \in 1 .. Len(log) - d : i <= Len(load) /\ load[i] = log[d + i]
  /\ Len(load) > Len(log) - d => Len(log) = MaxItems

\* The counter and the file, before the worker and while it appends; between an event and
\* its mark the log is one ahead of the counter.
WorkerInv ==
  /\ pc = Nobody => Kept(dirty) /\ dirty < FlushEvery
  /\ pc["worker"] \in {"append", "save"} => Kept(dirty)
  /\ pc["worker"] = "mark" => Kept(dirty + 1)

Bounded ==
  /\ Len(log) <= MaxItems
  /\ file # Torn => Len(file) <= MaxItems
  /\ \A t \in Thread : Len(rows[t]) <= MaxItems
  /\ pc["page"] = "walk" => pos >= 1
  /\ pc["worker"] = "mark" => burst # <<>>

\* Without the history of mixed, nobody is at work beside another.
Apart ==
  /\ mixed # "yes" => \E t \in Thread : pc[t] = "idle"
  /\ mixed # "yes" => pc["page"] # "raise"
  /\ mixed = "clearing" => \E t \in Thread : pc[t] \in Saving
  /\ ~up => pc = Nobody /\ mixed = "no"

Saved   == up /\ mixed # "yes" => \A t \in Thread : SaveInv(t)
Counted == up /\ mixed = "no" => WorkerInv

BookInv == TypeOK /\ Bounded /\ Apart /\ Saved /\ Counted

-----------------------------------------------------------------------------
(* The operators on sequences.                                               *)

LEMMA EventTypes ==
  /\ \A e \in Event : e.id \in 1 .. MaxEvents /\ e.net \in Network
  /\ \A e \in Event, n \in Network : [e EXCEPT !.net = n] \in Event
BY DEF Event

LEMMA ElementType ==
  ASSUME NEW S, NEW q \in Seq(S), NEW i \in 1 .. Len(q)
  PROVE  q[i] \in S
OBVIOUS

\* The newest event first, the others one place further, the oldest dropped when full.
LEMMA PushedLog ==
  ASSUME log \in Seq(Event), Len(log) <= MaxItems, NEW e \in Event
  PROVE  /\ AppendLeft(e) \in Seq(Event)
         /\ Len(AppendLeft(e)) = IF Len(log) < MaxItems THEN Len(log) + 1 ELSE MaxItems
         /\ \A i \in 2 .. Len(AppendLeft(e)) : AppendLeft(e)[i] = log[i - 1]
<1> DEFINE n == Shorter(Len(log), MaxItems - 1)
<1>1. n \in 0 .. Len(log)
  BY BookAssumption DEF Shorter
<1>2. SubSeq(log, 1, n) \in Seq(Event) /\ Len(SubSeq(log, 1, n)) = n
      /\ \A i \in 1 .. n : SubSeq(log, 1, n)[i] = log[i]
  <2> HIDE DEF n
  <2> QED BY <1>1
<1>3. <<e>> \in Seq(Event) /\ Len(<<e>>) = 1
  OBVIOUS
<1>4. AppendLeft(e) = <<e>> \o SubSeq(log, 1, n)
  BY DEF AppendLeft
<1>5. n + 1 = IF Len(log) < MaxItems THEN Len(log) + 1 ELSE MaxItems
  BY BookAssumption DEF Shorter
<1> HIDE DEF n
<1>6. AppendLeft(e) \in Seq(Event) /\ Len(AppendLeft(e)) = n + 1
  BY <1>1, <1>2, <1>3, <1>4
<1>7. \A i \in 2 .. n + 1 : AppendLeft(e)[i] = SubSeq(log, 1, n)[i - 1]
  BY <1>1, <1>2, <1>3, <1>4
<1> QED
  BY <1>1, <1>2, <1>5, <1>6, <1>7

LEMMA LoadedLog ==
  ASSUME TypeOK, Bounded
  PROVE  load \in Seq(Event) /\ Len(load) <= MaxItems
BY BookAssumption DEF TypeOK, Bounded, load

-----------------------------------------------------------------------------
(* Types and bounds.                                                         *)

LEMMA InitInv == Init => BookInv
<1> SUFFICES ASSUME Init PROVE BookInv
  OBVIOUS
<1> USE BookAssumption DEF Init, Nobody, Thread
<1>1. <<>> \in Seq(Event) /\ Len(<<>>) = 0
  OBVIOUS
<1>2. TypeOK
  <2>1. pc \in [Thread -> {"idle", "append", "mark", "save", "walk", "raise", "cut", "put", "reset"}]
        /\ rows \in [Thread -> Seq(Event)] /\ beaten \in [Thread -> BOOLEAN]
    BY <1>1
  <2>2. log \in Seq(Event) /\ file \in Seq(Event) \cup {Torn} /\ burst \in Seq(Event)
    BY <1>1
  <2>3. up \in BOOLEAN /\ late \in BOOLEAN
    OBVIOUS
  <2>4. net \in Network /\ settings \in Network
    BY DEF Network
  <2>5. dirty \in Nat /\ pos \in Nat /\ made \in 0 .. MaxEvents /\ mixed \in {"no", "yes", "clearing"}
    OBVIOUS
  <2> QED BY <2>1, <2>2, <2>3, <2>4, <2>5 DEF TypeOK
<1>3. Bounded /\ Apart
  BY <1>1 DEF Bounded, Apart
<1> QED
  BY <1>2, <1>3 DEF BookInv, Saved, Counted, SaveInv, WorkerInv, Kept, load

LEMMA TypesKept ==
  ASSUME TypeOK, Bounded, Apart, [Next]_vars
  PROVE  TypeOK' /\ Bounded'
<1> USE BookAssumption DEF TypeOK, Bounded, Thread, Goto, At, Begin, Other, Network
<1>1. CASE ProcessSample
  BY <1>1 DEF ProcessSample, Event
<1>2. CASE Append1
  <2>1. Head(burst) \in Event
    BY <1>2 DEF Append1
  <2>2. log' \in Seq(Event) /\ Len(log') <= MaxItems
    BY <1>2, <2>1, PushedLog DEF Append1
  <2>3. pc' \in [Thread -> {"idle", "append", "mark", "save", "walk", "raise", "cut", "put", "reset"}]
        /\ (pc'["page"] = "walk" => pc["page"] = "walk") /\ burst # <<>>
    BY <1>2 DEF Append1
  <2>4. /\ up' = up /\ file' = file /\ dirty' = dirty /\ late' = late /\ net' = net /\ settings' = settings
        /\ rows' = rows /\ beaten' = beaten /\ burst' = burst /\ pos' = pos /\ made' = made /\ mixed' = mixed
    BY <1>2 DEF Append1
  <2>5. TypeOK'
    BY <2>2, <2>3, <2>4
  <2>6. Bounded'
    BY <2>2, <2>3, <2>4
  <2> QED BY <2>5, <2>6
<1>3. CASE Mark
  <2>1. burst # <<>> /\ burst' = Tail(burst)
    BY <1>3 DEF Mark
  <2>2. burst' \in Seq(Event)
    BY <2>1
  <2> QED BY <1>3, <2>2 DEF Mark, mark_dirty
<1>4. CASE EndSample
  BY <1>4 DEF EndSample
<1>5. CASE FlushIfNeeded
  BY <1>5 DEF FlushIfNeeded, Copy
<1>6. CASE Switch
  BY <1>6 DEF Switch
<1>7. CASE Relabel
  <2>1. pos \in 1 .. Len(log)
    BY <1>7 DEF Relabel
  <2>2. [log[pos] EXCEPT !.net = net] \in Event
    BY <2>1, ElementType, EventTypes
  <2>3. log' = [log EXCEPT ![pos] = [log[pos] EXCEPT !.net = net]]
    BY <1>7 DEF Relabel
  <2>4. log' \in Seq(Event) /\ Len(log') = Len(log)
    BY <2>1, <2>2, <2>3
  <2> QED BY <1>7, <2>4 DEF Relabel
<1>8. CASE Raise
  BY <1>8 DEF Raise
<1>9. CASE SaveSettings
  BY <1>9 DEF SaveSettings
<1>10. CASE ForceFlush
  BY <1>10 DEF ForceFlush, Copy
<1>11. ASSUME NEW t \in Thread, Cut(t) PROVE TypeOK' /\ Bounded'
  BY <1>11 DEF Cut
<1>12. ASSUME NEW t \in Thread, Put(t) PROVE TypeOK' /\ Bounded'
  BY <1>12 DEF Put
<1>13. ASSUME NEW t \in Thread, Reset(t) PROVE TypeOK' /\ Bounded'
  <2> <<>> \in Seq(Event) /\ Len(<<>>) = 0
    OBVIOUS
  <2>1. rows' \in [Thread -> Seq(Event)] /\ \A s \in Thread : Len(rows'[s]) <= MaxItems
    BY <1>13 DEF Reset
  <2>2. pc' \in [Thread -> {"idle", "append", "mark", "save", "walk", "raise", "cut", "put", "reset"}]
        /\ \A s \in Thread : pc'[s] = pc[s] \/ pc'[s] = "idle"
    BY <1>13 DEF Reset
  <2>3. /\ up' = up /\ file' = file /\ net' = net /\ settings' = settings /\ log' = log
        /\ beaten' = beaten /\ burst' = burst /\ pos' = pos /\ made' = made
        /\ dirty' = 0 /\ late' = FALSE /\ mixed' \in {"no", "yes", "clearing"}
    BY <1>13 DEF Reset
  <2>4. TypeOK'
    BY <2>1, <2>2, <2>3
  <2>5. Bounded'
    BY <2>1, <2>2, <2>3
  <2> QED BY <2>4, <2>5
<1>14. CASE Wait
  BY <1>14 DEF Wait
<1>15. CASE Crash \/ Start
  <2>0. load \in Seq(Event) /\ Len(load) <= MaxItems
    BY LoadedLog
  <2>9. log' = <<>> \/ log' = load
    BY <1>15 DEF Crash, Start
  <2>10. <<>> \in Seq(Event) /\ Len(<<>>) <= MaxItems
    OBVIOUS
  <2>1. log' \in Seq(Event) /\ Len(log') <= MaxItems
    <3>1. CASE log' = <<>>
      BY <2>10, <3>1, Zenon
    <3>2. CASE log' = load
      BY <2>0, <3>2, Zenon
    <3> QED BY <2>9, <3>1, <3>2
  <2>2. Fresh
    BY <1>15 DEF Crash, Start
  <2>3. /\ dirty' \in Nat /\ late' = TRUE /\ mixed' = "no" /\ pos' \in Nat
        /\ burst' \in Seq(Event)
    BY <2>2 DEF Fresh
  <2>4. /\ rows' \in [Thread -> Seq(Event)] /\ beaten' \in [Thread -> BOOLEAN]
        /\ \A t \in Thread : Len(rows'[t]) <= MaxItems
    BY <2>2 DEF Fresh
  <2>5. /\ pc' \in [Thread -> {"idle", "append", "mark", "save", "walk", "raise", "cut", "put", "reset"}]
        /\ pc'["page"] # "walk" /\ pc'["worker"] # "mark"
    BY <2>2 DEF Fresh, Nobody
  <2>6. file' = file /\ settings' = settings /\ made' = made /\ net' \in Network /\ up' \in BOOLEAN
    BY <1>15 DEF Crash, Start
  <2>7. TypeOK'
    BY <2>1, <2>3, <2>4, <2>5, <2>6
  <2>8. Bounded'
    BY <2>1, <2>4, <2>5, <2>6
  <2> QED BY <2>7, <2>8
<1>16. CASE UNCHANGED vars
  BY <1>16
<1> QED
  BY <1>1, <1>2, <1>3, <1>4, <1>5, <1>6, <1>7, <1>8, <1>9, <1>10, <1>11, <1>12, <1>13, <1>14, <1>15,
     <1>16 DEF Next

LEMMA ApartKept ==
  ASSUME TypeOK, Apart, [Next]_vars
  PROVE  Apart'
<1> USE DEF TypeOK, Apart, Thread, Goto, At, Begin, Other, Saving, Nobody
<1>1. CASE ProcessSample
  BY <1>1 DEF ProcessSample
<1>2. CASE Append1
  BY <1>2 DEF Append1
<1>3. CASE Mark
  BY <1>3 DEF Mark
<1>4. CASE EndSample
  BY <1>4 DEF EndSample
<1>5. CASE FlushIfNeeded
  BY <1>5 DEF FlushIfNeeded, Copy
<1>6. CASE Switch
  BY <1>6 DEF Switch
<1>7. CASE Relabel
  BY <1>7 DEF Relabel
<1>8. CASE Raise
  BY <1>8 DEF Raise
<1>9. CASE SaveSettings
  BY <1>9 DEF SaveSettings
<1>10. CASE ForceFlush
  BY <1>10 DEF ForceFlush, Copy
<1>11. ASSUME NEW t \in Thread, Cut(t) PROVE Apart'
  BY <1>11 DEF Cut
<1>12. ASSUME NEW t \in Thread, Put(t) PROVE Apart'
  BY <1>12 DEF Put
<1>13. ASSUME NEW t \in Thread, Reset(t) PROVE Apart'
  BY <1>13 DEF Reset
<1>14. CASE Wait
  BY <1>14 DEF Wait
<1>15. CASE Crash \/ Start
  BY <1>15 DEF Crash, Start, Fresh
<1>16. CASE UNCHANGED vars
  BY <1>16
<1> QED
  BY <1>1, <1>2, <1>3, <1>4, <1>5, <1>6, <1>7, <1>8, <1>9, <1>10, <1>11, <1>12, <1>13, <1>14, <1>15,
     <1>16 DEF Next

-----------------------------------------------------------------------------
(* The save.                                                                 *)

LEMMA SavedKept ==
  ASSUME TypeOK, Apart, Apart', Saved, [Next]_vars
  PROVE  Saved'
<1> SUFFICES ASSUME up', mixed' # "yes", NEW s \in Thread PROVE SaveInv(s)'
  BY DEF Saved
<1> USE DEF TypeOK, Apart, Saved, SaveInv, Thread, Goto, At, Begin, Other, Saving, Nobody
<1>1. CASE ProcessSample
  BY <1>1 DEF ProcessSample
<1>2. CASE Append1
  BY <1>2 DEF Append1
<1>3. CASE Mark
  BY <1>3 DEF Mark
<1>4. CASE EndSample
  BY <1>4 DEF EndSample
<1>5. CASE FlushIfNeeded
  BY <1>5 DEF FlushIfNeeded, Copy
<1>6. CASE Switch
  BY <1>6 DEF Switch
<1>7. CASE Relabel
  BY <1>7 DEF Relabel
<1>8. CASE Raise
  BY <1>8 DEF Raise
<1>9. CASE SaveSettings
  BY <1>9 DEF SaveSettings
<1>10. CASE ForceFlush
  BY <1>10 DEF ForceFlush, Copy
<1>11. ASSUME NEW t \in Thread, Cut(t) PROVE SaveInv(s)'
  BY <1>11 DEF Cut
<1>12. ASSUME NEW t \in Thread, Put(t) PROVE SaveInv(s)'
  BY <1>12 DEF Put
<1>13. ASSUME NEW t \in Thread, Reset(t) PROVE SaveInv(s)'
  BY <1>13 DEF Reset
<1>14. CASE Wait
  BY <1>14 DEF Wait
<1>15. CASE Crash \/ Start
  BY <1>15 DEF Crash, Start, Fresh
<1>16. CASE UNCHANGED vars
  BY <1>16
<1> QED
  BY <1>1, <1>2, <1>3, <1>4, <1>5, <1>6, <1>7, <1>8, <1>9, <1>10, <1>11, <1>12, <1>13, <1>14, <1>15,
     <1>16 DEF Next

-----------------------------------------------------------------------------
(* The count.                                                                *)

LEMMA KeptStays ==
  ASSUME NEW d \in Nat, Kept(d), log' = log, file' = file
  PROVE  Kept(d)'
BY DEF Kept, load

\* An event more in front of the log, and none more in the file: one more to count.
LEMMA KeptPushed ==
  ASSUME TypeOK, Bounded, NEW d \in Nat, Kept(d), NEW e \in Event, log' = AppendLeft(e), file' = file
  PROVE  Kept(d + 1)'
<1> DEFINE l == AppendLeft(e)
<1>1. /\ l \in Seq(Event) /\ Len(l) = IF Len(log) < MaxItems THEN Len(log) + 1 ELSE MaxItems
      /\ \A i \in 2 .. Len(l) : l[i] = log[i - 1]
  BY PushedLog DEF TypeOK, Bounded
<1>2. log \in Seq(Event) /\ Len(log) \in Nat /\ Len(log) <= MaxItems /\ MaxItems \in Nat
      /\ load \in Seq(Event) /\ Len(load) \in Nat
  BY LoadedLog, BookAssumption DEF TypeOK, Bounded
<1>3. load' = load
  BY DEF load
<1> HIDE DEF l
<1>4. d + 1 <= Len(l) \/ Len(l) = MaxItems
  BY <1>1, <1>2 DEF Kept
<1>5. ASSUME NEW i \in 1 .. Len(l) - (d + 1) PROVE i <= Len(load) /\ load[i] = l[d + 1 + i]
  <2>1. i \in 1 .. Len(log) - d /\ d + 1 + i \in 2 .. Len(l)
    BY <1>1, <1>2, <1>5
  <2>2. l[d + 1 + i] = log[d + i]
    BY <1>1, <2>1
  <2> QED BY <2>1, <2>2 DEF Kept
<1>6. Len(load) > Len(l) - (d + 1) => Len(l) = MaxItems
  BY <1>1, <1>2 DEF Kept
<1>7. log' = l
  BY DEF l
<1> QED
  BY <1>3, <1>4, <1>5, <1>6, <1>7 DEF Kept

LEMMA CountedKept ==
  ASSUME BookInv, TypeOK', Bounded', Apart', [Next]_vars
  PROVE  Counted'
<1> SUFFICES ASSUME up', mixed' = "no" PROVE WorkerInv'
  BY DEF Counted
<1> USE BookAssumption DEF BookInv, Saved, Counted, Apart, WorkerInv, Thread, Goto, At, Begin, Other, Nobody
<1>0. /\ pc \in [Thread -> {"idle", "append", "mark", "save", "walk", "raise", "cut", "put", "reset"}]
      /\ dirty \in Nat /\ log \in Seq(Event)
  BY DEF TypeOK
<1>1. CASE ProcessSample
  BY <1>0, <1>1, KeptStays DEF ProcessSample
<1>2. CASE Append1
  <2>1. Head(burst) \in Event
    BY <1>2 DEF Append1, TypeOK
  <2>2. Kept(dirty)
    BY <1>2 DEF Append1
  <2>3. log' = AppendLeft(Head(burst)) /\ file' = file /\ dirty' = dirty /\ pc'["worker"] = "mark"
    BY <1>0, <1>2 DEF Append1
  <2>4. Kept(dirty + 1)'
    BY <1>0, <2>1, <2>2, <2>3, KeptPushed
  <2>5. pc'["worker"] # "idle"
    BY <2>3
  <2> QED BY <2>3, <2>4, <2>5
<1>3. CASE Mark
  BY <1>0, <1>3, KeptStays DEF Mark, mark_dirty
<1>4. CASE EndSample
  BY <1>0, <1>4, KeptStays DEF EndSample
<1>5. CASE FlushIfNeeded
  BY <1>0, <1>5, KeptStays DEF FlushIfNeeded, Copy
<1>6. CASE Switch
  BY <1>0, <1>6, KeptStays DEF Switch
<1>7. CASE Relabel
  BY <1>0, <1>7 DEF Relabel
<1>8. CASE Raise
  BY <1>0, <1>8 DEF Raise
<1>9. CASE SaveSettings
  BY <1>0, <1>9 DEF SaveSettings
<1>10. CASE ForceFlush
  BY <1>0, <1>10 DEF ForceFlush, Copy
<1>11. ASSUME NEW t \in Thread, Cut(t) PROVE WorkerInv'
  BY <1>0, <1>11 DEF Cut
<1>12. ASSUME NEW t \in Thread, Put(t) PROVE WorkerInv'
  BY <1>0, <1>12 DEF Put
<1>13. ASSUME NEW t \in Thread, Reset(t) PROVE WorkerInv'
  <2>1. pc[t] = "reset" /\ pc' = [pc EXCEPT ![t] = "idle"]
        /\ log' = log /\ file' = file /\ dirty' = 0 /\ mixed # "yes" /\ up
    BY <1>0, <1>13 DEF Reset
  <2>2. file = log
    BY <2>1 DEF SaveInv, Saving
  <2>3. load' = log'
    BY <2>1, <2>2 DEF load, TypeOK
  <2>4. Kept(0)'
    BY <1>0, <2>1, <2>3 DEF Kept
  <2>5. pc[Other(t)] = "idle" /\ Other(t) # t
    BY <2>1
  <2> QED BY <1>0, <2>1, <2>4, <2>5
<1>14. CASE Wait
  BY <1>0, <1>14, KeptStays DEF Wait
<1>15. CASE Start
  <2>1. log' = load /\ file' = file /\ dirty' = 0 /\ pc' = Nobody /\ load \in Seq(Event)
    BY <1>15, LoadedLog DEF Start, Fresh
  <2>2. load' = log'
    BY <2>1 DEF load
  <2>3. Kept(0)'
    BY <2>1, <2>2 DEF Kept
  <2> QED BY <2>1, <2>3
<1>16. CASE Crash
  BY <1>16 DEF Crash
<1>17. CASE UNCHANGED vars
  BY <1>0, <1>17, KeptStays
<1> QED
  BY <1>1, <1>2, <1>3, <1>4, <1>5, <1>6, <1>7, <1>8, <1>9, <1>10, <1>11, <1>12, <1>13, <1>14, <1>15,
     <1>16, <1>17 DEF Next

-----------------------------------------------------------------------------
(* The theorems.                                                             *)

\* The inductive invariant.
THEOREM BookInvariant == Spec => []BookInv
<1>1. BookInv /\ [Next]_vars => BookInv'
  <2> SUFFICES ASSUME BookInv, [Next]_vars PROVE BookInv'
    OBVIOUS
  <2>1. TypeOK' /\ Bounded'
    BY TypesKept DEF BookInv
  <2>2. Apart'
    BY ApartKept DEF BookInv
  <2>3. Saved'
    BY <2>2, SavedKept DEF BookInv
  <2>4. Counted'
    BY <2>1, <2>2, CountedKept
  <2> QED BY <2>1, <2>2, <2>3, <2>4 DEF BookInv
<1> QED
  BY <1>1, InitInv, PTL DEF Spec

THEOREM TypeCorrect == Spec => []TypeOK
<1>1. BookInv => TypeOK
  BY DEF BookInv
<1> QED
  BY <1>1, BookInvariant, PTL

THEOREM BookKept == Spec => []BookIsKept
<1>1. BookInv => BookIsKept
  <2> SUFFICES ASSUME BookInv, up, pc = Nobody, mixed = "no"
               PROVE  /\ dirty < FlushEvery /\ dirty <= Len(log)
                      /\ LET kept == SubSeq(log, dirty + 1, Len(log)) IN
                           /\ Len(kept) <= Len(load) /\ kept = SubSeq(load, 1, Len(kept))
                           /\ Len(load) > Len(kept) => Len(log) = MaxItems
    BY DEF BookIsKept
  <2>1. Kept(dirty) /\ dirty < FlushEvery
    BY DEF BookInv, Counted, WorkerInv
  <2>2. log \in Seq(Event) /\ load \in Seq(Event) /\ dirty \in Nat /\ Len(log) \in Nat /\ Len(load) \in Nat
    BY LoadedLog DEF BookInv, TypeOK
  <2>3. dirty <= Len(log)
    BY <2>1, <2>2, BookAssumption DEF Kept
  <2> DEFINE kept == SubSeq(log, dirty + 1, Len(log))
  <2>4. kept \in Seq(Event) /\ Len(kept) = Len(log) - dirty
        /\ \A i \in 1 .. Len(log) - dirty : kept[i] = log[dirty + i]
    BY <2>2, <2>3
  <2> HIDE DEF kept
  <2>5. Len(kept) <= Len(load)
    BY <2>1, <2>2, <2>3, <2>4 DEF Kept
  <2>6. Len(load) > Len(kept) => Len(log) = MaxItems
    BY <2>1, <2>4 DEF Kept
  <2> DEFINE front == SubSeq(load, 1, Len(kept))
  <2>7. front \in Seq(Event) /\ Len(front) = Len(kept) /\ \A i \in 1 .. Len(kept) : front[i] = load[i]
    BY <2>2, <2>4, <2>5
  <2> HIDE DEF front
  <2>8. \A i \in 1 .. Len(kept) : kept[i] = front[i]
    BY <2>1, <2>4, <2>7 DEF Kept
  <2>9. kept = front
    BY <2>4, <2>7, <2>8
  <2> QED
    BY <2>1, <2>3, <2>5, <2>6, <2>9 DEF kept, front
<1> QED
  BY <1>1, BookInvariant, PTL
=============================================================================

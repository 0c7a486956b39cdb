---------------------------- MODULE ReaderProofs ----------------------------
(***************************************************************************)
(* Theorems about the two readers of the gateway, each of which undoes an  *)
(* escaping byte by byte.                                                  *)
(*                                                                         *)
(* HanReader, for every buffer size, every set of payloads and lines, and  *)
(* any number of faults: no index leaves its buffer, sequence numbers      *)
(* account for what was rejected, averages are those of the last readings, *)
(* a clean line delivers every frame that fits byte for byte, and a fault  *)
(* damages no other frame than the one it was in.                          *)
(*                                                                         *)
(* Protocol, for texts of any length: a command reaches the firmware as it *)
(* was typed, and the log without its secret.                              *)
(***************************************************************************)
EXTENDS HanReader, Protocol, FiniteSetTheorems, SequenceTheorems, WellFoundedInduction, TLAPS

\* What a step may append to a sequence.
LEMMA AppendFacts ==
  ASSUME NEW S, NEW q \in Seq(S), NEW e \in S
  PROVE  /\ Append(q, e) \in Seq(S)
         /\ Len(Append(q, e)) = Len(q) + 1
         /\ \A i \in DOMAIN Append(q, e) :
              Append(q, e)[i] = IF i = Len(q) + 1 THEN e ELSE q[i]
         /\ DOMAIN Append(q, e) = 1 .. (Len(q) + 1)
         /\ DOMAIN q = 1 .. Len(q)
  OBVIOUS

LEMMA FlipType == \A b \in Byte : Flip(b) \in Byte
  BY DEF Flip, Byte

LEMMA EmptyIsSeq == \A S : <<>> \in Seq(S) /\ Len(<<>>) = 0
  OBVIOUS

LEMMA BelowCount ==
  ASSUME NEW w \in Nat, NEW c \in 0 .. w, NEW i \in 0 .. c - 1
  PROVE  i \in 0 .. w - 1
  OBVIOUS

\* A snapshot of the history, and its numbers.
LEMMA EntryFacts ==
  ASSUME NEW q \in Seq(Snapshot), NEW i \in DOMAIN q
  PROVE  q[i] \in Snapshot /\ q[i].seq \in Nat /\ q[i].bad \in Nat
<1>1. q[i] \in Snapshot
  OBVIOUS
<1> QED BY <1>1 DEF Snapshot

\* The part of the state a snapshot changes.
RingTypes ==
  /\ s_window \in [0 .. Window - 1 -> [valid : BOOLEAN, of : Nat]]
  /\ s_window_head \in 0 .. Window - 1 /\ s_window_count \in 0 .. Window

CountTypes == s_seq \in Nat /\ s_frames_rx \in Nat /\ s_frames_bad \in Nat

\* The ring stays a ring.
LEMMA RollType ==
  ASSUME RingTypes, CountTypes, Roll
  PROVE  RingTypes'
<1>1. s_window_head' \in 0 .. Window - 1
  BY SizesAssumption DEF RingTypes, Roll
<1>2. s_window_count' \in 0 .. Window
  BY SizesAssumption DEF RingTypes, Roll
<1>3. [valid |-> TRUE, of |-> s_seq + 1] \in [valid : BOOLEAN, of : Nat]
  BY DEF CountTypes
<1>4. s_window' \in [0 .. Window - 1 -> [valid : BOOLEAN, of : Nat]]
  BY <1>3 DEF RingTypes, Roll
<1> QED BY <1>1, <1>2, <1>4 DEF RingTypes

\* A delivered snapshot keeps the types, whatever its bytes are.
LEMMA DeliverType ==
  ASSUME RingTypes, CountTypes, delivered \in Seq(Snapshot),
         NEW src \in {"hdlc", "text"}, NEW raw \in Seq(Byte), NEW values \in BOOLEAN,
         Deliver(src, raw, values)
  PROVE  /\ RingTypes' /\ delivered' \in Seq(Snapshot)
         /\ s_seq' \in Nat /\ s_frames_rx' \in Nat
<1>1. RingTypes'
  <2>1. CASE values BY <2>1, RollType DEF Deliver
  <2>2. CASE ~values BY <2>2 DEF Deliver, RingTypes, windowVars
  <2> QED BY <2>1, <2>2
<1>2. Samples(values) \in SUBSET Nat
  <2>1. \A i \in 0 .. Window - 1 : s_window'[i].of \in Nat
    BY <1>1 DEF RingTypes
  <2>2. s_window_count' \in 0 .. Window
    BY <1>1 DEF RingTypes
  <2>3. ASSUME NEW i \in 0 .. s_window_count' - 1 PROVE i \in 0 .. Window - 1
    BY <2>2, SizesAssumption, BelowCount
  <2> QED BY <2>1, <2>3 DEF Samples
<1>3. s_seq' \in Nat /\ s_frames_rx' \in Nat
  BY DEF Deliver, CountTypes
<1> DEFINE d == [seq |-> s_seq + 1, src |-> src, raw |-> raw, values |-> values,
                 samples |-> Samples(values), rx |-> s_frames_rx + 1, bad |-> s_frames_bad]
<1>4. d \in Snapshot
  BY <1>2 DEF CountTypes, Snapshot
<1>5. delivered' = Append(delivered, d)
  BY DEF Deliver
<1>6. delivered' \in Seq(Snapshot)
  BY <1>4, <1>5, AppendFacts
<1> QED BY <1>1, <1>3, <1>6

\* An invariant of the line buffer and the frame buffer.
BufferTypes ==
  /\ s_frame_started \in BOOLEAN /\ s_escape_next \in BOOLEAN
  /\ s_frame_buf \in Seq(Byte) /\ Len(s_frame_buf) <= FrameMax
  /\ line \in Seq(Printable) /\ Len(line) < LineMax

LEMMA TypeParts ==
  TypeOK <=> BufferTypes /\ RingTypes /\ CountTypes /\ delivered \in Seq(Snapshot)
  BY DEF TypeOK, BufferTypes, RingTypes, CountTypes

LEMMA PrintableIsByte == ASSUME NEW q \in Seq(Printable) PROVE q \in Seq(Byte)
<1>1. Printable \subseteq Byte BY DEF Printable, Byte
<1> QED BY <1>1

\* The raw bytes of an ASCII line that nothing else recognises.
LEMMA ClipType ==
  ASSUME NEW q \in Seq(Printable)
  PROVE  SubSeq(q, 1, IF Len(q) < FrameMax THEN Len(q) ELSE FrameMax) \in Seq(Byte)
<1> DEFINE n == IF Len(q) < FrameMax THEN Len(q) ELSE FrameMax
<1>1. q \in Seq(Byte) BY PrintableIsByte
<1>2. n \in Nat /\ n <= Len(q) BY SizesAssumption
<1> HIDE DEF n
<1>3. SubSeq(q, 1, n) \in Seq(Byte) BY <1>1, <1>2
<1> QED BY <1>3 DEF n

\* The invariant holds at power-up.
LEMMA InitType == Init => TypeOK
<1> SUFFICES ASSUME Init PROVE TypeOK OBVIOUS
<1>1. BufferTypes
  BY SizesAssumption, EmptyIsSeq DEF Init, BufferTypes
<1>2. RingTypes
  BY SizesAssumption DEF Init, RingTypes, NoReading
<1>3. CountTypes /\ delivered \in Seq(Snapshot)
  BY EmptyIsSeq DEF Init, CountTypes
<1> QED BY <1>1, <1>2, <1>3, TypeParts

\* Each step keeps the buffers.
LEMMA BufferStep == TypeOK /\ [Next]_vars => BufferTypes'
<1> SUFFICES ASSUME TypeOK, [Next]_vars PROVE BufferTypes'
  OBVIOUS
<1>0. BufferTypes
  BY TypeParts
<1>1. ASSUME UNCHANGED <<hdlcVars, line>> PROVE BufferTypes'
  BY <1>0, <1>1 DEF BufferTypes, hdlcVars
<1>2. CASE \E p \in Payloads : SendFrame(p)
  BY <1>1, <1>2 DEF SendFrame
<1>3. CASE \E l \in Typed : TypeLine(l)
  BY <1>1, <1>3 DEF TypeLine
<1>4. CASE Fault
  BY <1>1, <1>4 DEF Fault
<1>5. CASE ReadFlag
  <2>1. /\ s_frame_started' = TRUE /\ s_escape_next' = FALSE
        /\ s_frame_buf' = <<>> /\ UNCHANGED line
    BY <1>5 DEF ReadFlag
  <2>2. s_frame_started' \in BOOLEAN /\ s_escape_next' \in BOOLEAN
    BY <2>1, Zenon
  <2> QED BY <1>0, <2>1, <2>2, SizesAssumption, EmptyIsSeq DEF BufferTypes
<1>6. CASE ReadEscape
  <2>1. s_escape_next' = TRUE /\ UNCHANGED <<s_frame_started, s_frame_buf, line>>
    BY <1>6 DEF ReadEscape
  <2>2. s_escape_next' \in BOOLEAN
    BY <2>1, Zenon
  <2> QED BY <1>0, <2>1, <2>2 DEF BufferTypes
<1>7. ASSUME NEW b \in Byte, ReadData(b) PROVE BufferTypes'
  <2>1. s_escape_next' \in BOOLEAN /\ UNCHANGED line
    BY <1>7 DEF ReadData
  <2>2. CASE /\ Len(s_frame_buf) < FrameMax
             /\ s_frame_buf' = Append(s_frame_buf, IF s_escape_next THEN Flip(b) ELSE b)
             /\ UNCHANGED <<s_frame_started, s_frames_bad>>
    <3>1. (IF s_escape_next THEN Flip(b) ELSE b) \in Byte
      BY FlipType
    <3>2. s_frame_buf' \in Seq(Byte) /\ Len(s_frame_buf') = Len(s_frame_buf) + 1
      BY <1>0, <2>2, <3>1, AppendFacts DEF BufferTypes
    <3>3. Len(s_frame_buf') <= FrameMax
      BY <1>0, <2>2, <3>2, SizesAssumption DEF BufferTypes
    <3> QED BY <1>0, <2>1, <2>2, <3>2, <3>3 DEF BufferTypes
  <2>3. CASE s_frame_started' = FALSE /\ s_frame_buf' = <<>>
    <3>1. s_frame_started' \in BOOLEAN
      BY <2>3, Zenon
    <3>2. s_frame_buf' \in Seq(Byte) /\ Len(s_frame_buf') <= FrameMax
      BY <2>3, SizesAssumption, EmptyIsSeq
    <3> QED BY <1>0, <2>1, <3>1, <3>2 DEF BufferTypes
  <2> QED BY <1>7, <2>2, <2>3 DEF ReadData
<1>8. ASSUME NEW b \in Byte, ReadText(b) PROVE BufferTypes'
  <2>1. CASE b \in Printable /\ Len(line) + 1 < LineMax
    <3>1. line' = Append(line, b)
      BY <1>8, <2>1 DEF ReadText
    <3>2. line' \in Seq(Printable) /\ Len(line') = Len(line) + 1
      BY <1>0, <2>1, <3>1, AppendFacts DEF BufferTypes
    <3> QED BY <1>0, <1>8, <2>1, <3>2 DEF BufferTypes, ReadText, hdlcVars
  <2>2. CASE ~(b \in Printable /\ Len(line) + 1 < LineMax)
    <3>1. line' = <<>>
      BY <1>8, <2>2 DEF ReadText
    <3> QED BY <1>0, <1>8, <3>1, SizesAssumption, EmptyIsSeq DEF BufferTypes, ReadText, hdlcVars
  <2> QED BY <2>1, <2>2
<1>9. CASE ReadNewline
  BY <1>0, <1>9, SizesAssumption, EmptyIsSeq DEF ReadNewline, BufferTypes, hdlcVars
<1>10. CASE UNCHANGED vars
  BY <1>1, <1>10 DEF vars
<1> QED BY <1>2, <1>3, <1>4, <1>5, <1>6, <1>7, <1>8, <1>9, <1>10 DEF Next, Read

\* What a step does to the counters, the ring and the history: nothing, a delivery
\* of typed bytes, an overflow or a rejected line.
LEMMA Effects ==
  ASSUME TypeOK, [Next]_vars
  PROVE  \/ UNCHANGED <<countVars, windowVars, delivered>>
         \/ /\ \E src \in {"hdlc", "text"}, raw \in Seq(Byte), values \in BOOLEAN :
                 Deliver(src, raw, values)
            /\ UNCHANGED s_frames_bad
         \/ /\ s_frames_bad' = s_frames_bad + 1
            /\ UNCHANGED <<s_seq, s_frames_rx, windowVars, delivered>>
         \/ Reject
<1> USE DEF countVars, windowVars
<1>0. BufferTypes
  BY TypeParts
<1>1. CASE \E p \in Payloads : SendFrame(p)
  BY <1>1 DEF SendFrame
<1>2. CASE \E l \in Typed : TypeLine(l)
  BY <1>2 DEF TypeLine
<1>3. CASE Fault
  BY <1>3 DEF Fault
<1>4. CASE ReadFlag
  <2>1. s_frame_buf \in Seq(Byte) /\ (s_frame_buf \in Kaifa) \in BOOLEAN
    BY <1>0 DEF BufferTypes
  <2>2. CASE s_frame_started /\ s_frame_buf # <<>>
    <3>1. Deliver("hdlc", s_frame_buf, s_frame_buf \in Kaifa) /\ UNCHANGED s_frames_bad
      BY <1>4, <2>2 DEF ReadFlag
    <3> QED BY <2>1, <3>1
  <2>3. CASE ~(s_frame_started /\ s_frame_buf # <<>>)
    BY <1>4, <2>3 DEF ReadFlag
  <2> QED BY <2>2, <2>3
<1>5. CASE ReadEscape
  BY <1>5 DEF ReadEscape
<1>6. ASSUME NEW b \in Byte, ReadData(b)
      PROVE  \/ UNCHANGED <<countVars, windowVars, delivered>>
             \/ /\ s_frames_bad' = s_frames_bad + 1
                /\ UNCHANGED <<s_seq, s_frames_rx, windowVars, delivered>>
  BY <1>6 DEF ReadData
<1>7. ASSUME NEW b \in Byte, ReadText(b)
      PROVE  UNCHANGED <<countVars, windowVars, delivered>>
  BY <1>7 DEF ReadText
<1>8. CASE ReadNewline
  <2>1. CASE UNCHANGED <<countVars, windowVars, delivered>>
    BY <2>1
  <2>2. CASE /\ line \in DOMAIN Preformatted
             /\ Deliver("text", Preformatted[line], Preformatted[line] \in Kaifa)
             /\ UNCHANGED s_frames_bad
    <3>1. Preformatted[line] \in Seq(Byte) /\ (Preformatted[line] \in Kaifa) \in BOOLEAN
      BY <2>2, InputsAssumption
    <3> QED BY <2>2, <3>1
  <2>3. CASE Reject
    BY <2>3
  <2>4. CASE Deliver("text", <<>>, TRUE) /\ UNCHANGED s_frames_bad
    <3>1. <<>> \in Seq(Byte)
      OBVIOUS
    <3> QED BY <2>4, <3>1
  <2>5. CASE /\ Deliver("text", SubSeq(line, 1, IF Len(line) < FrameMax THEN Len(line) ELSE FrameMax), FALSE)
             /\ UNCHANGED s_frames_bad
    <3>1. SubSeq(line, 1, IF Len(line) < FrameMax THEN Len(line) ELSE FrameMax) \in Seq(Byte)
      BY <1>0, ClipType DEF BufferTypes
    <3> QED BY <2>5, <3>1
  <2> QED BY <1>8, <2>1, <2>2, <2>3, <2>4, <2>5 DEF ReadNewline
<1>9. CASE UNCHANGED vars
  BY <1>9 DEF vars
<1> QED BY <1>1, <1>2, <1>3, <1>4, <1>5, <1>6, <1>7, <1>8, <1>9 DEF Next, Read

LEMMA TypeStep == TypeOK /\ [Next]_vars => TypeOK'
<1> SUFFICES ASSUME TypeOK, [Next]_vars PROVE TypeOK'
  OBVIOUS
<1>1. RingTypes /\ CountTypes /\ delivered \in Seq(Snapshot)
  BY TypeParts
<1>2. BufferTypes'
  BY BufferStep
<1>3. RingTypes' /\ CountTypes' /\ (delivered \in Seq(Snapshot))'
  <2>1. CASE UNCHANGED <<countVars, windowVars, delivered>>
    BY <1>1, <2>1 DEF RingTypes, CountTypes, countVars, windowVars
  <2>2. ASSUME NEW src \in {"hdlc", "text"}, NEW raw \in Seq(Byte), NEW values \in BOOLEAN,
               Deliver(src, raw, values), UNCHANGED s_frames_bad
        PROVE  RingTypes' /\ CountTypes' /\ (delivered \in Seq(Snapshot))'
    BY <1>1, <2>2, DeliverType DEF CountTypes
  <2>3. CASE /\ s_frames_bad' = s_frames_bad + 1
             /\ UNCHANGED <<s_seq, s_frames_rx, windowVars, delivered>>
    BY <1>1, <2>3 DEF RingTypes, CountTypes, windowVars
  <2>4. CASE Reject
    BY <1>1, <2>4 DEF RingTypes, CountTypes, windowVars, Reject
  <2> QED BY <2>1, <2>2, <2>3, <2>4, Effects
<1> QED BY <1>2, <1>3 DEF TypeOK, BufferTypes, RingTypes, CountTypes

\* Every state is type correct, however long the reader runs: no byte of the meter
\* and no fault drives an index of han_reader.c or telemetry.c out of its buffer.
THEOREM TypeCorrect == Spec => []TypeOK
<1> QED BY InitType, TypeStep, PTL DEF Spec

-----------------------------------------------------------------------------
(* The accounting.  Beside GapsAreCounted, the last sequence number that was *)
(* delivered must not be ahead of s_seq.                                     *)

GapsInv ==
  /\ GapsAreCounted
  /\ \A i \in DOMAIN delivered : delivered[i].seq <= s_seq

LEMMA InitGaps == Init => GapsInv
<1> SUFFICES ASSUME Init PROVE GapsInv OBVIOUS
<1>1. delivered = <<>> /\ s_seq = 0 /\ s_frames_rx = 0 /\ s_frames_bad = 0
  BY DEF Init
<1>2. DOMAIN delivered = {} /\ Len(delivered) = 0
  BY <1>1
<1> QED BY <1>1, <1>2 DEF GapsInv, GapsAreCounted

\* A delivery is the last entry, one ahead of s_seq.
LEMMA DeliverGaps ==
  ASSUME TypeOK, GapsInv, UNCHANGED s_frames_bad,
         NEW src \in {"hdlc", "text"}, NEW raw \in Seq(Byte), NEW values \in BOOLEAN,
         Deliver(src, raw, values)
  PROVE  GapsInv'
<1>1. RingTypes /\ CountTypes /\ delivered \in Seq(Snapshot)
  BY TypeParts
<1>2. delivered' \in Seq(Snapshot)
  BY <1>1, DeliverType
<1> DEFINE n == Len(delivered)
<1>3. /\ s_seq' = s_seq + 1 /\ s_frames_rx' = n + 1
      /\ n \in Nat /\ s_seq \in Nat /\ s_frames_bad \in Nat
      /\ s_seq <= n + s_frames_bad
  BY <1>1 DEF Deliver, CountTypes, GapsInv, GapsAreCounted
<1>4. PICK d : /\ delivered' = Append(delivered, d)
               /\ d.seq = s_seq + 1 /\ d.rx = n + 1 /\ d.bad = s_frames_bad
  BY DEF Deliver, GapsInv, GapsAreCounted
<1>5. /\ DOMAIN delivered' = 1 .. n + 1 /\ Len(delivered') = n + 1
      /\ DOMAIN delivered = 1 .. n
      /\ delivered'[n + 1] = d
      /\ \A i \in 1 .. n : delivered'[i] = delivered[i]
  BY <1>1, <1>3, <1>4
<1>6. \A i \in 1 .. n : /\ delivered[i].rx = i /\ delivered[i].seq <= i + delivered[i].bad
                        /\ delivered[i].seq <= s_seq /\ delivered[i].seq \in Nat
  BY <1>1, <1>5, EntryFacts DEF GapsInv, GapsAreCounted
<1>7. ASSUME NEW i \in DOMAIN delivered'
      PROVE  /\ delivered'[i].rx = i /\ delivered'[i].seq <= i + delivered'[i].bad
             /\ delivered'[i].seq <= s_seq'
  <2>1. CASE i \in 1 .. n
    BY <1>3, <1>5, <1>6, <2>1
  <2>2. CASE i = n + 1
    BY <1>3, <1>4, <1>5, <2>2
  <2> QED BY <1>3, <1>5, <2>1, <2>2
<1>8. ASSUME NEW i \in DOMAIN delivered', NEW j \in DOMAIN delivered', i < j
      PROVE  delivered'[i].seq < delivered'[j].seq
  <2>1. CASE j \in 1 .. n
    <3>1. i \in DOMAIN delivered /\ j \in DOMAIN delivered
      BY <1>3, <1>5, <1>8, <2>1
    <3>2. delivered[i].seq < delivered[j].seq
      BY <1>8, <3>1 DEF GapsInv, GapsAreCounted
    <3> QED BY <1>5, <3>1, <3>2
  <2>2. CASE j = n + 1
    <3>1. i \in 1 .. n
      BY <1>3, <1>5, <1>8, <2>2
    <3> QED BY <1>3, <1>4, <1>5, <1>6, <2>2, <3>1
  <2> QED BY <1>3, <1>5, <2>1, <2>2
<1>9. s_frames_rx' = Len(delivered') /\ s_seq' <= s_frames_rx' + s_frames_bad'
  BY <1>3, <1>5
<1> QED BY <1>7, <1>8, <1>9 DEF GapsInv, GapsAreCounted

LEMMA StepGaps == TypeOK /\ GapsInv /\ [Next]_vars => GapsInv'
<1> SUFFICES ASSUME TypeOK, GapsInv, [Next]_vars PROVE GapsInv'
  OBVIOUS
<1>1. CountTypes /\ delivered \in Seq(Snapshot)
  BY TypeParts
<1>2. CASE UNCHANGED <<countVars, windowVars, delivered>>
  BY <1>2 DEF GapsInv, GapsAreCounted, countVars
<1>3. ASSUME NEW src \in {"hdlc", "text"}, NEW raw \in Seq(Byte), NEW values \in BOOLEAN,
             Deliver(src, raw, values), UNCHANGED s_frames_bad
      PROVE  GapsInv'
  BY <1>3, DeliverGaps
<1>4. ASSUME /\ s_frames_bad' = s_frames_bad + 1 /\ s_seq' \in {s_seq, s_seq + 1}
             /\ UNCHANGED <<s_frames_rx, delivered>>
      PROVE  GapsInv'
  <2>1. \A i \in DOMAIN delivered : delivered[i].seq \in Nat
    BY <1>1, EntryFacts
  <2>2. s_seq' <= s_frames_rx' + s_frames_bad' /\ s_seq <= s_seq'
    BY <1>1, <1>4 DEF CountTypes, GapsInv, GapsAreCounted
  <2>3. \A i \in DOMAIN delivered : delivered[i].seq <= s_seq'
    BY <1>1, <1>4, <2>1, <2>2 DEF CountTypes, GapsInv
  <2> QED BY <1>4, <2>2, <2>3 DEF GapsInv, GapsAreCounted
<1>5. CASE /\ s_frames_bad' = s_frames_bad + 1
           /\ UNCHANGED <<s_seq, s_frames_rx, windowVars, delivered>>
  BY <1>4, <1>5
<1>6. CASE Reject
  BY <1>4, <1>6 DEF Reject
<1> QED BY <1>2, <1>3, <1>5, <1>6, Effects

\* The sequence numbers of the snapshots rise, and every gap between them is
\* accounted for by a rejected line in frames_bad, over any run.
THEOREM GapsAccounted == Spec => []GapsAreCounted
<1>1. GapsInv => GapsAreCounted
  BY DEF GapsInv
<1> QED BY InitGaps, StepGaps, TypeCorrect, <1>1, PTL DEF Spec

-----------------------------------------------------------------------------
(* The averages.  How many readings the first i snapshots of a history hold. *)

CountIn(q, i) == Cardinality({k \in 1 .. i : q[k].values})

LEMMA CountType ==
  ASSUME NEW q, NEW i \in Nat
  PROVE  CountIn(q, i) \in Nat /\ IsFiniteSet({k \in 1 .. i : q[k].values})
<1>1. IsFiniteSet(1 .. i)
  BY FS_Interval
<1>2. {k \in 1 .. i : q[k].values} \subseteq 1 .. i
  OBVIOUS
<1>3. IsFiniteSet({k \in 1 .. i : q[k].values})
  BY <1>1, <1>2, FS_Subset
<1> QED BY <1>3, FS_CardinalityType DEF CountIn

LEMMA CountNat == ASSUME NEW q, NEW i \in Nat PROVE CountIn(q, i) \in Nat
BY CountType

LEMMA CountNext ==
  ASSUME NEW q, NEW i \in Nat
  PROVE  /\ q[i + 1].values => CountIn(q, i + 1) = CountIn(q, i) + 1
         /\ ~q[i + 1].values => CountIn(q, i + 1) = CountIn(q, i)
<1> DEFINE S == {k \in 1 .. i : q[k].values}
           T == {k \in 1 .. i + 1 : q[k].values}
<1>1. IsFiniteSet(S) /\ Cardinality(S) \in Nat
  BY CountType DEF CountIn
<1>2. i + 1 \notin S
  OBVIOUS
<1>3. CASE q[i + 1].values
  <2>1. T = S \cup {i + 1}
    BY <1>3
  <2>2. Cardinality(S \cup {i + 1}) = Cardinality(S) + 1
    BY <1>1, <1>2, FS_AddElement
  <2> QED BY <1>3, <2>1, <2>2 DEF CountIn
<1>4. CASE ~q[i + 1].values
  <2>1. T = S
    BY <1>4
  <2> QED BY <1>4, <2>1 DEF CountIn
<1> QED BY <1>3, <1>4

LEMMA CountRises ==
  ASSUME NEW q, NEW i \in Nat, NEW j \in 0 .. i
  PROVE  CountIn(q, j) <= CountIn(q, i)
<1>1. {k \in 1 .. j : q[k].values} \subseteq {k \in 1 .. i : q[k].values}
  OBVIOUS
<1> QED BY <1>1, CountType, FS_Subset DEF CountIn

LEMMA CountPositive ==
  ASSUME NEW q, NEW i \in Nat \ {0}, q[i].values
  PROVE  CountIn(q, i) >= 1
<1>1. PICK m \in Nat : i = m + 1
  <2>1. i - 1 \in Nat /\ i = (i - 1) + 1
    OBVIOUS
  <2> QED BY <2>1
<1>2. CountIn(q, m + 1) = CountIn(q, m) + 1
  BY <1>1, CountNext
<1>3. CountIn(q, m) \in Nat
  BY CountNat
<1> QED BY <1>1, <1>2, <1>3

LEMMA CountSame ==
  ASSUME NEW q, NEW r, NEW i \in Nat, \A k \in 1 .. i : q[k] = r[k]
  PROVE  CountIn(q, i) = CountIn(r, i)
<1>1. {k \in 1 .. i : q[k].values} = {k \in 1 .. i : r[k].values}
  OBVIOUS
<1> QED BY <1>1 DEF CountIn

LEMMA NthIsCount == ASSUME NEW i PROVE Nth(i) = CountIn(delivered, i)
BY DEF Nth, CountIn

-----------------------------------------------------------------------------
(* The ring.  A reading that a others have followed is a places behind the   *)
(* head; as long as a < Window it is there, and nothing else is.             *)

Total     == CountIn(delivered, Len(delivered))
Age(j)    == Total - CountIn(delivered, j)
Slot(h, a) == IF a < h THEN h - 1 - a ELSE h - 1 - a + Window

RingInv ==
  /\ Total < Window => s_window_head = Total /\ s_window_count = Total
  /\ Total >= Window => s_window_count = Window
  /\ \A j \in 1 .. Len(delivered) :
       delivered[j].values /\ Age(j) < Window =>
         s_window[Slot(s_window_head, Age(j))] = [valid |-> TRUE, of |-> delivered[j].seq]
  /\ \A k \in 0 .. s_window_count - 1 : \E j \in 1 .. Len(delivered) :
       delivered[j].values /\ Age(j) < Window /\ k = Slot(s_window_head, Age(j))

\* The readings in the ring are the last ones, as many as there are up to Window.
RingHoldsLast ==
  {s_window[i].of : i \in {j \in 0 .. s_window_count - 1 : s_window[j].valid}}
    = {delivered[j].seq : j \in {k \in 1 .. Len(delivered) : delivered[k].values /\ Age(k) < Window}}

LEMMA RingIsRecent == TypeOK /\ RingInv => RingHoldsLast
<1> SUFFICES ASSUME TypeOK, RingInv PROVE RingHoldsLast
  OBVIOUS
<1> DEFINE R == {j \in 0 .. s_window_count - 1 : s_window[j].valid}
           D == {k \in 1 .. Len(delivered) : delivered[k].values /\ Age(k) < Window}
<1>0. /\ delivered \in Seq(Snapshot) /\ Len(delivered) \in Nat /\ Window \in Nat \ {0}
      /\ s_window_head \in 0 .. Window - 1 /\ s_window_count \in 0 .. Window /\ Total \in Nat
  <2>1. /\ delivered \in Seq(Snapshot) /\ Len(delivered) \in Nat /\ Window \in Nat \ {0}
        /\ s_window_head \in 0 .. Window - 1 /\ s_window_count \in 0 .. Window
    BY SizesAssumption DEF TypeOK
  <2>2. Total \in Nat
    BY <2>1, CountNat DEF Total
  <2> QED BY <2>1, <2>2
<1>1. ASSUME NEW j \in D
      PROVE  /\ Slot(s_window_head, Age(j)) \in R
             /\ s_window[Slot(s_window_head, Age(j))].of = delivered[j].seq
  <2>1. s_window[Slot(s_window_head, Age(j))] = [valid |-> TRUE, of |-> delivered[j].seq]
    BY DEF RingInv
  <2>2. CountIn(delivered, j) \in Nat /\ CountIn(delivered, j) <= Total /\ CountIn(delivered, j) >= 1
    <3>1. j \in Nat /\ j \in Nat \ {0} /\ j \in 0 .. Len(delivered) /\ delivered[j].values
      BY <1>0
    <3>2. CountIn(delivered, j) \in Nat
      BY <3>1, CountNat
    <3>3. CountIn(delivered, j) <= Total
      BY <1>0, <3>1, CountRises DEF Total
    <3>4. CountIn(delivered, j) >= 1
      BY <3>1, CountPositive
    <3> QED BY <3>2, <3>3, <3>4
  <2>3. Age(j) \in 0 .. Window - 1 /\ Age(j) < Total
    BY <1>0, <2>2 DEF Age
  <2>4. Slot(s_window_head, Age(j)) \in 0 .. s_window_count - 1
    BY <1>0, <2>3, SMTT(30) DEF Slot, RingInv
  <2> QED BY <2>1, <2>4
<1>2. ASSUME NEW k \in R
      PROVE  \E j \in D : s_window[k].of = delivered[j].seq
  <2>1. PICK j \in 1 .. Len(delivered) :
          delivered[j].values /\ Age(j) < Window /\ k = Slot(s_window_head, Age(j))
    BY DEF RingInv
  <2>2. j \in D
    BY <2>1
  <2> QED BY <1>1, <2>1, <2>2
<1> HIDE DEF R, D
<1>3. {s_window[i].of : i \in R} = {delivered[j].seq : j \in D}
  BY <1>1, <1>2
<1> QED BY <1>3 DEF R, D, RingHoldsLast

LEMMA RingIsRecentNext == TypeOK' /\ RingInv' => RingHoldsLast'
BY RingIsRecent, PTL

\* How places and ages change when the head moves on.
LEMMA SlotMoves ==
  ASSUME NEW w \in Nat \ {0}, w = Window, NEW h \in 0 .. w - 1, NEW g, g = IF h + 1 = w THEN 0 ELSE h + 1
  PROVE  /\ Slot(g, 0) = h
         /\ \A a \in 0 .. w - 2 : Slot(g, a + 1) = Slot(h, a) /\ Slot(h, a) \in 0 .. w - 1 /\ Slot(h, a) # h
         /\ Slot(h, w - 1) = h
BY DEF Slot

LEMMA InitRing == Init => RingInv
<1> SUFFICES ASSUME Init PROVE RingInv
  OBVIOUS
<1>1. delivered = <<>> /\ Len(delivered) = 0 /\ s_window_head = 0 /\ s_window_count = 0
  BY DEF Init
<1>2. {k \in 1 .. 0 : delivered[k].values} = {}
  OBVIOUS
<1>3. Total = 0
  BY <1>1, <1>2, FS_EmptySet DEF Total, CountIn
<1> QED BY <1>1, <1>3, SizesAssumption DEF RingInv

\* A snapshot with values takes the place of the oldest reading, one without values
\* changes nothing.
LEMMA DeliverRing ==
  ASSUME TypeOK, RingInv,
         NEW src \in {"hdlc", "text"}, NEW raw \in Seq(Byte), NEW values \in BOOLEAN,
         Deliver(src, raw, values)
  PROVE  RingInv'
<1>9. PICK n \in Nat : n = Len(delivered)
  BY DEF TypeOK
<1>0. /\ delivered \in Seq(Snapshot) /\ n \in Nat /\ n = Len(delivered) /\ Window \in Nat \ {0}
      /\ s_window_head \in 0 .. Window - 1 /\ s_window_count \in 0 .. Window /\ s_seq \in Nat
  BY <1>9, SizesAssumption DEF TypeOK
<1>1. PICK d : delivered' = Append(delivered, d) /\ d.values = values /\ d.seq = s_seq + 1
  BY DEF Deliver
<1>2. /\ Len(delivered') = n + 1 /\ delivered'[n + 1] = d
      /\ \A i \in 1 .. n : delivered'[i] = delivered[i]
  BY <1>0, <1>1
<1>3. Total \in Nat /\ \A j \in 1 .. n : CountIn(delivered, j) \in Nat /\ CountIn(delivered, j) <= Total
  <2>1. Total \in Nat
    BY <1>0, CountNat DEF Total
  <2>2. ASSUME NEW j \in 1 .. n PROVE CountIn(delivered, j) \in Nat /\ CountIn(delivered, j) <= Total
    BY <1>0, CountNat, CountRises DEF Total
  <2> QED BY <2>1, <2>2
<1>4. \A j \in 1 .. n : CountIn(delivered', j) = CountIn(delivered, j)
  <2> SUFFICES ASSUME NEW j \in 1 .. n PROVE CountIn(delivered', j) = CountIn(delivered, j)
    OBVIOUS
  <2>1. \A k \in 1 .. j : delivered'[k] = delivered[k]
    BY <1>0, <1>2
  <2> QED BY <1>0, <2>1, CountSame
<1>5. CountIn(delivered', n) = Total
  BY <1>0, <1>2, CountSame DEF Total
<1>6. CASE values
  <2>1. Total' = Total + 1 /\ CountIn(delivered', n + 1) = Total'
    <3>1. CountIn(delivered', n + 1) = CountIn(delivered', n) + 1
      BY <1>0, <1>1, <1>2, <1>6, CountNext
    <3> QED BY <1>2, <1>5, <3>1 DEF Total
  <2>2. \A j \in 1 .. n : Age(j)' = Age(j) + 1 /\ Age(j) \in Nat
    BY <1>3, <1>4, <2>1 DEF Age
  <2>3. Age(n + 1)' = 0
    BY <1>3, <2>1 DEF Age
  <2>4. Roll
    BY <1>6 DEF Deliver
  <2>5. s_window_head' = IF s_window_head + 1 = Window THEN 0 ELSE s_window_head + 1
    BY <1>0, <2>4 DEF Roll
  <2>6. s_window_count' = IF s_window_count < Window THEN s_window_count + 1 ELSE s_window_count
    BY <2>4 DEF Roll
  <2>7. /\ s_window'[s_window_head] = [valid |-> TRUE, of |-> s_seq + 1]
        /\ \A k \in 0 .. Window - 1 : k # s_window_head => s_window'[k] = s_window[k]
    BY <1>0, <2>4 DEF Roll, TypeOK
  <2> DEFINE h == s_window_head
             g == s_window_head'
  <2>8. /\ Slot(g, 0) = h
        /\ \A a \in 0 .. Window - 2 :
             Slot(g, a + 1) = Slot(h, a) /\ Slot(h, a) \in 0 .. Window - 1 /\ Slot(h, a) # h
        /\ Slot(h, Window - 1) = h
    BY <1>0, <2>5, SlotMoves
  <2>9. /\ Total' < Window => s_window_head' = Total' /\ s_window_count' = Total'
        /\ Total' >= Window => s_window_count' = Window
    BY <1>0, <1>3, <2>1, <2>5, <2>6 DEF RingInv
  <2> HIDE DEF h, g
  <2>10. ASSUME NEW j \in 1 .. n + 1, delivered'[j].values, Age(j)' < Window
         PROVE  s_window'[Slot(g, Age(j)')] = [valid |-> TRUE, of |-> delivered'[j].seq]
    <3>1. CASE j = n + 1
      BY <1>1, <1>2, <2>3, <2>7, <2>8, <3>1 DEF h
    <3>2. CASE j \in 1 .. n
      <4>1. Age(j) \in 0 .. Window - 2 /\ Age(j)' = Age(j) + 1
        BY <1>0, <2>2, <2>10, <3>2
      <4>2. s_window[Slot(h, Age(j))] = [valid |-> TRUE, of |-> delivered[j].seq]
        BY <1>0, <1>2, <2>10, <3>2, <4>1 DEF RingInv, h
      <4>3. Slot(g, Age(j)') = Slot(h, Age(j)) /\ Slot(h, Age(j)) \in 0 .. Window - 1 /\ Slot(h, Age(j)) # h
        BY <2>8, <4>1
      <4> QED BY <1>2, <2>7, <3>2, <4>2, <4>3 DEF h
    <3> QED BY <1>0, <3>1, <3>2
  <2>11. ASSUME NEW k \in 0 .. s_window_count' - 1
         PROVE  \E j \in 1 .. n + 1 : delivered'[j].values /\ Age(j)' < Window /\ k = Slot(g, Age(j)')
    <3>1. CASE k = h
      <4>0. delivered'[n + 1].values
        BY <1>1, <1>2, <1>6, Zenon
      <4>1. n + 1 \in 1 .. n + 1 /\ delivered'[n + 1].values
        BY <1>0, <4>0
      <4>2. Age(n + 1)' < Window
        BY <1>0, <2>3
      <4>3. k = Slot(g, Age(n + 1)')
        BY <2>3, <2>8, <3>1
      <4> QED BY <4>1, <4>2, <4>3
    <3>2. CASE k # h
      <4>1. k \in 0 .. s_window_count - 1
        BY <1>0, <1>3, <2>6, <2>11, <3>2 DEF h, RingInv
      <4>2. PICK j \in 1 .. n : delivered[j].values /\ Age(j) < Window /\ k = Slot(h, Age(j))
        BY <1>0, <4>1 DEF RingInv, h
      <4>3. Age(j) \in 0 .. Window - 2
        <5>1. Age(j) # Window - 1
          BY <2>8, <3>2, <4>2
        <5> QED BY <1>0, <2>2, <4>2, <5>1
      <4>4. Age(j)' < Window /\ k = Slot(g, Age(j)')
        BY <1>0, <2>2, <2>8, <4>2, <4>3
      <4>5. j \in 1 .. n + 1 /\ delivered'[j].values
        BY <1>0, <1>2, <4>2
      <4> QED BY <4>4, <4>5
    <3> QED BY <3>1, <3>2
  <2> QED
    BY <1>0, <1>2, <2>9, <2>10, <2>11 DEF RingInv, g
<1>7. CASE ~values
  <2>1. Total' = Total /\ CountIn(delivered', n + 1) = Total
    <3>1. CountIn(delivered', n + 1) = CountIn(delivered', n)
      BY <1>0, <1>1, <1>2, <1>7, CountNext
    <3> QED BY <1>2, <1>5, <3>1 DEF Total
  <2>2. \A j \in 1 .. n : Age(j)' = Age(j)
    BY <1>4, <2>1 DEF Age
  <2>3. s_window' = s_window /\ s_window_head' = s_window_head /\ s_window_count' = s_window_count
    BY <1>7 DEF Deliver, windowVars
  <2>4. ~delivered'[n + 1].values
    BY <1>1, <1>2, <1>7
  <2>5. ASSUME NEW j \in 1 .. n + 1, delivered'[j].values, Age(j)' < Window
        PROVE  s_window'[Slot(s_window_head', Age(j)')] = [valid |-> TRUE, of |-> delivered'[j].seq]
    <3>1. j \in 1 .. n
      BY <1>0, <2>4, <2>5
    <3>2. delivered[j].values /\ Age(j) < Window /\ j \in 1 .. Len(delivered)
      BY <1>0, <1>2, <2>2, <2>5, <3>1
    <3>3. s_window[Slot(s_window_head, Age(j))] = [valid |-> TRUE, of |-> delivered[j].seq]
      BY <3>2 DEF RingInv
    <3> QED BY <1>2, <2>2, <2>3, <3>1, <3>3
  <2>6. ASSUME NEW k \in 0 .. s_window_count' - 1
        PROVE  \E j \in 1 .. n + 1 :
                 delivered'[j].values /\ Age(j)' < Window /\ k = Slot(s_window_head', Age(j)')
    <3>1. PICK j \in 1 .. n : delivered[j].values /\ Age(j) < Window /\ k = Slot(s_window_head, Age(j))
      BY <1>0, <2>3, <2>6 DEF RingInv
    <3>2. j \in 1 .. n + 1 /\ delivered'[j].values /\ Age(j)' < Window /\ k = Slot(s_window_head', Age(j)')
      BY <1>0, <1>2, <2>2, <2>3, <3>1
    <3> QED BY <3>2
  <2> QED
    BY <1>0, <1>2, <2>1, <2>3, <2>5, <2>6 DEF RingInv
<1> QED BY <1>6, <1>7

-----------------------------------------------------------------------------

AveragesInv == RingInv /\ AveragesAreRecent

\* The new snapshot's averages are those of the ring; the older ones stay as they are.
LEMMA DeliverAverages ==
  ASSUME TypeOK, TypeOK', RingInv', AveragesAreRecent,
         NEW src \in {"hdlc", "text"}, NEW raw \in Seq(Byte), NEW values \in BOOLEAN,
         Deliver(src, raw, values)
  PROVE  AveragesAreRecent'
<1>9. PICK n \in Nat : n = Len(delivered)
  BY DEF TypeOK
<1>0. delivered \in Seq(Snapshot) /\ delivered' \in Seq(Snapshot)
  BY DEF TypeOK
<1>1. PICK d : /\ delivered' = Append(delivered, d) /\ d.values = values
               /\ d.samples = Samples(values)
  BY DEF Deliver
<1>2. /\ Len(delivered') = n + 1 /\ delivered'[n + 1] = d
      /\ \A i \in 1 .. n : delivered'[i] = delivered[i]
  BY <1>0, <1>1, <1>9
<1>3. \A j \in 1 .. n : CountIn(delivered', j) = CountIn(delivered, j)
  <2> SUFFICES ASSUME NEW j \in 1 .. n PROVE CountIn(delivered', j) = CountIn(delivered, j)
    OBVIOUS
  <2>1. \A k \in 1 .. j : delivered'[k] = delivered[k]
    BY <1>2
  <2> QED BY <2>1, CountSame
<1> DEFINE LastSeqs(q, i) == {q[j].seq : j \in {k \in 1 .. i : q[k].values /\ CountIn(q, i) - CountIn(q, k) < Window}}
<1>4. ASSUME NEW i \in 1 .. n, delivered'[i].values
      PROVE  delivered'[i].samples = LastSeqs(delivered', i)
  <2>1. i \in DOMAIN delivered /\ delivered'[i] = delivered[i]
    BY <1>0, <1>2, <1>9
  <2>2. delivered[i].samples = LastSeqs(delivered, i)
    BY <1>4, <2>1, NthIsCount DEF AveragesAreRecent
  <2>3. \A k \in 1 .. i : k \in 1 .. n
    OBVIOUS
  <2>4. LastSeqs(delivered', i) = LastSeqs(delivered, i)
    <3>1. {k \in 1 .. i : delivered'[k].values /\ CountIn(delivered', i) - CountIn(delivered', k) < Window}
            = {k \in 1 .. i : delivered[k].values /\ CountIn(delivered, i) - CountIn(delivered, k) < Window}
      BY <1>2, <1>3, <2>3
    <3> QED BY <1>2, <2>3, <3>1
  <2> QED BY <2>1, <2>2, <2>4
<1>5. ASSUME delivered'[n + 1].values
      PROVE  delivered'[n + 1].samples = LastSeqs(delivered', n + 1)
  <2>1. delivered'[n + 1].samples = Samples(TRUE)
    BY <1>1, <1>2, <1>5
  <2>2. Samples(TRUE) = {s_window'[i].of : i \in {j \in 0 .. s_window_count' - 1 : s_window'[j].valid}}
    BY DEF Samples
  <2>3. Samples(TRUE) = {delivered'[j].seq : j \in {k \in 1 .. n + 1 : delivered'[k].values /\ Age(k)' < Window}}
    BY <1>2, <2>2, RingIsRecentNext DEF RingHoldsLast
  <2>4. \A k : Age(k)' = CountIn(delivered', n + 1) - CountIn(delivered', k)
    BY <1>2 DEF Age, Total
  <2> QED BY <2>1, <2>3, <2>4
<1> HIDE DEF LastSeqs
<1>6. ASSUME NEW i \in DOMAIN delivered', delivered'[i].values
      PROVE  delivered'[i].samples = LastSeqs(delivered', i)
  <2>1. i \in 1 .. n \/ i = n + 1
    BY <1>0, <1>2
  <2> QED BY <1>4, <1>5, <1>6, <2>1
<1> QED
  BY <1>6 DEF AveragesAreRecent, LastSeqs, Nth, CountIn

LEMMA AveragesStep == TypeOK /\ TypeOK' /\ AveragesInv /\ [Next]_vars => AveragesInv'
<1> SUFFICES ASSUME TypeOK, TypeOK', AveragesInv, [Next]_vars PROVE AveragesInv'
  OBVIOUS
<1>1. CASE UNCHANGED <<windowVars, delivered>>
  <2>1. RingInv'
    BY <1>1 DEF AveragesInv, RingInv, Total, Age, windowVars
  <2>2. AveragesAreRecent'
    BY <1>1 DEF AveragesInv, AveragesAreRecent, Nth
  <2> QED BY <2>1, <2>2 DEF AveragesInv
<1>2. ASSUME NEW src \in {"hdlc", "text"}, NEW raw \in Seq(Byte), NEW values \in BOOLEAN,
             Deliver(src, raw, values)
      PROVE  AveragesInv'
  <2>1. RingInv'
    BY <1>2, DeliverRing DEF AveragesInv
  <2>2. AveragesAreRecent'
    BY <1>2, <2>1, DeliverAverages DEF AveragesInv
  <2> QED BY <2>1, <2>2 DEF AveragesInv
<1> QED BY <1>1, <1>2, Effects DEF Reject

\* Each snapshot's rolling averages are those of the last readings, for any size of the
\* window, any mixture of frames and lines and any faults: what cannot be parsed does not
\* push a reading out of the ring.
THEOREM AveragesRecent == Spec => []AveragesAreRecent
<1>1. Init => AveragesInv
  <2> SUFFICES ASSUME Init PROVE AveragesAreRecent
    BY InitRing DEF AveragesInv
  <2>1. DOMAIN delivered = {}
    BY DEF Init
  <2> QED BY <2>1 DEF AveragesAreRecent
<1>2. AveragesInv => AveragesAreRecent
  BY DEF AveragesInv
<1> QED BY <1>1, <1>2, AveragesStep, TypeCorrect, PTL DEF Spec

-----------------------------------------------------------------------------
(* What the recursive definitions compute is found by                       *)
(* induction, from the least element of a set of naturals.                  *)

LEMMA NatWellFounded ==
  \E R : IsWellFoundedOn(R, Nat) /\ \A m, n \in Nat : m < n => <<m, n>> \in R
<1>1. IsWellFoundedOn(OpToRel(<, Nat), Nat)
  BY NatLessThanWellFounded, Zenon
<1>2. \A m, n \in Nat : m < n => <<m, n>> \in OpToRel(<, Nat)
  BY Zenon DEF OpToRel
<1> QED BY <1>1, <1>2, Zenon

LEMMA Least ==
  ASSUME NEW T, T \subseteq Nat, T # {}
  PROVE  \E n \in T : \A m \in T : n <= m
<1>1. PICK R : IsWellFoundedOn(R, Nat) /\ \A m, n \in Nat : m < n => <<m, n>> \in R
  BY NatWellFounded
<1>2. \E n \in T : \A m \in T : ~ (<<m, n>> \in R)
  BY <1>1, WFMin, ZenonT(30)
<1>3. \A m, n \in Nat : m < n => <<m, n>> \in R
  BY <1>1
<1>4. PICK n \in T : \A m \in T : ~ (<<m, n>> \in R)
  BY <1>2
<1>5. \A m \in T : ~ (m < n)
  BY <1>3, <1>4
<1> QED  BY <1>4, <1>5

\* Whatever holds of the empty sequence and of one more element holds of all sequences.
LEMMA SequenceInduction ==
  ASSUME NEW S, NEW T, T \subseteq Seq(S), <<>> \in T, \A q \in T : \A c \in S : Append(q, c) \in T
  PROVE  T = Seq(S)
<1> SUFFICES ASSUME Seq(S) \ T # {} PROVE FALSE
  OBVIOUS
<1> DEFINE Lengths == {Len(q) : q \in Seq(S) \ T}
<1>1. Lengths \subseteq Nat /\ Lengths # {}
  <2>1. \A q \in Seq(S) : Len(q) \in Nat
    BY LenProperties
  <2> QED BY <2>1
<1>2. PICK n \in Lengths : \A m \in Lengths : n <= m
  BY <1>1, Least
<1>3. PICK q \in Seq(S) \ T : n = Len(q)
  BY <1>2
<1>4. PICK g \in Seq(S), c \in S : q = Append(g, c)
  BY <1>3, SequenceEmptyOrAppend
<1>5. Len(g) \in Nat /\ Len(q) = Len(g) + 1
  BY <1>4, AppendProperties, LenProperties
<1>6. ~ (n <= Len(g))
  BY <1>3, <1>5
<1>7. g \in T
  BY <1>2, <1>6
<1> QED BY <1>3, <1>4, <1>7

\* FlattenSeq, unfolded once.
Flat(f, ss, n) == f = [i \in 1 .. n |-> IF i = 1 THEN ss[i] ELSE f[i - 1] \o ss[i]]

LEMMA FlatExists == ASSUME NEW ss, NEW n \in Nat PROVE \E f : Flat(f, ss, n)
<1> DEFINE T == {m \in Nat : ~ \E f : Flat(f, ss, m)}
<1> SUFFICES ASSUME T # {} PROVE FALSE
  OBVIOUS
<1>1. PICK m \in T : \A k \in T : m <= k
  BY Least
<1>2. m \in Nat /\ ~ \E f : Flat(f, ss, m)
  BY <1>1
<1>3. CASE m = 0
  <2>1. Flat([i \in 1 .. 0 |-> 0], ss, 0)
    BY DEF Flat
  <2> QED BY <1>2, <1>3, <2>1
<1>4. CASE m # 0
  <2>1. PICK f : Flat(f, ss, m - 1)
    <3>1. m - 1 \in Nat /\ m - 1 \notin T
      BY <1>1, <1>2, <1>4
    <3> QED BY <3>1
  <2> DEFINE g == [i \in 1 .. m |-> IF i = m THEN IF m = 1 THEN ss[m] ELSE f[m - 1] \o ss[m] ELSE f[i]]
  <2>2. ASSUME NEW i \in 1 .. m
        PROVE  g[i] = IF i = 1 THEN ss[i] ELSE g[i - 1] \o ss[i]
    <3>1. CASE i = m
      BY <1>2, <1>4, <3>1
    <3>2. CASE i # m
      <4>1. i \in 1 .. m - 1 /\ (i # 1 => i - 1 \in 1 .. m - 1)
        BY <1>2, <3>2
      <4>2. f[i] = IF i = 1 THEN ss[i] ELSE f[i - 1] \o ss[i]
        BY <2>1, <4>1 DEF Flat
      <4>3. g[i] = f[i] /\ (i # 1 => g[i - 1] = f[i - 1])
        BY <1>2, <3>2, <4>1
      <4> QED BY <4>2, <4>3
    <3> QED BY <3>1, <3>2
  <2>3. g = [i \in 1 .. m |-> g[i]]
    OBVIOUS
  <2> HIDE DEF g
  <2>4. Flat(g, ss, m)
    BY <2>2, <2>3 DEF Flat
  <2> QED BY <1>2, <2>4
<1> QED BY <1>3, <1>4

LEMMA FlatOf ==
  ASSUME NEW S, NEW ss \in Seq(S), ss # <<>>
  PROVE  \E f : Flat(f, ss, Len(ss)) /\ FlattenSeq(ss) = f[Len(ss)]
<1>1. Len(ss) \in Nat /\ Len(ss) # 0
  OBVIOUS
<1>2. FlattenSeq(ss) = (CHOOSE f : Flat(f, ss, Len(ss)))[Len(ss)]
  BY <1>1 DEF FlattenSeq, Flat
<1>3. Flat(CHOOSE f : Flat(f, ss, Len(ss)), ss, Len(ss))
  BY <1>1, FlatExists
<1> QED BY <1>2, <1>3

\* Sequences that begin alike are flattened alike.
LEMMA FlatAgree ==
  ASSUME NEW n \in Nat, NEW ss, NEW tt, NEW f, NEW g
  PROVE  Flat(f, ss, n) /\ Flat(g, tt, n + 1) /\ (\A i \in 1 .. n : tt[i] = ss[i])
           => \A i \in 1 .. n : g[i] = f[i]
<1> DEFINE T == {i \in 1 .. n : g[i] # f[i]}
<1> SUFFICES ASSUME Flat(f, ss, n), Flat(g, tt, n + 1), \A i \in 1 .. n : tt[i] = ss[i], T # {}
             PROVE  FALSE
  OBVIOUS
<1>1. PICK i \in T : \A k \in T : i <= k
  <2>1. T \subseteq Nat
    OBVIOUS
  <2> QED BY <2>1, Least
<1>2. i \in 1 .. n /\ i \in 1 .. n + 1
  BY <1>1
<1>3. f[i] = (IF i = 1 THEN ss[i] ELSE f[i - 1] \o ss[i]) /\ g[i] = (IF i = 1 THEN tt[i] ELSE g[i - 1] \o tt[i])
  BY <1>2 DEF Flat
<1>4. i # 1 => i - 1 \in 1 .. n /\ i - 1 \notin T
  BY <1>1, <1>2
<1> QED BY <1>1, <1>2, <1>3, <1>4

\* Flattening is done from left to right.
LEMMA FlattenAppend ==
  ASSUME NEW S, NEW ss \in Seq(Seq(S)), NEW s \in Seq(S)
  PROVE  FlattenSeq(Append(ss, s)) = IF ss = <<>> THEN s ELSE FlattenSeq(ss) \o s
<1>1. PICK n \in Nat : n = Len(ss)
  OBVIOUS
<1>2. PICK tt \in Seq(Seq(S)) : tt = Append(ss, s)
  BY AppendProperties
<1>3. Len(tt) = n + 1 /\ tt # <<>> /\ tt[n + 1] = s /\ \A i \in 1 .. n : tt[i] = ss[i]
  BY <1>1, <1>2, AppendProperties
<1>4. PICK g : Flat(g, tt, n + 1) /\ FlattenSeq(tt) = g[n + 1]
  BY <1>3, FlatOf
<1>5. g[n + 1] = IF n = 0 THEN tt[n + 1] ELSE g[n] \o tt[n + 1]
  <2>1. n + 1 \in 1 .. n + 1 /\ (n + 1 = 1 <=> n = 0) /\ (n + 1) - 1 = n
    OBVIOUS
  <2>2. g[n + 1] = IF n + 1 = 1 THEN tt[n + 1] ELSE g[(n + 1) - 1] \o tt[n + 1]
    BY <1>4, <2>1 DEF Flat
  <2> QED BY <2>1, <2>2
<1>6. CASE ss = <<>>
  BY <1>1, <1>2, <1>3, <1>4, <1>5, <1>6
<1>7. CASE ss # <<>>
  <2>1. PICK f : Flat(f, ss, n) /\ FlattenSeq(ss) = f[n]
    BY <1>1, <1>7, FlatOf
  <2>2. n # 0
    BY <1>1, <1>7
  <2>3. g[n] = f[n]
    <3>1. \A i \in 1 .. n : g[i] = f[i]
      <4>1. Flat(f, ss, n) /\ Flat(g, tt, n + 1) /\ \A i \in 1 .. n : tt[i] = ss[i]
        BY <1>3, <1>4, <2>1
      <4>2. Flat(f, ss, n) /\ Flat(g, tt, n + 1) /\ (\A i \in 1 .. n : tt[i] = ss[i])
              => \A i \in 1 .. n : g[i] = f[i]
        BY FlatAgree
      <4> QED BY <4>1, <4>2
    <3>2. n \in 1 .. n
      BY <2>2
    <3> QED BY <3>1, <3>2
  <2> QED BY <1>2, <1>3, <1>4, <1>5, <1>7, <2>1, <2>2, <2>3
<1> QED BY <1>6, <1>7

LEMMA FlattenType == ASSUME NEW S, NEW ss \in Seq(Seq(S)) PROVE FlattenSeq(ss) \in Seq(S)
<1> DEFINE T == {q \in Seq(Seq(S)) : FlattenSeq(q) \in Seq(S)}
<1>1. <<>> \in T
  BY DEF FlattenSeq
<1>2. ASSUME NEW q \in T, NEW s \in Seq(S) PROVE Append(q, s) \in T
  <2>1. q \in Seq(Seq(S)) /\ FlattenSeq(q) \in Seq(S)
    OBVIOUS
  <2>2. FlattenSeq(q) \o s \in Seq(S)
    BY <2>1, ConcatProperties
  <2>3. FlattenSeq(Append(q, s)) \in Seq(S)
    BY <2>1, <2>2, FlattenAppend
  <2>4. Append(q, s) \in Seq(Seq(S))
    BY <2>1, AppendProperties
  <2> QED BY <2>3, <2>4
<1>3. T = Seq(Seq(S))
  <2> HIDE DEF T
  <2>1. T \subseteq Seq(Seq(S))
    BY DEF T
  <2> QED BY <1>1, <1>2, <2>1, SequenceInduction
<1> QED BY <1>3

-----------------------------------------------------------------------------
(* The bytes on the line.                                                   *)

\* Sequences from their front.
LEMMA FrontFacts ==
  ASSUME NEW S, NEW h \in S, NEW z \in Seq(S)
  PROVE  /\ <<h>> \in Seq(S) /\ <<h>> \o z \in Seq(S) /\ <<h>> \o z # <<>>
         /\ Head(<<h>> \o z) = h /\ Tail(<<h>> \o z) = z
         /\ Len(<<h>> \o z) = Len(z) + 1 /\ (<<h>> \o z)[1] = h
         /\ \A i \in 1 .. Len(z) : (<<h>> \o z)[i + 1] = z[i]
  OBVIOUS

LEMMA FromFront ==
  ASSUME NEW S, NEW q \in Seq(S), q # <<>>
  PROVE  Head(q) \in S /\ Tail(q) \in Seq(S) /\ q = <<Head(q)>> \o Tail(q)
  OBVIOUS

LEMMA Joins ==
  ASSUME NEW S, NEW x \in Seq(S), NEW y \in Seq(S), NEW z \in Seq(S)
  PROVE  x \o y \in Seq(S) /\ (x \o y) \o z = x \o (y \o z)
  BY ConcatProperties, ConcatAssociative

LEMMA BytesJoin ==
  \A x, y, z \in Seq(Byte) : x \o y \in Seq(Byte) /\ (x \o y) \o z = x \o (y \o z)
<1> TAKE x, y, z \in Seq(Byte)
<1> QED BY Joins

LEMMA StuffType == \A b \in Byte : Stuff(b) \in Seq(Byte)
  BY FlipType, SMTT(30) DEF Stuff, Byte

LEMMA StuffedNothing == Stuffed(<<>>) = <<>>
  BY DEF Stuffed, FlattenSeq

LEMMA StuffedAppend ==
  ASSUME NEW p \in Seq(Byte), NEW c \in Byte
  PROVE  Stuffed(p) \in Seq(Byte) /\ Stuffed(Append(p, c)) = Stuffed(p) \o Stuff(c)
<1>1. PICK n \in Nat : n = Len(p) /\ DOMAIN p = 1 .. n /\ \A i \in 1 .. n : p[i] \in Byte
  OBVIOUS
<1>2. PICK h : h = Append(p, c)
  OBVIOUS
<1>3. DOMAIN h = 1 .. n + 1 /\ h[n + 1] = c /\ \A i \in 1 .. n : h[i] = p[i]
  BY <1>1, <1>2
<1>4. PICK parts : parts = [i \in 1 .. n |-> Stuff(p[i])]
  OBVIOUS
<1>5. parts \in Seq(Seq(Byte)) /\ Len(parts) = n
  <2>1. \A i \in 1 .. n : Stuff(p[i]) \in Seq(Byte)
    BY <1>1, StuffType
  <2>2. parts \in [1 .. n -> Seq(Byte)]
    BY <1>4, <2>1
  <2> QED BY <2>2
<1>6. Stuff(c) \in Seq(Byte)
  BY StuffType
<1>7. [i \in 1 .. n + 1 |-> Stuff(h[i])] = Append(parts, Stuff(c))
  <2>1. PICK w : w = [i \in 1 .. n + 1 |-> Stuff(h[i])]
    OBVIOUS
  <2>2. \A i \in 1 .. n + 1 : Stuff(h[i]) \in Seq(Byte)
    <3>1. \A i \in 1 .. n + 1 : i \in 1 .. n \/ i = n + 1
      OBVIOUS
    <3>2. \A i \in 1 .. n + 1 : h[i] \in Byte
      BY <1>1, <1>3, <3>1
    <3> QED BY <3>2, StuffType
  <2>3. w \in [1 .. n + 1 -> Seq(Byte)]
    BY <2>1, <2>2
  <2>4. w \in Seq(Seq(Byte)) /\ Len(w) = n + 1
    BY <2>3
  <2>5. PICK q \in Seq(Seq(Byte)) : q = Append(parts, Stuff(c))
    BY <1>5, <1>6, AppendProperties
  <2>6. Len(q) = n + 1 /\ q[n + 1] = Stuff(c) /\ \A i \in 1 .. n : q[i] = parts[i]
    BY <1>5, <1>6, <2>5, AppendProperties
  <2>7. \A i \in 1 .. n + 1 : w[i] = q[i]
    <3>1. \A i \in 1 .. n + 1 : i \in 1 .. n \/ i = n + 1
      OBVIOUS
    <3>2. w[n + 1] = q[n + 1]
      BY <1>3, <2>1, <2>6
    <3>3. \A i \in 1 .. n : w[i] = Stuff(h[i]) /\ q[i] = Stuff(p[i]) /\ h[i] = p[i]
      BY <1>3, <1>4, <2>1, <2>6
    <3> QED BY <3>1, <3>2, <3>3
  <2> QED BY <2>1, <2>4, <2>5, <2>6, <2>7, SeqEqual
<1>8. Stuffed(h) = FlattenSeq(Append(parts, Stuff(c)))
  BY <1>3, <1>7 DEF Stuffed
<1>9. Stuffed(p) = FlattenSeq(parts) /\ FlattenSeq(parts) \in Seq(Byte)
  BY <1>1, <1>4, <1>5, FlattenType DEF Stuffed
<1>10. CASE parts = <<>>
  <2>1. FlattenSeq(parts) = <<>>
    BY <1>10 DEF FlattenSeq
  <2>2. <<>> \o Stuff(c) = Stuff(c)
    BY <1>6, ConcatEmptySeq
  <2>3. FlattenSeq(Append(parts, Stuff(c))) = Stuff(c)
    BY <1>5, <1>6, <1>10, FlattenAppend
  <2> QED BY <1>2, <1>8, <1>9, <2>1, <2>2, <2>3
<1>11. CASE parts # <<>>
  <2>1. FlattenSeq(Append(parts, Stuff(c))) = FlattenSeq(parts) \o Stuff(c)
    BY <1>5, <1>6, <1>11, FlattenAppend
  <2> QED BY <1>2, <1>8, <1>9, <2>1
<1> QED BY <1>10, <1>11

\* What is stuffed together is stuffed piece by piece.
LEMMA StuffedConcat ==
  ASSUME NEW q \in Seq(Byte), NEW r \in Seq(Byte)
  PROVE  Stuffed(q \o r) = Stuffed(q) \o Stuffed(r)
<1> DEFINE T == {s \in Seq(Byte) : Stuffed(q \o s) = Stuffed(q) \o Stuffed(s)}
<1>0. \A s \in Seq(Byte) : Stuffed(s) \in Seq(Byte)
  <2> TAKE s \in Seq(Byte)
  <2>1. "a" \in Byte
    BY DEF Byte
  <2> QED BY <2>1, StuffedAppend
<1>1. <<>> \in T
  <2>1. q \o <<>> = q /\ Stuffed(q) \o <<>> = Stuffed(q)
    BY <1>0, ConcatEmptySeq
  <2>2. <<>> \in Seq(Byte)
    OBVIOUS
  <2> QED BY <2>1, <2>2, StuffedNothing
<1>2. ASSUME NEW s \in T, NEW c \in Byte PROVE Append(s, c) \in T
  <2>1. s \in Seq(Byte) /\ Stuffed(q \o s) = Stuffed(q) \o Stuffed(s)
    OBVIOUS
  <2>2. q \o Append(s, c) = Append(q \o s, c) /\ q \o s \in Seq(Byte) /\ Append(s, c) \in Seq(Byte)
    BY <2>1
  <2>3. Stuffed(Append(q \o s, c)) = Stuffed(q \o s) \o Stuff(c)
    BY <2>2, StuffedAppend
  <2>4. Stuffed(Append(s, c)) = Stuffed(s) \o Stuff(c)
    BY <2>1, StuffedAppend
  <2>5. (Stuffed(q) \o Stuffed(s)) \o Stuff(c) = Stuffed(q) \o (Stuffed(s) \o Stuff(c))
    <3>1. Stuff(c) \in Seq(Byte) /\ Stuffed(s) \in Seq(Byte) /\ Stuffed(q) \in Seq(Byte)
      BY <1>0, <2>1, StuffType
    <3>2. PICK x \in Seq(Byte), y \in Seq(Byte), z \in Seq(Byte) : x = Stuffed(q) /\ y = Stuffed(s) /\ z = Stuff(c)
      BY <3>1
    <3>3. (x \o y) \o z = x \o (y \o z)
      BY BytesJoin, Z3T(30)
    <3> QED BY <3>2, <3>3
  <2> QED BY <2>1, <2>2, <2>3, <2>4, <2>5
<1>3. T = Seq(Byte)
  <2> HIDE DEF T
  <2>1. T \subseteq Seq(Byte)
    BY DEF T
  <2> QED BY <1>1, <1>2, <2>1, SequenceInduction
<1> QED BY <1>3

LEMMA StuffedType == \A p \in Seq(Byte) : Stuffed(p) \in Seq(Byte)
<1> TAKE p \in Seq(Byte)
<1>1. "a" \in Byte
  BY DEF Byte
<1> QED BY <1>1, StuffedAppend

\* What is on the line when r is still to come of a frame.
Rest(r) == Stuffed(r) \o <<"flag">>

LEMMA RestType == \A r \in Seq(Byte) : Rest(r) \in Seq(Byte) /\ Rest(r) # <<>>
<1> TAKE r \in Seq(Byte)
<1>1. "flag" \in Byte
  BY DEF Byte
<1>2. Stuffed(r) \in Seq(Byte)
  BY StuffedType
<1> QED BY <1>1, <1>2 DEF Rest

LEMMA RestNothing == Rest(<<>>) = <<"flag">>
<1>1. <<"flag">> \in Seq(Byte)
  BY DEF Byte
<1>2. <<>> \o <<"flag">> = <<"flag">>
  BY <1>1, ConcatEmptySeq
<1> QED BY <1>2, StuffedNothing DEF Rest

LEMMA RestNext ==
  ASSUME NEW c \in Byte, NEW s \in Seq(Byte)
  PROVE  Rest(<<c>> \o s) = Stuff(c) \o Rest(s)
<1>1. <<c>> \in Seq(Byte) /\ <<"flag">> \in Seq(Byte) /\ <<>> \in Seq(Byte)
  BY DEF Byte
<1>2. Stuffed(<<c>>) = Stuff(c)
  <2>1. Append(<<>>, c) = <<c>>
    OBVIOUS
  <2>2. Stuffed(Append(<<>>, c)) = Stuffed(<<>>) \o Stuff(c)
    BY <1>1, StuffedAppend
  <2>3. <<>> \o Stuff(c) = Stuff(c)
    BY StuffType, ConcatEmptySeq
  <2> QED BY <2>1, <2>2, <2>3, StuffedNothing
<1>3. Stuffed(<<c>> \o s) = Stuff(c) \o Stuffed(s)
  BY <1>1, <1>2, StuffedConcat
<1>4. (Stuff(c) \o Stuffed(s)) \o <<"flag">> = Stuff(c) \o (Stuffed(s) \o <<"flag">>)
  <2>1. Stuff(c) \in Seq(Byte) /\ Stuffed(s) \in Seq(Byte)
    BY StuffType, StuffedType
  <2>2. PICK x \in Seq(Byte), y \in Seq(Byte), z \in Seq(Byte) : x = Stuff(c) /\ y = Stuffed(s) /\ z = <<"flag">>
    BY <1>1, <2>1
  <2>3. (x \o y) \o z = x \o (y \o z)
    BY BytesJoin
  <2> QED BY <2>2, <2>3
<1> QED BY <1>3, <1>4 DEF Rest

-----------------------------------------------------------------------------
(* The line, and the frame that is on it.                                   *)

Mark == [b : Byte, f : Nat, open : BOOLEAN]

LineTypes ==
  /\ uart \in Seq(Mark)
  /\ sent \in Seq([data : Seq(Byte), hit : BOOLEAN]) /\ \A i \in DOMAIN sent : sent[i].data # <<>>
  /\ typed \in Nat /\ faults \in Nat

Opening(n) == [b |-> "flag", f |-> n, open |-> TRUE]
BytesOf(u) == [i \in DOMAIN u |-> u[i].b]

\* The frames with a byte on the line.
On(u) == {u[i].f : i \in DOMAIN u} \ {0}

\* The line once the opening flag of frame n is gone, and before, when other bytes can
\* precede it.
Behind(u, n) == \A i \in DOMAIN u : u[i].f = n /\ ~u[i].open

Ahead(u, n, p) ==
  \E x \in Seq(Mark), z \in Seq(Mark) :
    /\ u = x \o (<<Opening(n)>> \o z)
    /\ \A i \in 1 .. Len(x) : x[i].f = 0 /\ ~x[i].open
    /\ Behind(z, n) /\ BytesOf(z) = Rest(p)

LEMMA OpeningType == \A n \in Nat : Opening(n) \in Mark
  BY DEF Opening, Mark, Byte

LEMMA MarksJoin ==
  \A x, y, z \in Seq(Mark) : x \o y \in Seq(Mark) /\ (x \o y) \o z = x \o (y \o z)
<1> TAKE x, y, z \in Seq(Mark)
<1> QED BY Joins

LEMMA MarkFront ==
  ASSUME NEW h \in Mark, NEW z \in Seq(Mark)
  PROVE  /\ <<h>> \o z \in Seq(Mark) /\ <<h>> \o z # <<>>
         /\ Head(<<h>> \o z) = h /\ Tail(<<h>> \o z) = z
         /\ DOMAIN (<<h>> \o z) = 1 .. Len(z) + 1 /\ (<<h>> \o z)[1] = h
         /\ \A i \in 1 .. Len(z) : (<<h>> \o z)[i + 1] = z[i]
         /\ Len(z) \in Nat /\ DOMAIN z = 1 .. Len(z)
<1>1. PICK u : u = <<h>> \o z
  OBVIOUS
<1>2. /\ u \in Seq(Mark) /\ u # <<>> /\ Head(u) = h /\ Tail(u) = z
      /\ Len(u) = Len(z) + 1 /\ u[1] = h /\ \A i \in 1 .. Len(z) : u[i + 1] = z[i]
  BY <1>1, FrontFacts
<1>3. DOMAIN u = 1 .. Len(u) /\ Len(z) \in Nat /\ DOMAIN z = 1 .. Len(z)
  BY <1>2, LenProperties
<1> QED BY <1>1, <1>2, <1>3

LEMMA OnFront ==
  ASSUME NEW h \in Mark, NEW z \in Seq(Mark)
  PROVE  On(<<h>> \o z) = ({h.f} \ {0}) \cup On(z)
<1>1. PICK u : u = <<h>> \o z
  OBVIOUS
<1>2. PICK n \in Nat : DOMAIN z = 1 .. n /\ DOMAIN u = 1 .. n + 1 /\ u[1] = h /\ \A i \in 1 .. n : u[i + 1] = z[i]
  BY <1>1, MarkFront
<1>3. \A i \in 1 .. n + 1 : i = 1 \/ (i - 1 \in 1 .. n /\ u[i] = z[i - 1])
  BY <1>2
<1>4. {u[i].f : i \in DOMAIN u} = {h.f} \cup {z[i].f : i \in DOMAIN z}
  <2>1. 1 \in 1 .. n + 1 /\ \A i \in 1 .. n : i + 1 \in 1 .. n + 1
    OBVIOUS
  <2>2. \A i \in DOMAIN u : u[i].f \in {h.f} \cup {z[j].f : j \in DOMAIN z}
    BY <1>2, <1>3
  <2>3. h.f \in {u[i].f : i \in DOMAIN u}
    BY <1>2, <2>1
  <2>4. \A j \in DOMAIN z : z[j].f \in {u[i].f : i \in DOMAIN u}
    BY <1>2, <2>1
  <2> QED BY <2>2, <2>3, <2>4
<1>5. On(u) = {u[i].f : i \in DOMAIN u} \ {0} /\ On(z) = {z[i].f : i \in DOMAIN z} \ {0}
  BY DEF On
<1> QED BY <1>1, <1>4, <1>5

\* A line that begins with byte b.
LEMMA LineFront ==
  \A b \in Byte : \A t \in Seq(Byte) : \A u \in Seq(Mark) :
    BytesOf(u) = <<b>> \o t =>
      \E h \in Mark, z \in Seq(Mark) : u = <<h>> \o z /\ h.b = b /\ BytesOf(z) = t
<1> TAKE b \in Byte
<1> TAKE t \in Seq(Byte)
<1> TAKE u \in Seq(Mark)
<1> HAVE BytesOf(u) = <<b>> \o t
<1>1. PICK v : v = <<b>> \o t
  OBVIOUS
<1>2. PICK n \in Nat : n = Len(t) /\ DOMAIN t = 1 .. n
  BY LenProperties
<1>3. v \in Seq(Byte) /\ Len(v) = n + 1 /\ v[1] = b /\ \A i \in 1 .. n : v[i + 1] = t[i]
  BY <1>1, <1>2, FrontFacts
<1>4. DOMAIN v = 1 .. n + 1
  BY <1>3, LenProperties
<1>5. DOMAIN u = 1 .. n + 1 /\ \A i \in 1 .. n + 1 : u[i].b = v[i]
  BY <1>1, <1>4 DEF BytesOf
<1>6. u # <<>>
  BY <1>5
<1>7. Head(u) \in Mark /\ Tail(u) \in Seq(Mark) /\ u = <<Head(u)>> \o Tail(u)
  BY <1>6, FromFront
<1>8. PICK h \in Mark, z \in Seq(Mark) : u = <<h>> \o z
  BY <1>7
<1>9. u[1] = h /\ (\A i \in 1 .. Len(z) : u[i + 1] = z[i]) /\ DOMAIN u = 1 .. Len(z) + 1
      /\ Len(z) \in Nat /\ DOMAIN z = 1 .. Len(z)
  BY <1>8, MarkFront
<1>10. Len(z) = n
  <2>1. Len(z) + 1 \in 1 .. n + 1 /\ n + 1 \in 1 .. Len(z) + 1
    <3>1. \A k \in Nat : k + 1 \in 1 .. k + 1
      OBVIOUS
    <3> QED BY <1>5, <1>9, <3>1
  <2>2. \A k, l \in Nat : k + 1 \in 1 .. l + 1 /\ l + 1 \in 1 .. k + 1 => k = l
    OBVIOUS
  <2>3. Len(z) \in Nat
    BY <1>9
  <2> QED BY <2>1, <2>2, <2>3
<1>11. h.b = b
  BY <1>3, <1>5, <1>9
<1>12. BytesOf(z) = t
  <2>1. \A i \in 1 .. n : z[i].b = t[i]
    BY <1>3, <1>5, <1>9, <1>10
  <2>2. t = [i \in 1 .. n |-> t[i]]
    BY <1>2
  <2> QED BY <1>9, <1>10, <2>1, <2>2 DEF BytesOf
<1> QED BY <1>8, <1>11, <1>12

\* A frame that is sent.
LEMMA WireIs ==
  ASSUME NEW n \in Nat \ {0}, NEW p \in Seq(Byte)
  PROVE  \E z \in Seq(Mark) :
           /\ Wire(n, <<"flag">> \o Stuffed(p) \o <<"flag">>) = <<Opening(n)>> \o z
           /\ Behind(z, n) /\ BytesOf(z) = Rest(p)
<1>1. PICK t \in Seq(Byte) : t = Rest(p)
  BY RestType
<1>2. "flag" \in Byte /\ <<"flag">> \in Seq(Byte)
  BY DEF Byte
<1>3. PICK v : v = <<"flag">> \o t
  OBVIOUS
<1>4. <<"flag">> \o Stuffed(p) \o <<"flag">> = v
  <2>1. PICK x \in Seq(Byte), y \in Seq(Byte) : x = <<"flag">> /\ y = Stuffed(p)
    BY <1>2, StuffedType
  <2>2. (x \o y) \o x = x \o (y \o x)
    BY BytesJoin
  <2> QED BY <1>1, <1>3, <2>1, <2>2 DEF Rest
<1>5. PICK k \in Nat : k = Len(t) /\ DOMAIN t = 1 .. k /\ \A i \in 1 .. k : t[i] \in Byte
  BY LenProperties, ElementOfSeq
<1>6. v \in Seq(Byte) /\ Len(v) = k + 1 /\ v[1] = "flag" /\ \A i \in 1 .. k : v[i + 1] = t[i]
  BY <1>2, <1>3, <1>5, FrontFacts
<1>7. DOMAIN v = 1 .. k + 1
  BY <1>6, LenProperties
<1>8. PICK w : w = Wire(n, v)
  OBVIOUS
<1>9. w = [i \in 1 .. k + 1 |-> [b |-> v[i], f |-> n, open |-> i = 1]]
  BY <1>7, <1>8, Zenon DEF Wire
<1>10. PICK z : z = [i \in 1 .. k |-> [b |-> t[i], f |-> n, open |-> FALSE]]
  OBVIOUS
<1>11. \A i \in 1 .. k : [b |-> t[i], f |-> n, open |-> FALSE] \in Mark
  BY <1>5, Zenon DEF Mark
<1>12. z \in Seq(Mark) /\ Len(z) = k /\ DOMAIN z = 1 .. k
  <2>1. z \in [1 .. k -> Mark]
    BY <1>10, <1>11
  <2> QED BY <2>1
<1>13. \A i \in 1 .. k : z[i].b = t[i] /\ z[i].f = n /\ z[i].open = FALSE
  BY <1>10
<1>14. Behind(z, n)
  BY <1>12, <1>13 DEF Behind
<1>15. BytesOf(z) = t
  <2>1. t = [i \in 1 .. k |-> t[i]]
    BY <1>5
  <2> QED BY <1>12, <1>13, <2>1 DEF BytesOf
<1>16. w = <<Opening(n)>> \o z
  <2>1. PICK u : u = <<Opening(n)>> \o z
    OBVIOUS
  <2>2. u \in Seq(Mark) /\ DOMAIN u = 1 .. k + 1 /\ u[1] = Opening(n) /\ \A i \in 1 .. k : u[i + 1] = z[i]
    BY <1>12, <2>1, MarkFront, OpeningType
  <2>3. w[1] = u[1]
    <3>1. w[1] = [b |-> v[1], f |-> n, open |-> 1 = 1]
      BY <1>9
    <3> QED BY <1>6, <2>2, <3>1, Zenon DEF Opening
  <2>4. ASSUME NEW i \in 1 .. k PROVE w[i + 1] = u[i + 1]
    <3>1. i + 1 \in 1 .. k + 1 /\ i + 1 # 1
      OBVIOUS
    <3>2. w[i + 1] = [b |-> v[i + 1], f |-> n, open |-> i + 1 = 1]
      BY <1>9, <3>1
    <3>3. (i + 1 = 1) = FALSE
      BY <3>1
    <3>4. w[i + 1] = [b |-> t[i], f |-> n, open |-> FALSE]
      BY <1>6, <3>2, <3>3, Zenon
    <3> QED BY <1>10, <2>2, <3>4, Zenon
  <2>5. \A i \in 1 .. k + 1 : i = 1 \/ i - 1 \in 1 .. k
    OBVIOUS
  <2>6. \A i \in 1 .. k + 1 : w[i] = u[i]
    <3> TAKE i \in 1 .. k + 1
    <3>1. CASE i = 1
      BY <2>3, <3>1
    <3>2. CASE i # 1
      <4>1. i - 1 \in 1 .. k /\ (i - 1) + 1 = i
        BY <2>5, <3>2
      <4>2. w[(i - 1) + 1] = u[(i - 1) + 1]
        BY <2>4, <4>1, Zenon
      <4> QED BY <4>1, <4>2
    <3> QED BY <3>1, <3>2
  <2>7. w = [i \in 1 .. k + 1 |-> w[i]]
    BY <1>9
  <2>8. u = [i \in 1 .. k + 1 |-> u[i]]
    BY <2>2
  <2> QED BY <2>1, <2>6, <2>7, <2>8
<1> QED BY <1>1, <1>4, <1>8, <1>12, <1>14, <1>15, <1>16

\* A line with a frame ahead begins with some other byte or with the opening flag.
LEMMA AheadFront ==
  ASSUME NEW u, NEW n \in Nat, NEW p \in Seq(Byte), Ahead(u, n, p)
  PROVE  \E h \in Mark, z \in Seq(Mark) :
           /\ u = <<h>> \o z
           /\ \/ h.f = 0 /\ ~h.open /\ Ahead(z, n, p)
              \/ h = Opening(n) /\ Behind(z, n) /\ BytesOf(z) = Rest(p)
<1>1. PICK x \in Seq(Mark), y \in Seq(Mark) :
        /\ u = x \o (<<Opening(n)>> \o y)
        /\ \A i \in 1 .. Len(x) : x[i].f = 0 /\ ~x[i].open
        /\ Behind(y, n) /\ BytesOf(y) = Rest(p)
  BY DEF Ahead
<1>2. PICK w \in Seq(Mark) : w = <<Opening(n)>> \o y
  BY OpeningType, MarkFront
<1>3. CASE x = <<>>
  <2>1. u = <<Opening(n)>> \o y
    BY <1>1, <1>2, <1>3, ConcatEmptySeq
  <2> QED BY <1>1, <2>1, OpeningType
<1>4. CASE x # <<>>
  <2>1. PICK h \in Mark, v \in Seq(Mark) : x = <<h>> \o v
    <3>1. Head(x) \in Mark /\ Tail(x) \in Seq(Mark) /\ x = <<Head(x)>> \o Tail(x)
      BY <1>4, FromFront
    <3> QED BY <3>1
  <2>2. x[1] = h /\ (\A i \in 1 .. Len(v) : x[i + 1] = v[i]) /\ Len(x) = Len(v) + 1 /\ Len(v) \in Nat
    BY <2>1, FrontFacts, LenProperties
  <2>3. u = <<h>> \o (v \o w)
    <3>1. PICK k \in Seq(Mark) : k = <<h>>
      BY FrontFacts
    <3>2. (k \o v) \o w = k \o (v \o w)
      BY MarksJoin
    <3> QED BY <1>1, <1>2, <2>1, <3>1, <3>2
  <2>4. h.f = 0 /\ ~h.open
    <3>1. 1 \in 1 .. Len(x)
      BY <2>2
    <3> QED BY <1>1, <2>2, <3>1
  <2>5. \A i \in 1 .. Len(v) : v[i].f = 0 /\ ~v[i].open
    <3>1. \A i \in 1 .. Len(v) : i + 1 \in 1 .. Len(x)
      BY <2>2
    <3> QED BY <1>1, <2>2, <3>1
  <2>6. Ahead(v \o w, n, p)
    BY <1>1, <1>2, <2>5 DEF Ahead
  <2>7. v \o w \in Seq(Mark)
    BY ConcatProperties
  <2> QED BY <2>3, <2>4, <2>6, <2>7
<1> QED BY <1>3, <1>4

LEMMA AheadMore ==
  ASSUME NEW z, NEW n \in Nat, NEW p \in Seq(Byte), Ahead(z, n, p),
         NEW h \in Mark, h.f = 0, ~h.open
  PROVE  Ahead(<<h>> \o z, n, p)
<1>1. PICK x \in Seq(Mark), y \in Seq(Mark) :
        /\ z = x \o (<<Opening(n)>> \o y)
        /\ \A i \in 1 .. Len(x) : x[i].f = 0 /\ ~x[i].open
        /\ Behind(y, n) /\ BytesOf(y) = Rest(p)
  BY DEF Ahead
<1>2. PICK w \in Seq(Mark) : w = <<Opening(n)>> \o y
  BY OpeningType, MarkFront
<1>3. PICK v \in Seq(Mark) : v = <<h>> \o x
  BY MarkFront
<1>4. v[1] = h /\ (\A i \in 1 .. Len(x) : v[i + 1] = x[i]) /\ Len(v) = Len(x) + 1 /\ Len(x) \in Nat
  BY <1>3, FrontFacts, LenProperties
<1>5. <<h>> \o z = v \o w
  <2>1. PICK k \in Seq(Mark) : k = <<h>>
    BY FrontFacts
  <2>2. (k \o x) \o w = k \o (x \o w)
    BY MarksJoin
  <2> QED BY <1>1, <1>2, <1>3, <2>1, <2>2
<1>6. \A i \in 1 .. Len(v) : v[i].f = 0 /\ ~v[i].open
  <2>1. \A i \in 1 .. Len(v) : i = 1 \/ i - 1 \in 1 .. Len(x)
    BY <1>4
  <2>2. \A i \in 1 .. Len(v) : i # 1 => v[i] = x[i - 1]
    BY <1>4, <2>1, SMTT(30)
  <2> TAKE i \in 1 .. Len(v)
  <2>3. CASE i = 1
    BY <1>4, <2>3
  <2>4. CASE i # 1
    BY <1>1, <2>1, <2>2, <2>4
  <2> QED BY <2>3, <2>4
<1> QED BY <1>1, <1>2, <1>5, <1>6 DEF Ahead

\* The reader with the bytes q of frame p behind it: it holds them, or they were too many.
Holding(q) ==
  IF Len(q) <= FrameMax THEN s_frame_started /\ s_frame_buf = q ELSE ~s_frame_started /\ s_frame_buf = <<>>

BetweenBytes(p, q, r) == p = q \o r /\ BytesOf(uart) = Rest(r) /\ Holding(q) /\ ~s_escape_next

InEscape(p, q, c, r) ==
  /\ p = Append(q, c) \o r /\ BytesOf(uart) = <<Flip(c)>> \o Rest(r)
  /\ Holding(q) /\ (s_escape_next <=> s_frame_started)

Under(p) ==
  \E q \in Seq(Byte), r \in Seq(Byte) :
    BetweenBytes(p, q, r) \/ \E c \in {"flag", "esc"} : InEscape(p, q, c, r)

\* What reads the next byte.
LEMMA Reader ==
  ASSUME TypeOK, NEW h \in Mark, NEW z \in Seq(Mark), uart = <<h>> \o z, Read
  PROVE  /\ uart' = z /\ UNCHANGED <<sent, typed, faults>>
         /\ h.b = "flag" => ReadFlag
         /\ h.b = "esc" /\ s_frame_started => ReadEscape
         /\ h.b \notin {"flag", "esc"} /\ s_frame_started => ReadData(h.b)
         /\ h.b # "flag" /\ ~s_frame_started => UNCHANGED hdlcVars
<1>1. Head(uart) = h /\ Tail(uart) = z
  BY MarkFront
<1>2. \A b : Arrives(b) => h.b = b
  BY <1>1 DEF Arrives
<1>3. Consume => uart' = z /\ UNCHANGED <<sent, typed, faults>>
  BY <1>1 DEF Consume
<1>4. CASE ReadFlag
  <2>1. h.b = "flag" /\ Consume
    BY <1>2, <1>4 DEF ReadFlag
  <2> QED BY <1>3, <1>4, <2>1
<1>5. CASE ReadEscape
  <2>1. h.b = "esc" /\ s_frame_started /\ Consume
    BY <1>2, <1>5 DEF ReadEscape
  <2> QED BY <1>3, <1>5, <2>1
<1>6. ASSUME NEW b \in Byte, ReadData(b)
      PROVE  /\ h.b = b /\ b \notin {"flag", "esc"} /\ s_frame_started /\ Consume
  BY <1>2, <1>6 DEF ReadData
<1>7. ASSUME NEW b \in Byte, ReadText(b)
      PROVE  /\ h.b = b /\ b # "flag" /\ ~s_frame_started /\ Consume /\ UNCHANGED hdlcVars
  BY <1>2, <1>7 DEF ReadText
<1>8. CASE ReadNewline
  <2>1. h.b = "nl" /\ ~s_frame_started /\ Consume /\ UNCHANGED hdlcVars
    BY <1>2, <1>8 DEF ReadNewline
  <2> QED BY <1>3, <2>1
<1>9. CASE \E b \in Byte : ReadData(b)
  <2>1. PICK b \in Byte : ReadData(b)
    BY <1>9
  <2>2. h.b = b /\ b \notin {"flag", "esc"} /\ s_frame_started /\ Consume
    BY <1>6, <2>1
  <2> QED BY <1>3, <2>1, <2>2
<1>10. CASE \E b \in Byte : ReadText(b)
  <2>1. PICK b \in Byte : ReadText(b)
    BY <1>10
  <2>2. h.b = b /\ b # "flag" /\ ~s_frame_started /\ Consume /\ UNCHANGED hdlcVars
    BY <1>7, <2>1
  <2> QED BY <1>3, <2>2
<1> QED BY <1>4, <1>5, <1>8, <1>9, <1>10 DEF Read

\* One more byte of the frame.
LEMMA DataHeld ==
  ASSUME TypeOK, NEW q \in Seq(Byte), Holding(q), NEW b \in Byte, NEW d \in Byte,
         IF s_frame_started THEN ReadData(b) /\ d = (IF s_escape_next THEN Flip(b) ELSE b) ELSE UNCHANGED hdlcVars /\ ~s_escape_next
  PROVE  Holding(Append(q, d))' /\ ~s_escape_next'
<1>1. PICK n \in Nat : n = Len(q)
  BY LenProperties
<1>2. PICK v \in Seq(Byte) : v = Append(q, d) /\ Len(v) = n + 1
  BY <1>1, AppendProperties
<1>3. FrameMax \in Nat
  BY SizesAssumption
<1>4. CASE n <= FrameMax
  <2>1. s_frame_started /\ s_frame_buf = q
    BY <1>1, <1>4 DEF Holding
  <2>2. ReadData(b) /\ d = IF s_escape_next THEN Flip(b) ELSE b
    BY <2>1
  <2>3. /\ ~s_escape_next' /\ Len(s_frame_buf) = n
        /\ \/ n < FrameMax /\ s_frame_buf' = Append(q, d) /\ s_frame_started'
           \/ n >= FrameMax /\ ~s_frame_started' /\ s_frame_buf' = <<>>
    BY <1>1, <2>1, <2>2, Zenon DEF ReadData
  <2>4. CASE n < FrameMax
    <3>1. s_frame_buf' = v /\ s_frame_started'
      BY <1>1, <1>2, <1>3, <2>1, <2>3, <2>4
    <3>2. Len(v) <= FrameMax
      BY <1>2, <1>3, <2>4
    <3> QED BY <1>2, <2>3, <3>1, <3>2 DEF Holding
  <2>5. CASE n = FrameMax
    <3>1. s_frame_buf' = <<>> /\ ~s_frame_started'
      BY <1>1, <1>2, <1>3, <2>1, <2>3, <2>5
    <3>2. ~ (Len(v) <= FrameMax)
      BY <1>2, <1>3, <2>5
    <3> QED BY <1>2, <2>3, <3>1, <3>2 DEF Holding
  <2> QED BY <1>3, <1>4, <2>4, <2>5
<1>5. CASE ~ (n <= FrameMax)
  <2>1. ~s_frame_started /\ s_frame_buf = <<>>
    BY <1>1, <1>5 DEF Holding
  <2>2. ~s_frame_started' /\ s_frame_buf' = <<>> /\ ~s_escape_next'
    BY <2>1 DEF hdlcVars
  <2>3. ~ (Len(v) <= FrameMax)
    BY <1>2, <1>3, <1>5
  <2> QED BY <1>2, <2>2, <2>3 DEF Holding
<1> QED BY <1>4, <1>5

LEMMA FlipTwice == \A c \in {"flag", "esc"} : Flip(c) \in Byte \ {"flag", "esc"} /\ Flip(Flip(c)) = c
  BY DEF Flip, Byte

LEMMA PairFront ==
  ASSUME NEW S, NEW b \in S, NEW d \in S, NEW w \in Seq(S)
  PROVE  <<b, d>> \o w = <<b>> \o (<<d>> \o w)
<1>1. PICK x \in Seq(S), y \in Seq(S), k \in Seq(S) : x = <<b>> /\ y = <<d>> /\ k = <<b, d>>
  <2>1. <<b>> \in Seq(S) /\ <<d>> \in Seq(S) /\ <<b, d>> \in Seq(S)
    OBVIOUS
  <2> QED BY <2>1
<1>2. (x \o y) \o w = x \o (y \o w)
  BY ConcatAssociative
<1>3. x \o y = k
  <2>1. Len(x) = 1 /\ Len(y) = 1 /\ Len(k) = 2 /\ x[1] = b /\ y[1] = d /\ k[1] = b /\ k[2] = d
    BY <1>1
  <2>2. PICK v \in Seq(S) : v = x \o y
    BY ConcatProperties
  <2>3. Len(v) = 2 /\ v[1] = x[1] /\ v[2] = y[1]
    BY <2>1, <2>2, ConcatProperties
  <2> QED BY <2>1, <2>2, <2>3, SeqEqual
<1> QED BY <1>1, <1>2, <1>3

LEMMA PairOfBytes ==
  \A b, d \in Byte : \A w \in Seq(Byte) : <<b, d>> \o w = <<b>> \o (<<d>> \o w)
<1> TAKE b, d \in Byte
<1> TAKE w \in Seq(Byte)
<1> QED BY PairFront

LEMMA BytesAgain ==
  \A q, s \in Seq(Byte) : \A c \in Byte :
    /\ q \o (<<c>> \o s) = Append(q, c) \o s
    /\ <<c>> \in Seq(Byte) /\ Append(q, c) \in Seq(Byte)
<1> TAKE q, s \in Seq(Byte)
<1> TAKE c \in Byte
<1>1. PICK k \in Seq(Byte) : k = <<c>>
  BY FrontFacts
<1>2. (q \o k) \o s = q \o (k \o s)
  BY BytesJoin
<1>3. q \o <<c>> = Append(q, c)
  BY AppendIsConcat
<1> QED BY <1>1, <1>2, <1>3, AppendProperties

\* A byte of the frame that is not its last flag.
LEMMA BetweenStep ==
  ASSUME TypeOK, LineTypes, NEW p \in Seq(Byte), NEW q \in Seq(Byte), NEW r \in Seq(Byte),
         BetweenBytes(p, q, r), r # <<>>, Read
  PROVE  Under(p)' /\ uart' # <<>> /\ \E h \in Mark, z \in Seq(Mark) : uart = <<h>> \o z /\ h.b # "flag"
<1>1. PICK c \in Byte, s \in Seq(Byte) : r = <<c>> \o s
  <2>1. Head(r) \in Byte /\ Tail(r) \in Seq(Byte) /\ r = <<Head(r)>> \o Tail(r)
    BY FromFront
  <2> QED BY <2>1
<1>2. p = Append(q, c) \o s /\ Append(q, c) \in Seq(Byte)
  BY <1>1, BytesAgain DEF BetweenBytes
<1>3. BytesOf(uart) = Stuff(c) \o Rest(s) /\ Rest(s) \in Seq(Byte) /\ Rest(s) # <<>>
  BY <1>1, RestNext, RestType DEF BetweenBytes
<1>4. uart \in Seq(Mark) /\ Holding(q) /\ ~s_escape_next
  BY DEF LineTypes, BetweenBytes
<1>5. CASE c \in {"flag", "esc"}
  <2>1. Flip(c) \in Byte /\ "esc" \in Byte
    BY <1>5, FlipTwice DEF Byte
  <2>2. PICK t \in Seq(Byte) : t = <<Flip(c)>> \o Rest(s) /\ t # <<>>
    BY <1>3, <2>1, FrontFacts
  <2>3. BytesOf(uart) = <<"esc">> \o t
    <3>1. Stuff(c) = <<"esc", Flip(c)>>
      BY <1>5, Zenon DEF Stuff
    <3>2. <<"esc", Flip(c)>> \o Rest(s) = <<"esc">> \o (<<Flip(c)>> \o Rest(s))
      BY <1>3, <2>1, PairOfBytes, Zenon
    <3> QED BY <1>3, <2>2, <3>1, <3>2
  <2>4. PICK h \in Mark, z \in Seq(Mark) : uart = <<h>> \o z /\ h.b = "esc" /\ BytesOf(z) = t
    BY <1>4, <2>1, <2>3, LineFront, Zenon
  <2>5. uart' = z /\ (s_frame_started => ReadEscape) /\ (~s_frame_started => UNCHANGED hdlcVars)
    BY <2>4, Reader
  <2>6. Holding(q)' /\ (s_escape_next' <=> s_frame_started')
    <3>1. CASE s_frame_started
      <4>1. s_escape_next' /\ s_frame_started' /\ UNCHANGED s_frame_buf
        BY <2>5, <3>1, Zenon DEF ReadEscape
      <4> QED BY <1>4, <3>1, <4>1 DEF Holding
    <3>2. CASE ~s_frame_started
      <4>1. UNCHANGED <<s_escape_next, s_frame_started, s_frame_buf>>
        BY <2>5, <3>2 DEF hdlcVars
      <4>2. UNCHANGED s_escape_next /\ UNCHANGED s_frame_started /\ UNCHANGED s_frame_buf
        BY <4>1
      <4>3. ~s_escape_next' /\ ~s_frame_started'
        BY <1>4, <3>2, <4>2, Zenon
      <4> QED BY <1>4, <3>2, <4>2, <4>3 DEF Holding
    <3> QED BY <3>1, <3>2
  <2>7. InEscape(p, q, c, s)'
    BY <1>2, <2>2, <2>4, <2>5, <2>6 DEF InEscape
  <2>8. Under(p)'
    BY <1>5, <2>7 DEF Under
  <2>9. uart' # <<>>
    <3>1. DOMAIN BytesOf(z) = DOMAIN z
      BY DEF BytesOf
    <3> QED BY <2>2, <2>4, <2>5, <3>1
  <2> QED BY <2>4, <2>8, <2>9
<1>6. CASE c \notin {"flag", "esc"}
  <2>1. BytesOf(uart) = <<c>> \o Rest(s)
    BY <1>3, <1>6 DEF Stuff
  <2>2. PICK h \in Mark, z \in Seq(Mark) : uart = <<h>> \o z /\ h.b = c /\ BytesOf(z) = Rest(s)
    BY <1>3, <1>4, <2>1, LineFront, Zenon
  <2>3. uart' = z /\ (s_frame_started => ReadData(c)) /\ (~s_frame_started => UNCHANGED hdlcVars)
    BY <1>6, <2>2, Reader
  <2>4. Holding(Append(q, c))' /\ ~s_escape_next'
    BY <1>4, <2>3, DataHeld
  <2>5. BetweenBytes(p, Append(q, c), s)'
    BY <1>2, <2>2, <2>3, <2>4 DEF BetweenBytes
  <2>6. Under(p)'
    BY <1>2, <2>5 DEF Under
  <2>7. uart' # <<>>
    <3>1. DOMAIN BytesOf(z) = DOMAIN z
      BY DEF BytesOf
    <3> QED BY <1>3, <2>2, <2>3, <3>1
  <2> QED BY <1>6, <2>2, <2>6, <2>7
<1> QED BY <1>5, <1>6

LEMMA InEscapeStep ==
  ASSUME TypeOK, LineTypes, NEW p \in Seq(Byte), NEW q \in Seq(Byte), NEW c \in {"flag", "esc"}, NEW r \in Seq(Byte),
         InEscape(p, q, c, r), Read
  PROVE  Under(p)' /\ uart' # <<>> /\ \E h \in Mark, z \in Seq(Mark) : uart = <<h>> \o z /\ h.b # "flag"
<1>1. PICK d \in Byte \ {"flag", "esc"} : d = Flip(c) /\ Flip(d) = c /\ c \in Byte
  <2>1. c \in Byte
    BY DEF Byte
  <2> QED BY <2>1, FlipTwice
<1>2. Rest(r) \in Seq(Byte) /\ Rest(r) # <<>> /\ Append(q, c) \in Seq(Byte)
  BY <1>1, RestType, BytesAgain
<1>3. uart \in Seq(Mark) /\ Holding(q) /\ (s_escape_next <=> s_frame_started)
  BY DEF LineTypes, InEscape
<1>4. PICK h \in Mark, z \in Seq(Mark) : uart = <<h>> \o z /\ h.b = d /\ BytesOf(z) = Rest(r)
  <2>1. BytesOf(uart) = <<d>> \o Rest(r)
    BY <1>1 DEF InEscape
  <2> QED BY <1>2, <1>3, <2>1, LineFront, Zenon
<1>5. uart' = z /\ (s_frame_started => ReadData(d)) /\ (~s_frame_started => UNCHANGED hdlcVars)
  BY <1>1, <1>4, Reader
<1>6. Holding(Append(q, c))' /\ ~s_escape_next'
  <2>1. IF s_frame_started THEN ReadData(d) /\ c = (IF s_escape_next THEN Flip(d) ELSE d) ELSE UNCHANGED hdlcVars /\ ~s_escape_next
    BY <1>1, <1>3, <1>5, Zenon
  <2> QED BY <1>1, <1>3, <2>1, DataHeld
<1>7. BetweenBytes(p, Append(q, c), r)'
  BY <1>4, <1>5, <1>6 DEF BetweenBytes, InEscape
<1>8. Under(p)'
  BY <1>2, <1>7 DEF Under
<1>9. uart' # <<>>
  <2>1. DOMAIN BytesOf(z) = DOMAIN z
    BY DEF BytesOf
  <2> QED BY <1>2, <1>4, <1>5, <2>1
<1> QED BY <1>1, <1>4, <1>8, <1>9

\* A frame under way stays under way until its last flag, which meets the frame in the
\* buffer if it fits.
LEMMA UnderStep ==
  ASSUME TypeOK, LineTypes, NEW p \in Seq(Byte), Under(p), Read
  PROVE  \/ Under(p)' /\ uart' # <<>> /\ \E h \in Mark, z \in Seq(Mark) : uart = <<h>> \o z /\ h.b # "flag"
         \/ ReadFlag /\ uart' = <<>> /\ Holding(p)
<1>1. PICK q \in Seq(Byte), r \in Seq(Byte) :
        BetweenBytes(p, q, r) \/ \E c \in {"flag", "esc"} : InEscape(p, q, c, r)
  BY DEF Under
<1>2. CASE \E c \in {"flag", "esc"} : InEscape(p, q, c, r)
  BY <1>2, InEscapeStep
<1>3. CASE BetweenBytes(p, q, r) /\ r # <<>>
  BY <1>3, BetweenStep
<1>4. CASE BetweenBytes(p, q, r) /\ r = <<>>
  <2>1. p = q /\ Holding(q)
    BY <1>4, ConcatEmptySeq DEF BetweenBytes
  <2>2. "flag" \in Byte /\ <<>> \in Seq(Byte)
    BY DEF Byte
  <2>3. BytesOf(uart) = <<"flag">> \o <<>>
    <3>1. <<"flag">> \o <<>> = <<"flag">>
      OBVIOUS
    <3> QED BY <1>4, <3>1, RestNothing DEF BetweenBytes
  <2>4. PICK h \in Mark, z \in Seq(Mark) : uart = <<h>> \o z /\ h.b = "flag" /\ BytesOf(z) = <<>>
    <3>1. uart \in Seq(Mark)
      BY DEF LineTypes
    <3> QED BY <2>2, <2>3, <3>1, LineFront, Zenon
  <2>5. uart' = z /\ ReadFlag
    BY <2>4, Reader
  <2>6. z = <<>>
    <3>1. DOMAIN BytesOf(z) = DOMAIN z
      BY DEF BytesOf
    <3> QED BY <2>4, <3>1
  <2> QED BY <2>1, <2>5, <2>6
<1> QED BY <1>1, <1>2, <1>3, <1>4

-----------------------------------------------------------------------------
(* What was delivered of what was sent.                                     *)

\* The frames are delivered, and nothing else if it is only they.
Matched(frames, only) ==
  \E g \in [frames -> Hdlc] :
    Delivers(g, frames) /\ (only => \A j \in Hdlc : \E i \in frames : g[i] = j)

\* What is delivered stays where it is.
LEMMA Longer ==
  ASSUME delivered \in Seq(Snapshot), NEW d \in Snapshot, delivered' = Append(delivered, d)
  PROVE  /\ Hdlc' = IF d.src = "hdlc" THEN Hdlc \cup {Len(delivered) + 1} ELSE Hdlc
         /\ \A j \in Hdlc : delivered'[j] = delivered[j] /\ j \in Nat /\ j < Len(delivered) + 1
         /\ delivered'[Len(delivered) + 1] = d
<1>1. PICK n \in Nat : n = Len(delivered) /\ DOMAIN delivered = 1 .. n
  BY LenProperties
<1>2. /\ DOMAIN delivered' = 1 .. n + 1 /\ delivered'[n + 1] = d
      /\ \A j \in 1 .. n : delivered'[j] = delivered[j]
  BY <1>1, AppendFacts
<1>3. \A j : j \in 1 .. n + 1 <=> j \in 1 .. n \/ j = n + 1
  BY <1>1
<1>4. \A j \in Hdlc : delivered'[j] = delivered[j] /\ j \in Nat /\ j < n + 1
  BY <1>1, <1>2 DEF Hdlc
<1>5. Hdlc' = {j \in 1 .. n + 1 : delivered'[j].src = "hdlc"}
  BY <1>2 DEF Hdlc
<1>6. Hdlc = {j \in 1 .. n : delivered[j].src = "hdlc"}
  BY <1>1 DEF Hdlc
<1>7. CASE d.src = "hdlc"
  BY <1>1, <1>2, <1>3, <1>4, <1>5, <1>6, <1>7
<1>8. CASE d.src # "hdlc"
  BY <1>1, <1>2, <1>3, <1>4, <1>5, <1>6, <1>8
<1> QED BY <1>7, <1>8

LEMMA MatchedKept ==
  ASSUME NEW I, NEW J \in SUBSET I, NEW only \in BOOLEAN, Matched(I, only), only => J = I,
         \A i \in J : sent'[i].data = sent[i].data, delivered \in Seq(Snapshot),
         \/ UNCHANGED delivered
         \/ \E d \in Snapshot : delivered' = Append(delivered, d) /\ (only => d.src # "hdlc")
  PROVE  Matched(J, only)'
<1>1. PICK g \in [I -> Hdlc] : Delivers(g, I) /\ (only => \A j \in Hdlc : \E i \in I : g[i] = j)
  BY DEF Matched
<1>2. Hdlc \subseteq Hdlc' /\ (only => Hdlc' = Hdlc) /\ \A j \in Hdlc : delivered'[j] = delivered[j]
  <2>1. CASE UNCHANGED delivered
    BY <2>1 DEF Hdlc
  <2>2. CASE \E d \in Snapshot : delivered' = Append(delivered, d) /\ (only => d.src # "hdlc")
    BY <2>2, Longer
  <2> QED BY <2>1, <2>2
<1>3. PICK f : f = [i \in J |-> g[i]]
  OBVIOUS
<1>4. f \in [J -> Hdlc'] /\ \A i \in J : f[i] = g[i] /\ g[i] \in Hdlc
  BY <1>1, <1>2, <1>3
<1>5. Delivers(f, J)'
  BY <1>1, <1>2, <1>4 DEF Delivers
<1>6. only => \A j \in Hdlc' : \E i \in J : f[i] = j
  BY <1>1, <1>2, <1>4
<1> QED BY <1>4, <1>5, <1>6 DEF Matched

LEMMA MatchedMore ==
  ASSUME NEW n \in Nat, NEW I, \A i \in I : i \in Nat /\ i < n, NEW only \in BOOLEAN, Matched(I, only),
         UNCHANGED sent, delivered \in Seq(Snapshot),
         NEW d \in Snapshot, delivered' = Append(delivered, d), d.src = "hdlc", d.raw = sent[n].data
  PROVE  Matched(I \cup {n}, only)'
<1>1. PICK g \in [I -> Hdlc] : Delivers(g, I) /\ (only => \A j \in Hdlc : \E i \in I : g[i] = j)
  BY DEF Matched
<1>2. PICK k : k = Len(delivered) + 1
  OBVIOUS
<1>3. /\ Hdlc' = Hdlc \cup {k} /\ delivered'[k] = d
      /\ \A j \in Hdlc : delivered'[j] = delivered[j] /\ j \in Nat /\ j < k
  BY <1>2, Longer
<1>4. PICK f : f = [i \in I \cup {n} |-> IF i = n THEN k ELSE g[i]]
  OBVIOUS
<1>5. f[n] = k /\ \A i \in I : f[i] = g[i] /\ g[i] \in Hdlc
  BY <1>1, <1>4
<1>6. f \in [I \cup {n} -> Hdlc']
  BY <1>3, <1>4, <1>5
<1>7. Delivers(f, I \cup {n})'
  <2>1. \A i \in I \cup {n} : delivered'[f[i]].raw = sent'[i].data
    <3> TAKE i \in I \cup {n}
    <3>1. CASE i = n
      BY <1>3, <1>5, <3>1
    <3>2. CASE i \in I
      <4>1. delivered'[g[i]] = delivered[g[i]] /\ delivered[g[i]].raw = sent[i].data
        BY <1>1, <1>3, <1>5, <3>2 DEF Delivers
      <4> QED BY <1>5, <3>2, <4>1
    <3> QED BY <3>1, <3>2
  <2>2. \A i, j \in I \cup {n} : i < j => f[i] < f[j]
    <3> SUFFICES ASSUME NEW i \in I \cup {n}, NEW j \in I \cup {n}, i < j PROVE f[i] < f[j]
      OBVIOUS
    <3>1. i \in I
      <4>1. CASE i = n
        BY <4>1
      <4> QED BY <4>1
    <3>2. CASE j = n
      BY <1>3, <1>5, <3>1, <3>2
    <3>3. CASE j \in I
      BY <1>1, <1>5, <3>1, <3>3 DEF Delivers
    <3> QED BY <3>2, <3>3
  <2> QED BY <2>1, <2>2 DEF Delivers
<1>8. only => \A j \in Hdlc' : \E i \in I \cup {n} : f[i] = j
  <2> SUFFICES ASSUME only, NEW j \in Hdlc' PROVE \E i \in I \cup {n} : f[i] = j
    OBVIOUS
  <2>1. CASE j = k
    BY <1>5, <2>1
  <2>2. CASE j \in Hdlc
    <3>1. PICK i \in I : g[i] = j
      BY <1>1, <2>2
    <3> QED BY <1>5, <3>1
  <2> QED BY <1>3, <2>1, <2>2
<1> QED BY <1>6, <1>7, <1>8 DEF Matched

\* What a step of the reader delivers and counts.
LEMMA DeliverIs ==
  ASSUME TypeOK, TypeOK', NEW src, NEW raw, NEW values, Deliver(src, raw, values)
  PROVE  /\ \E d \in Snapshot : d.src = src /\ d.raw = raw /\ delivered' = Append(delivered, d)
         /\ s_seq' = s_seq + 1 /\ s_frames_rx' = s_frames_rx + 1
<1>1. PICK d : /\ d = [seq |-> s_seq + 1, src |-> src, raw |-> raw, values |-> values,
                      samples |-> Samples(values), rx |-> s_frames_rx + 1, bad |-> s_frames_bad]
  OBVIOUS
<1>2. delivered' = Append(delivered, d) /\ s_seq' = s_seq + 1 /\ s_frames_rx' = s_frames_rx + 1
  BY <1>1, Zenon DEF Deliver
<1>3. d.src = src /\ d.raw = raw
  BY <1>1
<1>4. delivered \in Seq(Snapshot) /\ delivered' \in Seq(Snapshot)
  BY DEF TypeOK
<1>5. d \in Snapshot
  <2>1. Len(delivered) + 1 \in 1 .. Len(delivered')
    BY <1>2, <1>4
  <2>2. delivered'[Len(delivered) + 1] = d
    BY <1>2, <1>4
  <2> QED BY <1>4, <2>1, <2>2, ElementOfSeq
<1> QED BY <1>2, <1>3, <1>5

\* The frames that were dropped as too long: a rejected line takes a sequence number
\* that is not a frame, and is in frames_bad too.
Dropped == s_frames_bad - (s_seq - s_frames_rx)

LEMMA Deliveries ==
  ASSUME TypeOK, TypeOK', NEW h \in Mark, NEW z \in Seq(Mark), uart = <<h>> \o z, Read
  PROVE  /\ h.b = "flag" =>
              /\ s_frame_started' /\ s_frame_buf' = <<>> /\ Dropped' = Dropped
              /\ IF s_frame_started /\ s_frame_buf # <<>>
                 THEN \E d \in Snapshot : /\ d.src = "hdlc" /\ d.raw = s_frame_buf
                                          /\ delivered' = Append(delivered, d)
                 ELSE UNCHANGED delivered
         /\ h.b # "flag" =>
              /\ s_frame_started' => s_frame_started
              /\ \/ UNCHANGED delivered
                 \/ \E d \in Snapshot : d.src = "text" /\ delivered' = Append(delivered, d)
              /\ Dropped' = Dropped + (IF s_frame_started /\ ~s_frame_started' THEN 1 ELSE 0)
<1>0. Head(uart) = h /\ \A b : Arrives(b) => h.b = b
  <2>1. Head(uart) = h
    BY MarkFront
  <2> QED BY <2>1 DEF Arrives
<1>1. /\ s_frames_bad \in Nat /\ s_seq \in Nat /\ s_frames_rx \in Nat
      /\ s_frames_bad' \in Nat /\ s_seq' \in Nat /\ s_frames_rx' \in Nat
  BY DEF TypeOK
<1>2. CASE ReadFlag
  <2>1. h.b = "flag" /\ s_frame_started' /\ s_frame_buf' = <<>> /\ s_frames_bad' = s_frames_bad
    BY <1>0, <1>2, Zenon DEF ReadFlag
  <2>2. CASE s_frame_started /\ s_frame_buf # <<>>
    <3>1. Deliver("hdlc", s_frame_buf, s_frame_buf \in Kaifa)
      BY <1>2, <2>2 DEF ReadFlag
    <3>2. /\ \E d \in Snapshot : d.src = "hdlc" /\ d.raw = s_frame_buf /\ delivered' = Append(delivered, d)
          /\ s_seq' = s_seq + 1 /\ s_frames_rx' = s_frames_rx + 1
      BY <3>1, DeliverIs
    <3>3. Dropped' = Dropped
      BY <1>1, <2>1, <3>2 DEF Dropped
    <3> QED BY <2>1, <2>2, <3>2, <3>3
  <2>3. CASE ~ (s_frame_started /\ s_frame_buf # <<>>)
    <3>1. UNCHANGED <<s_seq, s_frames_rx, windowVars, delivered>>
      BY <1>2, <2>3 DEF ReadFlag
    <3>2. Dropped' = Dropped /\ UNCHANGED delivered
      BY <2>1, <3>1 DEF Dropped
    <3> QED BY <2>1, <2>3, <3>2
  <2> QED BY <2>2, <2>3
<1>3. CASE ReadEscape
  <2>1. h.b = "esc"
    BY <1>0, <1>3 DEF ReadEscape
  <2>2. UNCHANGED <<s_frame_started, s_frame_buf, line, countVars, windowVars, delivered>>
    BY <1>3 DEF ReadEscape
  <2>3. UNCHANGED s_frame_started /\ UNCHANGED delivered /\ Dropped' = Dropped /\ Dropped \in Int
    BY <1>1, <2>2 DEF Dropped, countVars
  <2> QED BY <2>1, <2>3
<1>4. ASSUME NEW b \in Byte, ReadData(b)
      PROVE  /\ h.b = b /\ b # "flag" /\ s_frame_started /\ UNCHANGED delivered
             /\ Dropped' = Dropped + (IF s_frame_started /\ ~s_frame_started' THEN 1 ELSE 0)
  <2>1. /\ h.b = b /\ b # "flag" /\ s_frame_started
        /\ UNCHANGED <<line, s_seq, s_frames_rx, windowVars, delivered>>
        /\ \/ s_frame_started' = s_frame_started /\ s_frames_bad' = s_frames_bad
           \/ s_frame_started' = FALSE /\ s_frames_bad' = s_frames_bad + 1
    BY <1>0, <1>4 DEF ReadData
  <2>2. UNCHANGED s_seq /\ UNCHANGED s_frames_rx /\ UNCHANGED delivered
    BY <2>1
  <2>3. CASE s_frame_started' = s_frame_started /\ s_frames_bad' = s_frames_bad
    <3>1. s_frame_started'
      BY <2>1, <2>3, Zenon
    <3> QED BY <1>1, <2>1, <2>2, <2>3, <3>1 DEF Dropped
  <2>4. CASE s_frame_started' = FALSE /\ s_frames_bad' = s_frames_bad + 1
    <3>1. ~s_frame_started'
      BY <2>4, Zenon
    <3> QED BY <1>1, <2>1, <2>2, <2>4, <3>1 DEF Dropped
  <2> QED BY <2>1, <2>3, <2>4
<1>5. ASSUME NEW b \in Byte, ReadText(b)
      PROVE  h.b = b /\ b # "flag" /\ ~s_frame_started /\ UNCHANGED s_frame_started /\ UNCHANGED delivered /\ Dropped' = Dropped
  <2>1. h.b = b /\ b # "flag" /\ ~s_frame_started /\ UNCHANGED <<hdlcVars, countVars, windowVars, delivered>>
    BY <1>0, <1>5 DEF ReadText
  <2> QED BY <2>1 DEF Dropped, countVars, hdlcVars
<1>6. CASE ReadNewline
  <2>1. h.b = "nl" /\ ~s_frame_started /\ UNCHANGED hdlcVars
    BY <1>0, <1>6 DEF ReadNewline
  <2>2. UNCHANGED s_frame_started
    BY <2>1 DEF hdlcVars
  <2>3. CASE \E raw, values : Deliver("text", raw, values) /\ UNCHANGED s_frames_bad
    <3>1. /\ \E d \in Snapshot : d.src = "text" /\ delivered' = Append(delivered, d)
          /\ s_seq' = s_seq + 1 /\ s_frames_rx' = s_frames_rx + 1 /\ s_frames_bad' = s_frames_bad
      BY <2>3, DeliverIs
    <3>2. Dropped' = Dropped /\ Dropped \in Int
      BY <1>1, <3>1 DEF Dropped
    <3> QED BY <2>1, <2>2, <3>1, <3>2
  <2>4. CASE Reject
    <3>1. s_seq' = s_seq + 1 /\ s_frames_bad' = s_frames_bad + 1 /\ UNCHANGED s_frames_rx /\ UNCHANGED delivered
      BY <2>4 DEF Reject
    <3>2. Dropped' = Dropped /\ Dropped \in Int
      BY <1>1, <3>1 DEF Dropped
    <3> QED BY <2>1, <2>2, <3>1, <3>2
  <2>5. CASE UNCHANGED <<countVars, windowVars, delivered>>
    <3>1. Dropped' = Dropped /\ Dropped \in Int /\ UNCHANGED delivered
      BY <1>1, <2>5 DEF Dropped, countVars
    <3> QED BY <2>1, <2>2, <3>1
  <2> QED BY <1>6, <2>3, <2>4, <2>5 DEF ReadNewline
<1>7. CASE \E b \in Byte : ReadData(b)
  <2>1. PICK b \in Byte : ReadData(b)
    BY <1>7
  <2> QED BY <1>4, <2>1
<1>8. CASE \E b \in Byte : ReadText(b)
  <2>1. PICK b \in Byte : ReadText(b)
    BY <1>8
  <2>2. Dropped \in Int
    BY <1>1 DEF Dropped
  <2> QED BY <1>5, <2>1, <2>2
<1> QED BY <1>2, <1>3, <1>6, <1>7, <1>8 DEF Read

-----------------------------------------------------------------------------
(* The steps of the line.                                                   *)

\* Bytes of one frame.
LEMMA BehindOn ==
  ASSUME NEW z \in Seq(Mark), NEW n \in Nat \ {0}, Behind(z, n)
  PROVE  On(z) = IF z = <<>> THEN {} ELSE {n}
<1>1. DOMAIN z = 1 .. Len(z) /\ Len(z) \in Nat /\ (z # <<>> => Len(z) # 0)
  BY EmptySeq, LenProperties
<1>2. CASE z = <<>>
  BY <1>2 DEF On
<1>3. CASE z # <<>>
  <2>1. 1 \in DOMAIN z
    BY <1>1, <1>3
  <2> QED BY <1>3, <2>1 DEF On, Behind
<1> QED BY <1>2, <1>3

LEMMA BehindFront ==
  ASSUME NEW h \in Mark, NEW z \in Seq(Mark), NEW n, Behind(<<h>> \o z, n)
  PROVE  h.f = n /\ ~h.open /\ Behind(z, n)
<1>1. PICK u : u = <<h>> \o z
  OBVIOUS
<1>2. PICK k \in Nat : DOMAIN z = 1 .. k /\ DOMAIN u = 1 .. k + 1 /\ u[1] = h /\ \A i \in 1 .. k : u[i + 1] = z[i]
  BY <1>1, MarkFront
<1>3. 1 \in 1 .. k + 1 /\ \A i \in 1 .. k : i + 1 \in 1 .. k + 1
  OBVIOUS
<1>4. \A i \in 1 .. k + 1 : u[i].f = n /\ ~u[i].open
  BY <1>1, <1>2 DEF Behind
<1> QED BY <1>2, <1>3, <1>4 DEF Behind

\* A line of text is no part of a frame.
LEMMA TextWire ==
  ASSUME NEW l \in Seq(Printable)
  PROVE  Wire(0, Append(l, "nl")) \in Seq(Mark) /\ On(Wire(0, Append(l, "nl"))) = {}
<1>1. PICK v \in Seq(Byte) : v = Append(l, "nl")
  <2>1. "nl" \in Byte
    BY DEF Byte
  <2> QED BY <2>1, PrintableIsByte, AppendProperties
<1>2. PICK k \in Nat : DOMAIN v = 1 .. k /\ \A i \in 1 .. k : v[i] \in Byte
  BY LenProperties, ElementOfSeq
<1>3. PICK w : w = Wire(0, v)
  OBVIOUS
<1>4. w = [i \in 1 .. k |-> [b |-> v[i], f |-> 0, open |-> FALSE]]
  BY <1>2, <1>3, Zenon DEF Wire
<1>5. \A i \in 1 .. k : [b |-> v[i], f |-> 0, open |-> FALSE] \in Mark
  <2>1. 0 \in Nat
    OBVIOUS
  <2> QED BY <1>2, <2>1, Zenon DEF Mark
<1>6. w \in [1 .. k -> Mark]
  BY <1>4, <1>5
<1>7. w \in Seq(Mark)
  BY <1>6
<1>8. On(w) = {}
  BY <1>4 DEF On
<1> QED BY <1>1, <1>3, <1>7, <1>8

Frame == [data : Seq(Byte), hit : BOOLEAN]

\* A fault spoils the frame it hits and nothing else of what was sent.
LEMMA HitFacts ==
  ASSUME sent \in Seq(Frame), NEW f \in Nat, Hit(f)
  PROVE  /\ sent' \in Seq(Frame) /\ Len(sent') = Len(sent)
         /\ \A i \in DOMAIN sent : sent'[i].data = sent[i].data /\ (sent[i].hit => sent'[i].hit)
         /\ f \in DOMAIN sent => sent'[f].hit
         /\ f = 0 => sent' = sent
<1>1. CASE f = 0
  <2>1. sent' = sent
    BY <1>1 DEF Hit
  <2>2. ~ (f \in DOMAIN sent)
    BY <1>1, LenProperties
  <2> QED BY <2>1, <2>2
<1>2. CASE f # 0
  <2>1. sent' = [sent EXCEPT ![f].hit = TRUE]
    BY <1>2 DEF Hit
  <2>2. PICK n \in Nat : n = Len(sent) /\ DOMAIN sent = 1 .. n /\ \A i \in 1 .. n : sent[i] \in Frame
    BY LenProperties, ElementOfSeq
  <2>3. \A i \in 1 .. n : sent'[i] = IF i = f THEN [sent[f] EXCEPT !.hit = TRUE] ELSE sent[i]
    BY <2>1, <2>2
  <2>4. \A r \in Frame : [r EXCEPT !.hit = TRUE] \in Frame /\ [r EXCEPT !.hit = TRUE].data = r.data /\ [r EXCEPT !.hit = TRUE].hit
    BY Zenon DEF Frame
  <2>5. \A i \in 1 .. n : sent'[i] \in Frame /\ sent'[i].data = sent[i].data /\ (sent[i].hit => sent'[i].hit) /\ (i = f => sent'[i].hit)
    BY <2>2, <2>3, <2>4, Zenon
  <2>6. DOMAIN sent' = 1 .. n /\ sent' = [i \in 1 .. n |-> sent'[i]]
    BY <2>1, <2>2
  <2>7. sent' \in [1 .. n -> Frame]
    BY <2>5, <2>6
  <2>8. sent' \in Seq(Frame) /\ Len(sent') = n
    BY <2>7
  <2> QED BY <1>2, <2>2, <2>5, <2>8
<1> QED BY <1>1, <1>2

\* What a fault does to the line.
LEMMA FaultForms ==
  ASSUME LineTypes, Fault
  PROVE  \E h \in Mark, k \in Mark, z \in Seq(Mark) :
           /\ uart = <<h>> \o z
           /\ \/ uart' = z /\ Hit(h.f)
              \/ k.f = h.f /\ k.open = h.open /\ uart' = <<k>> \o z /\ Hit(h.f)
              \/ k.f = 0 /\ ~k.open /\ uart' = <<k>> \o uart /\ Hit(IF h.open THEN 0 ELSE h.f)
<1>1. PICK h \in Mark, z \in Seq(Mark) : h = Head(uart) /\ z = Tail(uart) /\ uart = <<h>> \o z
  <2>1. uart # <<>> /\ uart \in Seq(Mark)
    BY DEF Fault, LineTypes
  <2> QED BY <2>1, FromFront
<1>2. CASE uart' = z /\ Hit(h.f)
  BY <1>1, <1>2
<1>3. CASE \E c \in Byte \ {h.b} : uart' = <<[h EXCEPT !.b = c]>> \o z /\ Hit(h.f)
  <2>1. PICK c \in Byte : uart' = <<[h EXCEPT !.b = c]>> \o z /\ Hit(h.f)
    BY <1>3
  <2>2. PICK k : k = [h EXCEPT !.b = c]
    OBVIOUS
  <2>3. k \in Mark /\ k.f = h.f /\ k.open = h.open
    BY <2>2, Zenon DEF Mark
  <2> QED BY <1>1, <2>1, <2>2, <2>3
<1>4. CASE \E c \in Byte : /\ uart' = <<[b |-> c, f |-> 0, open |-> FALSE]>> \o uart
                           /\ Hit(IF h.open THEN 0 ELSE h.f)
  <2>1. PICK c \in Byte : /\ uart' = <<[b |-> c, f |-> 0, open |-> FALSE]>> \o uart
                          /\ Hit(IF h.open THEN 0 ELSE h.f)
    BY <1>4
  <2>2. PICK k : k = [b |-> c, f |-> 0, open |-> FALSE]
    OBVIOUS
  <2>3. k \in Mark /\ k.f = 0 /\ ~k.open
    <3>1. 0 \in Nat
      OBVIOUS
    <3> QED BY <2>2, <3>1, Zenon DEF Mark
  <2> QED BY <1>1, <2>1, <2>2, <2>3
<1> QED BY <1>1, <1>2, <1>3, <1>4, Zenon DEF Fault

\* The line holds bytes of the last frame only, and while no fault has hit it, the frame
\* is still to come or under way.
Coming(n) == Ahead(uart, n, sent[n].data) \/ (Behind(uart, n) /\ Under(sent[n].data))

LineInv ==
  /\ On(uart) \subseteq {Len(sent)}
  /\ \A n \in On(uart) : ~sent[n].hit => Coming(n)

LEMMA SentFacts ==
  ASSUME LineTypes, NEW n \in DOMAIN sent
  PROVE  n \in Nat \ {0} /\ n <= Len(sent) /\ sent[n].data \in Seq(Byte) /\ sent[n].data # <<>>
<1>1. sent \in Seq(Frame) /\ \A i \in DOMAIN sent : sent[i].data # <<>>
  BY DEF LineTypes, Frame
<1>2. DOMAIN sent = 1 .. Len(sent) /\ Len(sent) \in Nat
  BY <1>1, LenProperties
<1>3. sent[n] \in Frame
  BY <1>1, <1>2, ElementOfSeq
<1> QED BY <1>1, <1>2, <1>3 DEF Frame

LEMMA OnSent == LineTypes /\ LineInv => Len(sent) \in Nat /\ \A n \in On(uart) : n = Len(sent) /\ n \in DOMAIN sent
<1> SUFFICES ASSUME LineTypes, LineInv PROVE Len(sent) \in Nat /\ \A n \in On(uart) : n = Len(sent) /\ n \in DOMAIN sent
  OBVIOUS
<1>1. DOMAIN sent = 1 .. Len(sent) /\ Len(sent) \in Nat
  BY LenProperties DEF LineTypes
<1>2. \A n \in On(uart) : n = Len(sent) /\ n # 0
  BY DEF LineInv, On
<1> QED BY <1>1, <1>2

\* The reader takes a byte of a frame that no fault has hit: the frame stays on the line,
\* or this is its last flag, and the frame is in the buffer if it fits.
LEMMA FrameStep ==
  ASSUME TypeOK, LineTypes, LineInv, NEW h \in Mark, NEW z \in Seq(Mark), uart = <<h>> \o z, Read,
         NEW n \in On(uart), ~sent[n].hit
  PROVE  \/ /\ n \in On(z) /\ Coming(n)' /\ (h.b = "flag" /\ h.f # 0 => h.open /\ z # <<>> /\ Behind(z, n))
            /\ (~h.open => h.f = 0 \/ (Behind(uart, n) /\ Behind(z, n) /\ z # <<>>))
         \/ (Behind(uart, n) /\ ReadFlag /\ z = <<>> /\ Holding(sent[n].data))
<1>1. n \in DOMAIN sent /\ n = Len(sent)
  BY OnSent
<1>2. PICK p \in Seq(Byte) : p = sent[n].data /\ p # <<>>
  BY <1>1, SentFacts
<1>3. n \in Nat \ {0}
  BY <1>1, SentFacts
<1>4. uart' = z /\ sent' = sent
  BY Reader
<1>5. CASE Ahead(uart, n, p)
  <2>1. PICK k \in Mark, y \in Seq(Mark) :
           /\ uart = <<k>> \o y
           /\ \/ k.f = 0 /\ ~k.open /\ Ahead(y, n, p)
              \/ k = Opening(n) /\ Behind(y, n) /\ BytesOf(y) = Rest(p)
    BY <1>3, <1>5, AheadFront, ZenonT(30)
  <2>2. k = h /\ y = z
    BY <2>1, MarkFront
  <2>3. CASE h.f = 0 /\ ~h.open /\ Ahead(z, n, p)
    <3>1. Coming(n)'
      BY <1>2, <1>4, <2>3 DEF Coming
    <3>2. n \in On(z)
      <4>1. On(uart) = ({h.f} \ {0}) \cup On(z)
        BY OnFront
      <4> QED BY <2>3, <4>1
    <3> QED BY <2>3, <3>1, <3>2
  <2>4. CASE h = Opening(n) /\ Behind(z, n) /\ BytesOf(z) = Rest(p)
    <3>1. h.b = "flag" /\ h.open
      BY <2>4, Zenon DEF Opening
    <3>2. ReadFlag
      BY <3>1, Reader
    <3>3. Holding(<<>>)' /\ ~s_escape_next'
      <4>1. s_frame_started' /\ s_frame_buf' = <<>> /\ ~s_escape_next'
        BY <3>2, Zenon DEF ReadFlag
      <4>2. Len(<<>>) <= FrameMax
        BY SizesAssumption
      <4> QED BY <4>1, <4>2 DEF Holding
    <3>4. BetweenBytes(p, <<>>, p)'
      <4>1. <<>> \o p = p
        BY ConcatEmptySeq
      <4> QED BY <1>4, <2>4, <3>3, <4>1 DEF BetweenBytes
    <3>5. Under(p)'
      <4>1. <<>> \in Seq(Byte)
        OBVIOUS
      <4> QED BY <3>4, <4>1 DEF Under
    <3>6. Coming(n)'
      BY <1>2, <1>4, <2>4, <3>5 DEF Coming
    <3>7. z # <<>>
      <4>1. Rest(p) # <<>>
        BY RestType
      <4>2. DOMAIN BytesOf(z) = DOMAIN z
        BY DEF BytesOf
      <4> QED BY <2>4, <4>1, <4>2
    <3>8. n \in On(z)
      BY <1>3, <2>4, <3>7, BehindOn
    <3> QED BY <2>4, <3>1, <3>6, <3>7, <3>8
  <2> QED BY <2>1, <2>2, <2>3, <2>4
<1>6. CASE Behind(uart, n) /\ Under(p)
  <2>1. h.f = n /\ ~h.open /\ Behind(z, n)
    BY <1>6, BehindFront
  <2>2. CASE Under(p)' /\ uart' # <<>> /\ \E k \in Mark, y \in Seq(Mark) : uart = <<k>> \o y /\ k.b # "flag"
    <3>1. h.b # "flag"
      BY <2>2, MarkFront
    <3>2. n \in On(z)
      BY <1>3, <1>4, <2>1, <2>2, BehindOn
    <3>3. Coming(n)'
      BY <1>2, <1>4, <2>1, <2>2 DEF Coming
    <3> QED BY <1>4, <1>6, <2>1, <2>2, <3>1, <3>2, <3>3
  <2>3. CASE ReadFlag /\ uart' = <<>> /\ Holding(p)
    BY <1>2, <1>4, <1>6, <2>3
  <2> QED BY <1>6, <2>2, <2>3, UnderStep
<1> QED BY <1>2, <1>5, <1>6 DEF LineInv, Coming

\* A frame that no fault has hit is still to come when the next byte is none of its own,
\* or its opening flag.
LEMMA StillAhead ==
  ASSUME LineTypes, LineInv, NEW h \in Mark, NEW z \in Seq(Mark), uart = <<h>> \o z,
         NEW n \in On(uart), ~sent[n].hit, h.f = 0 \/ h.open
  PROVE  /\ Ahead(uart, n, sent[n].data)
         /\ h.f = 0 => ~h.open /\ Ahead(z, n, sent[n].data)
<1>1. n \in Nat \ {0} /\ sent[n].data \in Seq(Byte)
  BY OnSent, SentFacts
<1>2. PICK p \in Seq(Byte) : p = sent[n].data
  BY <1>1
<1>3. Ahead(uart, n, p)
  <2>1. CASE Behind(uart, n)
    <3>1. h.f = n /\ ~h.open
      BY <2>1, BehindFront
    <3> QED BY <1>1, <3>1
  <2> QED BY <1>2, <2>1 DEF LineInv, Coming
<1>4. PICK k \in Mark, y \in Seq(Mark) :
        /\ uart = <<k>> \o y
        /\ \/ k.f = 0 /\ ~k.open /\ Ahead(y, n, p)
           \/ k = Opening(n) /\ Behind(y, n) /\ BytesOf(y) = Rest(p)
  <2>1. n \in Nat
    BY <1>1
  <2> QED BY <1>3, <2>1, AheadFront, ZenonT(30)
<1>5. k = h /\ y = z
  BY <1>4, MarkFront
<1>6. Opening(n).f = n
  BY DEF Opening
<1> QED BY <1>1, <1>2, <1>3, <1>4, <1>5, <1>6

\* A fault takes from the line no more than the frame it spoils.
LEMMA FaultStep ==
  ASSUME LineTypes, LineInv, Fault
  PROVE  /\ uart' \in Seq(Mark) /\ sent' \in Seq(Frame) /\ Len(sent') = Len(sent)
         /\ \A i \in DOMAIN sent : sent'[i].data = sent[i].data /\ (sent[i].hit => sent'[i].hit)
         /\ On(uart') \subseteq On(uart) /\ \A n \in On(uart) \ On(uart') : sent'[n].hit
         /\ \A n \in On(uart') : ~sent'[n].hit => Coming(n)'
<1>1. PICK h \in Mark, k \in Mark, z \in Seq(Mark) :
        /\ uart = <<h>> \o z
        /\ \/ uart' = z /\ Hit(h.f)
           \/ k.f = h.f /\ k.open = h.open /\ uart' = <<k>> \o z /\ Hit(h.f)
           \/ k.f = 0 /\ ~k.open /\ uart' = <<k>> \o uart /\ Hit(IF h.open THEN 0 ELSE h.f)
  BY FaultForms
<1>2. uart \in Seq(Mark) /\ sent \in Seq(Frame) /\ h.f \in Nat
  BY DEF LineTypes, Frame, Mark
<1>3. On(uart) = ({h.f} \ {0}) \cup On(z)
  BY <1>1, OnFront
<1>4. ASSUME NEW f \in Nat, Hit(f)
      PROVE  /\ sent' \in Seq(Frame) /\ Len(sent') = Len(sent)
             /\ \A i \in DOMAIN sent : sent'[i].data = sent[i].data /\ (sent[i].hit => sent'[i].hit)
             /\ \A n \in On(uart) : (f = n => sent'[n].hit) /\ (~sent'[n].hit => ~sent[n].hit /\ f # n /\ sent'[n].data = sent[n].data)
  <2>1. \A n \in On(uart) : n \in DOMAIN sent
    BY OnSent
  <2> QED BY <1>2, <1>4, <2>1, HitFacts
<1>5. \A n \in On(uart) : h.f = n \/ h.f = 0
  BY <1>3, OnSent
<1>6. CASE uart' = z /\ Hit(h.f)
  <2>1. On(uart') \subseteq On(uart) /\ \A n \in On(uart) \ On(uart') : n = h.f
    BY <1>3, <1>6
  <2>2. ASSUME NEW n \in On(uart'), ~sent'[n].hit PROVE Coming(n)'
    <3>1. n \in On(uart) /\ ~sent[n].hit /\ h.f = 0 /\ sent'[n].data = sent[n].data
      BY <1>2, <1>4, <1>5, <1>6, <2>1, <2>2
    <3>2. Ahead(z, n, sent[n].data)
      BY <1>1, <3>1, StillAhead
    <3> QED BY <1>6, <3>1, <3>2 DEF Coming
  <2> QED BY <1>2, <1>4, <1>6, <2>1, <2>2
<1>7. CASE k.f = h.f /\ k.open = h.open /\ uart' = <<k>> \o z /\ Hit(h.f)
  <2>1. On(uart') = On(uart) /\ uart' \in Seq(Mark)
    BY <1>3, <1>7, OnFront, MarkFront
  <2>2. ASSUME NEW n \in On(uart'), ~sent'[n].hit PROVE Coming(n)'
    <3>1. n \in On(uart) /\ ~sent[n].hit /\ h.f = 0 /\ sent'[n].data = sent[n].data
      BY <1>2, <1>4, <1>5, <1>7, <2>1, <2>2
    <3>2. Ahead(z, n, sent[n].data) /\ ~h.open
      BY <1>1, <3>1, StillAhead
    <3>3. n \in Nat /\ sent[n].data \in Seq(Byte)
      BY <3>1, OnSent, SentFacts
    <3>4. k.f = 0 /\ ~k.open
      BY <1>7, <3>1, <3>2, Zenon
    <3>5. Ahead(<<k>> \o z, n, sent[n].data)
      BY <3>2, <3>3, <3>4, AheadMore
    <3> QED BY <1>7, <3>1, <3>5 DEF Coming
  <2> QED BY <1>2, <1>4, <1>7, <2>1, <2>2
<1>8. CASE k.f = 0 /\ ~k.open /\ uart' = <<k>> \o uart /\ Hit(IF h.open THEN 0 ELSE h.f)
  <2>1. On(uart') = On(uart) /\ uart' \in Seq(Mark)
    <3>1. PICK y \in Seq(Mark) : y = uart
      BY <1>2
    <3>2. On(<<k>> \o y) = On(y) /\ <<k>> \o y \in Seq(Mark)
      <4>1. On(<<k>> \o y) = ({k.f} \ {0}) \cup On(y) /\ <<k>> \o y \in Seq(Mark)
        BY OnFront, MarkFront
      <4>2. {k.f} \ {0} = {}
        BY <1>8
      <4> QED BY <4>1, <4>2
    <3> QED BY <1>8, <3>1, <3>2
  <2>2. PICK f \in Nat : f = (IF h.open THEN 0 ELSE h.f) /\ Hit(f)
    BY <1>2, <1>8
  <2>3. ASSUME NEW n \in On(uart'), ~sent'[n].hit PROVE Coming(n)'
    <3>1. n \in On(uart) /\ ~sent[n].hit /\ f # n /\ sent'[n].data = sent[n].data
      BY <1>4, <2>1, <2>2, <2>3
    <3>2. h.f = 0 \/ h.open
      BY <1>5, <2>2, <3>1
    <3>3. Ahead(uart, n, sent[n].data)
      BY <1>1, <3>1, <3>2, StillAhead
    <3>4. n \in Nat /\ sent[n].data \in Seq(Byte)
      BY <3>1, OnSent, SentFacts
    <3>5. Ahead(<<k>> \o uart, n, sent[n].data)
      BY <1>8, <3>3, <3>4, AheadMore
    <3> QED BY <1>8, <3>1, <3>5 DEF Coming
  <2> QED BY <1>4, <2>1, <2>2, <2>3
<1> QED BY <1>1, <1>6, <1>7, <1>8

-----------------------------------------------------------------------------
(* The frames that arrive.                                                  *)

\* The next frame begins when the line is empty.
LEMMA SendStep ==
  ASSUME LineTypes, NEW p \in Payloads, SendFrame(p), NEW n \in Nat, n = Len(sent)
  PROVE  /\ LineTypes' /\ DOMAIN sent = 1 .. n /\ DOMAIN sent' = 1 .. n + 1
         /\ \A i \in 1 .. n : sent'[i] = sent[i]
         /\ ~sent'[n + 1].hit /\ On(uart) = {} /\ On(uart') = {n + 1}
         /\ Coming(n + 1)' /\ uart' # <<>> /\ uart'[1].open
         /\ \A i \in DOMAIN uart' : uart'[i].f # 0
<1>1. p \in Seq(Byte) /\ p # <<>>
  BY InputsAssumption
<1>2. PICK m \in Nat \ {0} : m = n + 1
  OBVIOUS
<1>3. sent \in Seq(Frame) /\ \A i \in DOMAIN sent : sent[i].data # <<>>
  BY DEF LineTypes, Frame
<1>4. PICK r : r = [data |-> p, hit |-> FALSE]
  OBVIOUS
<1>5. r \in Frame /\ r.data = p /\ ~r.hit
  BY <1>1, <1>4, Zenon DEF Frame
<1>6. sent' = Append(sent, r)
  BY <1>4 DEF SendFrame
<1>7. /\ sent' \in Seq(Frame) /\ DOMAIN sent = 1 .. n /\ DOMAIN sent' = 1 .. n + 1
      /\ sent'[n + 1] = r /\ \A i \in 1 .. n : sent'[i] = sent[i]
  <2>1. /\ Append(sent, r) \in Seq(Frame) /\ DOMAIN Append(sent, r) = 1 .. (n + 1) /\ DOMAIN sent = 1 .. n
        /\ \A i \in DOMAIN Append(sent, r) : Append(sent, r)[i] = IF i = n + 1 THEN r ELSE sent[i]
    BY <1>3, <1>5, AppendFacts
  <2> QED BY <1>6, <2>1
<1>8. PICK z \in Seq(Mark) : /\ Wire(m, <<"flag">> \o Stuffed(p) \o <<"flag">>) = <<Opening(m)>> \o z
                             /\ Behind(z, m) /\ BytesOf(z) = Rest(p)
  BY <1>1, <1>2, WireIs
<1>9. uart' = <<Opening(m)>> \o z
  BY <1>2, <1>8 DEF SendFrame
<1>10. Opening(m) \in Mark /\ Opening(m).f = m /\ Opening(m).open
  <2>1. Opening(m) \in Mark
    BY <1>2, OpeningType
  <2> QED BY <2>1, Zenon DEF Opening
<1>11. PICK k \in Nat : /\ uart' \in Seq(Mark) /\ DOMAIN uart' = 1 .. k + 1 /\ DOMAIN z = 1 .. k
                        /\ uart'[1] = Opening(m) /\ \A i \in 1 .. k : uart'[i + 1] = z[i]
  <2>1. PICK k \in Nat : k = Len(z)
    BY LenProperties
  <2>2. PICK u : u = <<Opening(m)>> \o z
    OBVIOUS
  <2>3. /\ u \in Seq(Mark) /\ DOMAIN u = 1 .. k + 1 /\ DOMAIN z = 1 .. k
        /\ u[1] = Opening(m) /\ \A i \in 1 .. k : u[i + 1] = z[i]
    BY <1>10, <2>1, <2>2, MarkFront
  <2> QED BY <1>9, <2>2, <2>3
<1>12. On(uart') = {m}
  <2>1. On(<<Opening(m)>> \o z) = ({m} \ {0}) \cup On(z)
    BY <1>10, OnFront
  <2>2. On(z) \subseteq {m}
    BY <1>2, <1>8, BehindOn
  <2> QED BY <1>2, <1>9, <2>1, <2>2
<1>13. On(uart) = {}
  BY DEF SendFrame, On
<1>14. Ahead(uart', m, p)
  <2>1. <<>> \o (<<Opening(m)>> \o z) = <<Opening(m)>> \o z
    BY <1>10, MarkFront, ConcatEmptySeq
  <2>2. PICK x \in Seq(Mark) : x = <<>> /\ Len(x) = 0
    BY EmptyIsSeq
  <2>3. uart' = x \o (<<Opening(m)>> \o z)
    BY <1>9, <2>1, <2>2
  <2>4. \A i \in 1 .. Len(x) : x[i].f = 0 /\ ~x[i].open
    BY <2>2
  <2> QED BY <1>8, <2>3, <2>4, Zenon DEF Ahead
<1>15. Coming(m)'
  <2>1. sent'[m].data = p
    BY <1>2, <1>5, <1>7
  <2> QED BY <1>14, <2>1 DEF Coming
<1>16. \A i \in DOMAIN uart' : uart'[i].f # 0
  <2> TAKE i \in DOMAIN uart'
  <2>1. i \in 1 .. k + 1 /\ (i # 1 => i - 1 \in 1 .. k /\ (i - 1) + 1 = i)
    BY <1>11
  <2>2. CASE i = 1
    BY <1>2, <1>10, <1>11, <2>2
  <2>3. CASE i # 1
    <3>1. uart'[i] = z[i - 1]
      BY <1>11, <2>1, <2>3
    <3> QED BY <1>2, <1>8, <1>11, <2>1, <2>3, <3>1 DEF Behind
  <2> QED BY <2>2, <2>3
<1>17. LineTypes'
  <2>1. UNCHANGED <<typed, faults>>
    BY DEF SendFrame
  <2>2. \A i \in 1 .. n + 1 : sent'[i].data # <<>>
    <3> TAKE i \in 1 .. n + 1
    <3>1. CASE i = n + 1
      BY <1>1, <1>5, <1>7, <3>1
    <3>2. CASE i \in 1 .. n
      BY <1>3, <1>7, <3>2
    <3> QED BY <3>1, <3>2
  <2> QED BY <1>7, <1>11, <2>1, <2>2 DEF LineTypes, Frame
<1>18. uart' # <<>> /\ uart'[1].open
  BY <1>9, <1>10, <1>11, MarkFront
<1>19. ~sent'[n + 1].hit
  BY <1>5, <1>7
<1> QED BY <1>2, <1>7, <1>12, <1>13, <1>15, <1>16, <1>17, <1>18, <1>19

LEMMA TypeStepLine ==
  ASSUME LineTypes, NEW l \in Typed, TypeLine(l)
  PROVE  LineTypes' /\ UNCHANGED sent /\ On(uart) = {} /\ On(uart') = {} /\ typed' # 0
<1>1. l \in Seq(Printable)
  BY InputsAssumption
<1>2. uart' \in Seq(Mark) /\ On(uart') = {}
  BY <1>1, TextWire DEF TypeLine
<1>3. typed \in Nat /\ typed' = typed + 1 /\ UNCHANGED <<sent, faults>> /\ uart = <<>>
  BY DEF TypeLine, LineTypes
<1>4. On(uart) = {}
  BY <1>3 DEF On
<1>5. typed' \in Nat /\ typed' # 0
  BY <1>3
<1> QED BY <1>2, <1>3, <1>4, <1>5 DEF LineTypes

LEMMA FaultTypes ==
  ASSUME LineTypes, LineInv, Fault
  PROVE  LineTypes' /\ faults' # 0
<1>1. /\ uart' \in Seq(Mark) /\ sent' \in Seq(Frame) /\ Len(sent') = Len(sent)
      /\ \A i \in DOMAIN sent : sent'[i].data = sent[i].data
  BY FaultStep
<1>2. DOMAIN sent' = DOMAIN sent
  BY <1>1, LenProperties DEF LineTypes
<1>3. \A i \in DOMAIN sent' : sent'[i].data # <<>>
  BY <1>1, <1>2 DEF LineTypes
<1>4. faults' = faults + 1 /\ UNCHANGED typed
  BY DEF Fault
<1>5. faults' \in Nat /\ faults' # 0 /\ typed' \in Nat
  BY <1>4 DEF LineTypes
<1> QED BY <1>1, <1>3, <1>5 DEF LineTypes, Frame

\* A byte that is read was there.
LEMMA ReadFront ==
  ASSUME LineTypes, Read
  PROVE  \E h \in Mark, z \in Seq(Mark) : uart = <<h>> \o z
<1>1. uart # <<>>
  <2>1. CASE \E b \in Byte : ReadData(b) \/ ReadText(b)
    BY <2>1 DEF ReadData, ReadText, Arrives
  <2> QED BY <2>1 DEF Read, ReadFlag, ReadEscape, ReadNewline, Arrives
<1>2. uart \in Seq(Mark)
  BY DEF LineTypes
<1>3. Head(uart) \in Mark /\ Tail(uart) \in Seq(Mark) /\ uart = <<Head(uart)>> \o Tail(uart)
  BY <1>1, <1>2, FromFront
<1> QED BY <1>3

LEMMA ReadLine ==
  ASSUME TypeOK, LineTypes, LineInv, NEW h \in Mark, NEW z \in Seq(Mark), uart = <<h>> \o z, Read
  PROVE  LineTypes' /\ LineInv' /\ uart' = z /\ UNCHANGED <<sent, typed, faults>>
<1>1. uart' = z /\ UNCHANGED <<sent, typed, faults>>
  BY Reader
<1>2. LineTypes'
  BY <1>1 DEF LineTypes
<1>3. On(z) \subseteq On(uart)
  <2>1. On(uart) = ({h.f} \ {0}) \cup On(z)
    BY OnFront
  <2> QED BY <2>1
<1>4. ASSUME NEW n \in On(z), ~sent[n].hit PROVE Coming(n)'
  <2>1. n \in On(uart)
    BY <1>3
  <2>2. z # <<>>
    BY DEF On
  <2> QED BY <1>4, <2>1, <2>2, FrameStep
<1>5. LineInv'
  <2>1. On(uart') \subseteq {Len(sent')}
    BY <1>1, <1>3 DEF LineInv
  <2>2. \A n \in On(uart') : ~sent'[n].hit => Coming(n)'
    BY <1>1, <1>4
  <2> QED BY <2>1, <2>2 DEF LineInv
<1> QED BY <1>1, <1>2, <1>5

LEMMA LineStep == TypeOK /\ LineTypes /\ LineInv /\ [Next]_vars => LineTypes' /\ LineInv'
<1> SUFFICES ASSUME TypeOK, LineTypes, LineInv, [Next]_vars PROVE LineTypes' /\ LineInv'
  OBVIOUS
<1>1. ASSUME NEW p \in Payloads, SendFrame(p) PROVE LineTypes' /\ LineInv'
  <2>1. PICK n \in Nat : n = Len(sent)
    BY LenProperties DEF LineTypes
  <2>2. LineTypes' /\ DOMAIN sent' = 1 .. n + 1 /\ On(uart') = {n + 1} /\ Coming(n + 1)'
    BY <1>1, <2>1, SendStep
  <2>3. Len(sent') = n + 1
    <3>1. sent' \in Seq(Frame)
      BY <2>2 DEF LineTypes, Frame
    <3>2. Len(sent') \in Nat /\ DOMAIN sent' = 1 .. Len(sent')
      BY <3>1, LenProperties
    <3>3. \A k \in Nat : 1 .. k = 1 .. n + 1 => k = n + 1
      <4> TAKE k \in Nat
      <4> HAVE 1 .. k = 1 .. n + 1
      <4>1. n + 1 \in 1 .. n + 1 /\ k + 1 \notin 1 .. k
        OBVIOUS
      <4>2. n + 1 <= k /\ ~ (k + 1 <= n + 1)
        <5>1. n + 1 \in 1 .. k /\ k + 1 \notin 1 .. n + 1
          BY <4>1
        <5> QED BY <5>1
      <4> QED BY <4>2
    <3> QED BY <2>2, <3>2, <3>3
  <2> QED BY <2>2, <2>3 DEF LineInv
<1>2. ASSUME NEW l \in Typed, TypeLine(l) PROVE LineTypes' /\ LineInv'
  BY <1>2, TypeStepLine DEF LineInv
<1>3. CASE Fault
  <2>1. /\ On(uart') \subseteq On(uart) /\ Len(sent') = Len(sent)
        /\ \A n \in On(uart') : ~sent'[n].hit => Coming(n)'
    BY <1>3, FaultStep
  <2>2. LineTypes'
    BY <1>3, FaultTypes
  <2> QED BY <2>1, <2>2 DEF LineInv
<1>4. CASE Read
  BY <1>4, ReadFront, ReadLine
<1>5. CASE UNCHANGED vars
  <2>1. UNCHANGED <<uart, sent, typed, faults>> /\ UNCHANGED <<s_frame_started, s_frame_buf, s_escape_next>>
    BY <1>5, Zenon DEF vars, lineVars, hdlcVars
  <2>2. LineTypes'
    BY <2>1 DEF LineTypes
  <2>3. \A n : Coming(n)' <=> Coming(n)
    BY <2>1 DEF Coming, Under, BetweenBytes, InEscape, Holding
  <2> QED BY <2>1, <2>2, <2>3 DEF LineInv
<1> QED BY <1>1, <1>2, <1>3, <1>4, <1>5 DEF Next

-----------------------------------------------------------------------------
(* What arrives of what was sent.                                           *)

Oversize == DOMAIN sent \ Fitting

LEMMA SameMatch ==
  ASSUME NEW I, NEW J, J \subseteq I, NEW only \in BOOLEAN, only => J = I, Matched(I, only),
         \A i \in J : sent'[i].data = sent[i].data, delivered \in Seq(Snapshot), UNCHANGED delivered
  PROVE  Matched(J, only)'
  BY MatchedKept

\* A byte that is read matches one more frame, or none: the last flag of a frame that fits
\* delivers it, and on a clean line nothing else delivers a frame.
LEMMA ReadMatch ==
  ASSUME TypeOK, TypeOK', LineTypes, LineInv, NEW h \in Mark, NEW z \in Seq(Mark), uart = <<h>> \o z, Read,
         NEW F, F \subseteq Fitting, \A i \in F : ~sent[i].hit,
         NEW only \in BOOLEAN, Matched(F \ On(uart), only),
         only => /\ F = Fitting /\ \A i \in DOMAIN sent : ~sent[i].hit
                 /\ h.f # 0 /\ (h.open => s_frame_buf = <<>>)
  PROVE  Matched(F \ On(uart), only)'
<1>1. uart' = z /\ sent' = sent /\ delivered \in Seq(Snapshot)
  BY Reader DEF TypeOK
<1>2. On(uart) = ({h.f} \ {0}) \cup On(z)
  BY OnFront
<1>3. PICK I : I = F \ On(uart) /\ Matched(I, only)
  OBVIOUS
<1>4. PICK J : J = F \ On(z)
  OBVIOUS
<1>5. Matched(J, only)' => Matched(F \ On(uart), only)'
  <2>1. On(uart)' = On(z)
    BY <1>1 DEF On
  <2> QED BY <1>4, <2>1 DEF Matched, Delivers
<1>6. CASE \E n \in On(uart) : n \in F /\ n \notin On(z)
  <2>1. PICK n \in On(uart) : n \in F /\ n \notin On(z)
    BY <1>6
  <2>2. Behind(uart, n) /\ ReadFlag /\ z = <<>> /\ Holding(sent[n].data)
    BY <2>1, FrameStep
  <2>3. n \in DOMAIN sent /\ n \in Nat /\ n <= Len(sent) /\ n = Len(sent) /\ sent[n].data # <<>>
    BY <2>1, OnSent, SentFacts
  <2>4. s_frame_started /\ s_frame_buf = sent[n].data
    <3>1. Len(sent[n].data) <= FrameMax
      BY <2>1 DEF Fitting
    <3> QED BY <2>2, <3>1 DEF Holding
  <2>5. h.b = "flag"
    <3>1. Head(uart) = h
      BY MarkFront
    <3> QED BY <2>2, <3>1 DEF ReadFlag, Arrives
  <2>6. PICK d \in Snapshot : d.src = "hdlc" /\ d.raw = s_frame_buf /\ delivered' = Append(delivered, d)
    BY <2>3, <2>4, <2>5, Deliveries
  <2>7. J = I \cup {n} /\ \A i \in I : i \in Nat /\ i < n
    <3>1. On(uart) = {n} /\ On(z) = {}
      <4>1. On(z) = {}
        BY <2>2 DEF On
      <4>2. \A m \in On(uart) : m = n
        BY <2>3, OnSent
      <4> QED BY <2>1, <4>1, <4>2
    <3>2. \A i \in F : i \in Nat /\ i <= n
      <4>1. \A i \in DOMAIN sent : i \in Nat /\ i <= Len(sent)
        BY SentFacts
      <4> QED BY <2>3, <4>1 DEF Fitting
    <3>3. \A i \in I : i \in F /\ i # n
      BY <1>3, <3>1
    <3> QED BY <1>3, <1>4, <2>1, <2>3, <3>1, <3>2, <3>3
  <2>8. Matched(I \cup {n}, only)'
    BY <1>1, <1>3, <2>3, <2>4, <2>6, <2>7, MatchedMore
  <2> QED BY <1>5, <2>7, <2>8
<1>7. CASE \A n \in On(uart) : n \in F => n \in On(z)
  <2>1. J = I
    BY <1>2, <1>3, <1>4, <1>7
  <2>2. \/ UNCHANGED delivered
        \/ \E d \in Snapshot : delivered' = Append(delivered, d) /\ (only => d.src # "hdlc")
    <3>1. CASE ~only
      BY <3>1, Deliveries
    <3>2. CASE only
      <4>1. CASE h.b # "flag"
        BY <4>1, Deliveries
      <4>2. CASE h.b = "flag"
        <5>1. PICK n \in On(uart) : n = h.f
          BY <1>2, <3>2
        <5>2. n \in DOMAIN sent /\ ~sent[n].hit
          BY <3>2, <5>1, OnSent
        <5>3. ~ (s_frame_started /\ s_frame_buf # <<>>)
          <6>1. CASE n \in On(z)
            <7>1. h.open
              <8>1. z # <<>>
                BY <6>1 DEF On
              <8> QED BY <3>2, <4>2, <5>1, <5>2, <8>1, FrameStep
            <7> QED BY <3>2, <7>1
          <6>2. CASE n \notin On(z)
            <7>1. Holding(sent[n].data)
              BY <5>2, <6>2, FrameStep
            <7>2. ~ (Len(sent[n].data) <= FrameMax)
              BY <1>7, <3>2, <5>2, <6>2 DEF Fitting
            <7> QED BY <7>1, <7>2 DEF Holding
          <6> QED BY <6>1, <6>2
        <5> QED BY <4>2, <5>3, Deliveries
      <4> QED BY <4>1, <4>2
    <3> QED BY <3>1, <3>2
  <2>3. Matched(J, only)'
    BY <1>1, <1>3, <2>1, <2>2, MatchedKept
  <2> QED BY <1>5, <2>3
<1> QED BY <1>6, <1>7

\* The frames no fault has hit, once off the line, have arrived.
DamageInv == Matched(Intact \ On(uart), FALSE)

LEMMA DamageStep ==
  TypeOK /\ TypeOK' /\ LineTypes /\ LineInv /\ DamageInv /\ [Next]_vars => DamageInv'
<1> SUFFICES ASSUME TypeOK, TypeOK', LineTypes, LineInv, DamageInv, [Next]_vars PROVE DamageInv'
  OBVIOUS
<1>0. delivered \in Seq(Snapshot)
  BY DEF TypeOK
<1>1. PICK I : I = Intact \ On(uart) /\ Matched(I, FALSE)
  BY DEF DamageInv
<1>2. PICK J : J = Intact' \ On(uart')
  OBVIOUS
<1>3. ASSUME J \subseteq I, \A i \in J : sent'[i].data = sent[i].data, UNCHANGED delivered PROVE DamageInv'
  <2>1. Matched(J, FALSE)'
    BY <1>0, <1>1, <1>3, SameMatch
  <2>2. J = (Intact \ On(uart))'
    BY <1>2 DEF On
  <2> QED BY <2>1, <2>2 DEF DamageInv, Matched, Delivers
<1>4. ASSUME NEW p \in Payloads, SendFrame(p) PROVE DamageInv'
  <2>1. PICK n \in Nat : n = Len(sent)
    BY LenProperties DEF LineTypes
  <2>2. /\ DOMAIN sent = 1 .. n /\ DOMAIN sent' = 1 .. n + 1 /\ \A i \in 1 .. n : sent'[i] = sent[i]
        /\ On(uart) = {} /\ On(uart') = {n + 1}
    BY <1>4, <2>1, SendStep
  <2>3. \A i \in J : i \in 1 .. n /\ i \in I
    BY <1>1, <1>2, <2>2 DEF Intact, Fitting
  <2>4. UNCHANGED delivered
    BY <1>4 DEF SendFrame
  <2> QED BY <1>3, <2>2, <2>3, <2>4
<1>5. ASSUME NEW l \in Typed, TypeLine(l) PROVE DamageInv'
  <2>1. UNCHANGED sent /\ On(uart) = {} /\ On(uart') = {}
    BY <1>5, TypeStepLine
  <2>2. J = I
    BY <1>1, <1>2, <2>1 DEF Intact, Fitting
  <2>3. UNCHANGED delivered
    BY <1>5 DEF TypeLine
  <2> QED BY <1>3, <2>1, <2>2, <2>3
<1>6. CASE Fault
  <2>1. /\ Len(sent') = Len(sent) /\ sent' \in Seq(Frame) /\ sent \in Seq(Frame)
        /\ \A i \in DOMAIN sent : sent'[i].data = sent[i].data /\ (sent[i].hit => sent'[i].hit)
        /\ \A n \in On(uart) \ On(uart') : sent'[n].hit
    BY <1>6, FaultStep DEF LineTypes, Frame
  <2>2. DOMAIN sent' = DOMAIN sent
    BY <2>1, LenProperties
  <2>3. \A i \in J : i \in I /\ i \in DOMAIN sent
    BY <1>1, <1>2, <2>1, <2>2 DEF Intact, Fitting
  <2>4. UNCHANGED delivered
    BY <1>6 DEF Fault
  <2> QED BY <1>3, <2>1, <2>3, <2>4
<1>7. CASE Read
  <2>1. PICK h \in Mark, z \in Seq(Mark) : uart = <<h>> \o z
    BY <1>7, ReadFront
  <2>2. PICK F : F = Intact
    OBVIOUS
  <2>3. Matched(F \ On(uart), FALSE)'
    <3>1. F \subseteq Fitting /\ \A i \in F : ~sent[i].hit
      BY <2>2 DEF Intact
    <3>2. Matched(F \ On(uart), FALSE)
      BY <1>1, <2>2
    <3> QED BY <1>7, <2>1, <3>1, <3>2, ReadMatch
  <2>4. Intact' = F
    <3>1. sent' = sent
      BY <1>7, <2>1, Reader
    <3> QED BY <2>2, <3>1 DEF Intact, Fitting
  <2> QED BY <2>3, <2>4 DEF DamageInv, Matched, Delivers
<1>8. CASE UNCHANGED vars
  <2>1. UNCHANGED <<uart, sent, delivered>>
    BY <1>8, Zenon DEF vars, lineVars
  <2>2. J = I
    BY <1>1, <1>2, <2>1 DEF Intact, Fitting
  <2> QED BY <1>3, <2>1, <2>2
<1> QED BY <1>4, <1>5, <1>6, <1>7, <1>8 DEF Next

\* On a clean line, where only frames are sent: what has left the line has arrived, and
\* nothing else; a frame that does not fit is counted when its overflow is met.
Clean    == faults = 0 /\ typed = 0
Opened   == uart = <<>> \/ uart[1].open
Overflow == ~Opened /\ ~s_frame_started

CleanInv ==
  Clean =>
    /\ \A i \in DOMAIN sent : ~sent[i].hit
    /\ \A i \in DOMAIN uart : uart[i].f # 0
    /\ Opened => s_frame_buf = <<>>
    /\ Matched(Fitting \ On(uart), TRUE)
    /\ Dropped = Cardinality(Oversize \ On(uart)) + (IF Overflow THEN 1 ELSE 0)

LEMMA InitDelivers ==
  Init => LineTypes /\ LineInv /\ DamageInv /\ CleanInv
<1> SUFFICES ASSUME Init PROVE LineTypes /\ LineInv /\ DamageInv /\ CleanInv
  OBVIOUS
<1>1. /\ uart = <<>> /\ sent = <<>> /\ typed = 0 /\ faults = 0 /\ delivered = <<>> /\ s_frame_buf = <<>>
      /\ s_seq = 0 /\ s_frames_rx = 0 /\ s_frames_bad = 0
  BY DEF Init
<1>2. On(uart) = {} /\ DOMAIN sent = {} /\ DOMAIN uart = {} /\ Hdlc = {}
  BY <1>1 DEF On, Hdlc
<1>3. LineTypes
  BY <1>1, <1>2, EmptyIsSeq DEF LineTypes
<1>4. LineInv
  BY <1>2 DEF LineInv
<1>5. ASSUME NEW only \in BOOLEAN PROVE Matched({}, only)
  <2>1. PICK g : g = [i \in {} |-> 0]
    OBVIOUS
  <2>2. g \in [{} -> Hdlc]
    BY <2>1
  <2>3. Delivers(g, {})
    BY DEF Delivers
  <2> QED BY <1>2, <2>2, <2>3 DEF Matched
<1>6. Fitting = {} /\ Intact = {} /\ Oversize = {}
  BY <1>2 DEF Fitting, Intact, Oversize
<1>7. DamageInv
  <2>1. Intact \ On(uart) = {}
    BY <1>6
  <2> QED BY <1>5, <2>1 DEF DamageInv
<1>8. CleanInv
  <2>1. Fitting \ On(uart) = {} /\ Oversize \ On(uart) = {} /\ Cardinality({}) = 0
    BY <1>6, FS_EmptySet
  <2>2. Dropped = 0 /\ Opened /\ ~Overflow
    BY <1>1 DEF Dropped, Opened, Overflow
  <2>3. Matched(Fitting \ On(uart), TRUE)
    BY <1>5, <2>1
  <2>4. Dropped = Cardinality(Oversize \ On(uart)) + (IF Overflow THEN 1 ELSE 0)
    BY <2>1, <2>2
  <2> QED BY <1>1, <1>2, <2>3, <2>4 DEF CleanInv
<1> QED BY <1>3, <1>4, <1>7, <1>8

LEMMA OversizeFinite ==
  LineTypes => \A X : /\ IsFiniteSet(Oversize \ X) /\ Cardinality(Oversize \ X) \in Nat
                      /\ \A n \in Oversize \ X : Cardinality(Oversize \ X) = Cardinality(Oversize \ (X \cup {n})) + 1
<1> SUFFICES ASSUME LineTypes, NEW X
             PROVE  /\ IsFiniteSet(Oversize \ X) /\ Cardinality(Oversize \ X) \in Nat
                    /\ \A n \in Oversize \ X : Cardinality(Oversize \ X) = Cardinality(Oversize \ (X \cup {n})) + 1
  OBVIOUS
<1>1. PICK n \in Nat : DOMAIN sent = 1 .. n
  BY LenProperties DEF LineTypes
<1>2. PICK S : S = Oversize \ X
  OBVIOUS
<1>3. IsFiniteSet(1 .. n)
  BY FS_Interval
<1>4. S \subseteq 1 .. n
  BY <1>1, <1>2 DEF Oversize
<1>5. IsFiniteSet(S)
  BY <1>3, <1>4, FS_Subset
<1>6. Cardinality(S) \in Nat
  BY <1>5, FS_CardinalityType
<1>7. ASSUME NEW m \in S PROVE Cardinality(S) = Cardinality(Oversize \ (X \cup {m})) + 1
  <2>1. Oversize \ (X \cup {m}) = S \ {m}
    BY <1>2
  <2>2. Cardinality(S \ {m}) = Cardinality(S) - 1
    BY <1>5, FS_RemoveElement
  <2> QED BY <1>6, <2>1, <2>2
<1> QED BY <1>2, <1>5, <1>6, <1>7

\* A byte that is read keeps the count of the frames that were too long.
LEMMA ReadCount ==
  ASSUME TypeOK, TypeOK', LineTypes, LineInv, NEW h \in Mark, NEW z \in Seq(Mark), uart = <<h>> \o z, Read,
         h.f # 0, \A i \in DOMAIN sent : ~sent[i].hit, h.open => s_frame_buf = <<>>,
         Dropped = Cardinality(Oversize \ On(uart)) + (IF Overflow THEN 1 ELSE 0)
  PROVE  /\ Dropped' = Cardinality(Oversize' \ On(uart')) + (IF Overflow' THEN 1 ELSE 0)
         /\ Opened' => s_frame_buf' = <<>>
<1>1. uart' = z /\ sent' = sent
  BY Reader
<1>2. Oversize' = Oversize
  BY <1>1 DEF Oversize, Fitting
<1>3. PICK n \in On(uart) : n = h.f /\ On(uart) = {n} \cup On(z)
  <2>1. On(uart) = ({h.f} \ {0}) \cup On(z)
    BY OnFront
  <2> QED BY <2>1
<1>4. n \in DOMAIN sent /\ n \in Nat \ {0} /\ ~sent[n].hit /\ \A m \in On(uart) : m = n
  BY <1>3, OnSent, SentFacts
<1>5. uart # <<>> /\ uart[1] = h
  BY MarkFront
<1>6. PICK c \in Nat : c = Cardinality(Oversize \ On(uart))
  BY OversizeFinite
<1>7. CASE n \in On(z)
  <2>1. On(z) = On(uart)
    BY <1>3, <1>7
  <2>2. z # <<>>
    BY <1>7 DEF On
  <2>3. CASE h.open
    <3>1. h.b = "flag" /\ Behind(z, n)
      <4>1. CASE Behind(uart, n)
        BY <2>3, <4>1, BehindFront
      <4>2. CASE Ahead(uart, n, sent[n].data)
        <5>1. PICK k \in Mark, y \in Seq(Mark) :
                 /\ uart = <<k>> \o y
                 /\ \/ k.f = 0 /\ ~k.open /\ Ahead(y, n, sent[n].data)
                    \/ k = Opening(n) /\ Behind(y, n) /\ BytesOf(y) = Rest(sent[n].data)
          <6>1. n \in Nat /\ sent[n].data \in Seq(Byte)
            BY <1>4, SentFacts
          <6> QED BY <4>2, <6>1, AheadFront
        <5>2. k = h /\ y = z
          BY <5>1, MarkFront
        <5>3. Opening(n).b = "flag"
          BY DEF Opening
        <5> QED BY <1>3, <1>4, <5>1, <5>2, <5>3
      <4> QED BY <1>4, <4>1, <4>2 DEF LineInv, Coming
    <3>2. s_frame_started' /\ s_frame_buf' = <<>> /\ Dropped' = Dropped
      BY <3>1, Deliveries
    <3>3. ~Overflow /\ ~Overflow'
      BY <1>5, <2>3, <3>2 DEF Overflow, Opened
    <3> QED BY <1>1, <1>2, <1>6, <2>1, <3>2, <3>3
  <2>4. CASE ~h.open
    <3>1. Behind(z, n) /\ h.b # "flag"
      BY <1>3, <1>4, <1>7, <2>2, <2>4, FrameStep
    <3>2. z[1].open = FALSE \/ ~z[1].open
      <4>1. 1 \in DOMAIN z
        <5>1. DOMAIN z = 1 .. Len(z) /\ Len(z) \in Nat /\ Len(z) # 0
          BY <2>2, LenProperties, EmptySeq
        <5> QED BY <5>1
      <4> QED BY <3>1, <4>1 DEF Behind
    <3>3. ~Opened /\ ~Opened'
      BY <1>1, <1>5, <2>2, <2>4, <3>2 DEF Opened
    <3>4. /\ s_frame_started' => s_frame_started
          /\ Dropped' = Dropped + (IF s_frame_started /\ ~s_frame_started' THEN 1 ELSE 0)
      BY <3>1, Deliveries
    <3>5. Dropped' = c + (IF Overflow' THEN 1 ELSE 0)
      BY <1>6, <3>3, <3>4 DEF Overflow
    <3> QED BY <1>1, <1>2, <1>6, <2>1, <3>3, <3>5
  <2> QED BY <2>3, <2>4
<1>8. CASE n \notin On(z)
  <2>1. Behind(uart, n) /\ ReadFlag /\ z = <<>> /\ Holding(sent[n].data)
    BY <1>4, <1>8, FrameStep
  <2>2. h.b = "flag"
    <3>1. Head(uart) = h
      BY MarkFront
    <3> QED BY <2>1, <3>1 DEF ReadFlag, Arrives
  <2>3. s_frame_started' /\ s_frame_buf' = <<>> /\ Dropped' = Dropped
    BY <2>2, Deliveries
  <2>4. Opened' /\ ~Overflow' /\ ~Opened
    <3>1. ~h.open
      BY <2>1, BehindFront
    <3> QED BY <1>1, <1>5, <2>1, <3>1 DEF Opened, Overflow
  <2>5. On(uart) = {n} /\ On(uart') = {}
    BY <1>1, <1>3, <2>1 DEF On
  <2>6. CASE Len(sent[n].data) <= FrameMax
    <3>1. s_frame_started /\ n \notin Oversize
      BY <1>4, <2>1, <2>6 DEF Holding, Oversize, Fitting
    <3>2. Oversize \ On(uart) = Oversize \ On(uart')
      BY <2>5, <3>1
    <3>3. ~Overflow
      BY <3>1 DEF Overflow
    <3> QED BY <1>2, <1>6, <2>3, <2>4, <3>2, <3>3
  <2>7. CASE ~ (Len(sent[n].data) <= FrameMax)
    <3>1. ~s_frame_started /\ n \in Oversize
      BY <1>4, <2>1, <2>7 DEF Holding, Oversize, Fitting
    <3>2. Cardinality(Oversize \ {}) = Cardinality(Oversize \ ({} \cup {n})) + 1
      BY <3>1, OversizeFinite
    <3>3. {} \cup {n} = On(uart) /\ {} = On(uart')
      BY <2>5
    <3>4. Overflow
      BY <2>4, <3>1 DEF Overflow
    <3>5. Cardinality(Oversize \ On(uart')) = c + 1
      BY <1>6, <3>2, <3>3
    <3> QED BY <1>2, <1>6, <2>3, <2>4, <3>4, <3>5
  <2> QED BY <2>6, <2>7
<1> QED BY <1>7, <1>8

LEMMA CleanIs ==
  ASSUME \A i \in DOMAIN sent' : ~sent'[i].hit, \A i \in DOMAIN uart' : uart'[i].f # 0,
         Opened' => s_frame_buf' = <<>>,
         NEW J, J = Fitting' \ On(uart'), Matched(J, TRUE)',
         Dropped' = Cardinality(Oversize' \ On(uart')) + (IF Overflow' THEN 1 ELSE 0)
  PROVE  CleanInv'
<1>1. J = (Fitting \ On(uart))' /\ Oversize' \ On(uart') = (Oversize \ On(uart))'
  BY DEF On
<1>2. Matched(Fitting \ On(uart), TRUE)'
  BY <1>1 DEF Matched, Delivers
<1>3. (Dropped = Cardinality(Oversize \ On(uart)) + (IF Overflow THEN 1 ELSE 0))'
  BY <1>1
<1> QED BY <1>2, <1>3 DEF CleanInv

LEMMA CleanStep ==
  TypeOK /\ TypeOK' /\ LineTypes /\ LineInv /\ CleanInv /\ [Next]_vars => CleanInv'
<1> SUFFICES ASSUME TypeOK, TypeOK', LineTypes, LineInv, CleanInv, [Next]_vars, Clean' PROVE CleanInv'
  BY DEF CleanInv
<1>0. delivered \in Seq(Snapshot)
  BY DEF TypeOK
<1>1. ASSUME NEW p \in Payloads, SendFrame(p) PROVE CleanInv'
  <2>1. PICK n \in Nat : n = Len(sent)
    BY LenProperties DEF LineTypes
  <2>2. /\ DOMAIN sent = 1 .. n /\ DOMAIN sent' = 1 .. n + 1 /\ \A i \in 1 .. n : sent'[i] = sent[i]
        /\ ~sent'[n + 1].hit /\ On(uart) = {} /\ On(uart') = {n + 1}
        /\ uart' # <<>> /\ uart'[1].open /\ \A i \in DOMAIN uart' : uart'[i].f # 0
    BY <1>1, <2>1, SendStep
  <2>3. UNCHANGED <<typed, faults, hdlcVars, line, countVars, windowVars, delivered>> /\ uart = <<>>
    BY <1>1 DEF SendFrame
  <2>4. UNCHANGED <<typed, faults, delivered, s_frame_buf>> /\ Dropped' = Dropped
    BY <2>3 DEF hdlcVars, countVars, Dropped
  <2>5. Clean
    BY <2>4 DEF Clean
  <2>6. Opened /\ Opened' /\ ~Overflow /\ ~Overflow'
    BY <2>2, <2>3 DEF Opened, Overflow
  <2>7. PICK I : I = Fitting \ On(uart) /\ Matched(I, TRUE)
    BY <2>5 DEF CleanInv
  <2>8. Fitting' \ On(uart') = I /\ Oversize' \ On(uart') = Oversize \ On(uart)
    <3>1. \A i : i \in 1 .. n + 1 /\ i # n + 1 <=> i \in 1 .. n
      OBVIOUS
    <3> QED BY <2>2, <2>7, <3>1 DEF Fitting, Oversize
  <2>9. Matched(I, TRUE)'
    <3>1. \A i \in I : sent'[i].data = sent[i].data
      BY <2>2, <2>7 DEF Fitting
    <3> QED BY <1>0, <2>4, <2>7, <3>1, SameMatch
  <2>10. \A i \in DOMAIN sent' : ~sent'[i].hit
    <3> TAKE i \in DOMAIN sent'
    <3>1. i = n + 1 \/ i \in 1 .. n
      BY <2>2
    <3> QED BY <2>2, <2>5, <3>1 DEF CleanInv
  <2>11. Dropped' = Cardinality(Oversize' \ On(uart')) + (IF Overflow' THEN 1 ELSE 0)
    BY <2>4, <2>5, <2>6, <2>8 DEF CleanInv
  <2>12. s_frame_buf' = <<>>
    BY <2>4, <2>5, <2>6 DEF CleanInv
  <2> QED BY <2>2, <2>8, <2>9, <2>10, <2>11, <2>12, CleanIs
<1>2. ASSUME NEW l \in Typed, TypeLine(l) PROVE CleanInv'
  BY <1>2, TypeStepLine DEF Clean
<1>3. CASE Fault
  BY <1>3, FaultTypes DEF Clean
<1>4. CASE Read
  <2>1. PICK h \in Mark, z \in Seq(Mark) : uart = <<h>> \o z
    BY <1>4, ReadFront
  <2>2. uart' = z /\ sent' = sent /\ typed' = typed /\ faults' = faults
    BY <1>4, <2>1, Reader
  <2>3. Clean
    BY <2>2 DEF Clean
  <2>4. PICK k \in Nat : /\ uart # <<>> /\ uart[1] = h /\ DOMAIN uart = 1 .. k + 1 /\ DOMAIN z = 1 .. k
                         /\ \A i \in 1 .. k : uart[i + 1] = z[i]
    <3>1. PICK k \in Nat : k = Len(z)
      BY LenProperties
    <3> QED BY <2>1, <3>1, MarkFront
  <2>5. \A i \in DOMAIN sent : ~sent[i].hit
    BY <2>3 DEF CleanInv
  <2>6. h.f # 0 /\ \A i \in DOMAIN uart' : uart'[i].f # 0
    <3>1. 1 \in 1 .. k + 1 /\ \A i \in 1 .. k : i + 1 \in 1 .. k + 1
      OBVIOUS
    <3>2. \A i \in 1 .. k + 1 : uart[i].f # 0
      BY <2>3, <2>4 DEF CleanInv
    <3> QED BY <2>2, <2>4, <3>1, <3>2
  <2>7. h.open => s_frame_buf = <<>>
    BY <2>3, <2>4 DEF CleanInv, Opened
  <2>8. /\ Dropped' = Cardinality(Oversize' \ On(uart')) + (IF Overflow' THEN 1 ELSE 0)
        /\ Opened' => s_frame_buf' = <<>>
    <3>1. Dropped = Cardinality(Oversize \ On(uart)) + (IF Overflow THEN 1 ELSE 0)
      BY <2>3 DEF CleanInv
    <3> QED BY <1>4, <2>1, <2>5, <2>6, <2>7, <3>1, ReadCount
  <2>9. PICK F : F = Fitting
    OBVIOUS
  <2>10. Matched(F \ On(uart), TRUE)'
    <3>1. Matched(F \ On(uart), TRUE)
      BY <2>3, <2>9 DEF CleanInv
    <3>2. F \subseteq Fitting /\ \A i \in F : ~sent[i].hit
      BY <2>5, <2>9 DEF Fitting
    <3> QED BY <1>4, <2>1, <2>5, <2>6, <2>7, <2>9, <3>1, <3>2, ReadMatch
  <2>11. Fitting' = F
    BY <2>2, <2>9 DEF Fitting
  <2>12. PICK J : J = Fitting' \ On(uart') /\ Matched(J, TRUE)'
    BY <2>10, <2>11, Z3T(30) DEF Matched, Delivers, On
  <2> QED BY <2>2, <2>5, <2>6, <2>8, <2>12, CleanIs
<1>5. CASE UNCHANGED vars
  <2>1. UNCHANGED <<uart, sent, typed, faults, s_frame_started, s_frame_buf, s_seq, s_frames_rx, s_frames_bad, delivered>>
    BY <1>5, Zenon DEF vars, lineVars, hdlcVars, countVars
  <2>2. Clean
    BY <2>1 DEF Clean
  <2>3. UNCHANGED <<Dropped, Oversize, Opened, Overflow, Fitting, Hdlc, s_frame_buf>>
    BY <2>1, Zenon DEF Dropped, Oversize, Opened, Overflow, Fitting, Hdlc
  <2>4. PICK I : I = Fitting \ On(uart) /\ Matched(I, TRUE)
    BY <2>2 DEF CleanInv
  <2>5. Matched(I, TRUE)' /\ I = Fitting' \ On(uart')
    <3>1. \A i \in I : sent'[i].data = sent[i].data
      BY <2>1
    <3> QED BY <1>0, <2>1, <2>3, <2>4, <3>1, SameMatch
  <2>6. Dropped' = Cardinality(Oversize' \ On(uart')) + (IF Overflow' THEN 1 ELSE 0)
    BY <2>1, <2>2, <2>3, Zenon DEF CleanInv
  <2>7. Opened' => s_frame_buf' = <<>>
    BY <2>1, <2>2, <2>3, Zenon DEF CleanInv
  <2> QED BY <2>1, <2>2, <2>5, <2>6, <2>7, CleanIs DEF CleanInv
<1> QED BY <1>1, <1>2, <1>3, <1>4, <1>5 DEF Next

-----------------------------------------------------------------------------
(* The theorems.                                                            *)

ArrivalInv == TypeOK /\ LineTypes /\ LineInv /\ DamageInv /\ CleanInv

LEMMA Arrivals == Spec => []ArrivalInv
<1>1. Init => ArrivalInv
  BY InitType, InitDelivers DEF ArrivalInv
<1>2. ArrivalInv /\ [Next]_vars => ArrivalInv'
  BY TypeStep, LineStep, DamageStep, CleanStep DEF ArrivalInv
<1> QED BY <1>1, <1>2, PTL DEF Spec

\* A byte that is lost, changed or added damages no other frame than the one it was in:
\* every other frame that fits the buffer is delivered, byte for byte and in order.
THEOREM DamageLocal == Spec => []DamageIsLocal
<1>1. ArrivalInv => DamageIsLocal
  <2> SUFFICES ASSUME DamageInv, Quiet PROVE \E g \in [Intact -> Hdlc] : Delivers(g, Intact)
    BY DEF ArrivalInv, DamageIsLocal
  <2>1. Intact \ On(uart) = Intact
    BY DEF Quiet, On
  <2>2. Matched(Intact, FALSE)
    BY <2>1 DEF DamageInv
  <2> QED BY <2>2 DEF Matched
<1> QED BY <1>1, Arrivals, PTL

\* On a clean line every frame that fits the buffer is delivered once, in order and byte
\* for byte, nothing else is delivered as a frame, and frames_bad counts the others.
THEOREM CleanLine == Spec => []CleanLineIsExact
<1>1. ArrivalInv => CleanLineIsExact
  <2> SUFFICES ASSUME ArrivalInv, faults = 0, typed = 0, Quiet
               PROVE  /\ \E g \in [Fitting -> Hdlc] : Delivers(g, Fitting) /\ \A j \in Hdlc : \E i \in Fitting : g[i] = j
                      /\ s_frames_bad - (s_seq - s_frames_rx) = Cardinality(DOMAIN sent \ Fitting)
    BY DEF CleanLineIsExact
  <2>1. /\ Matched(Fitting \ On(uart), TRUE)
        /\ Dropped = Cardinality(Oversize \ On(uart)) + (IF Overflow THEN 1 ELSE 0)
    BY DEF ArrivalInv, CleanInv, Clean
  <2>2. On(uart) = {} /\ ~Overflow
    BY DEF Quiet, On, Overflow, Opened
  <2>3. Fitting \ On(uart) = Fitting /\ Oversize \ On(uart) = Oversize /\ Cardinality(Oversize) \in Nat
    <3>1. Cardinality(Oversize \ On(uart)) \in Nat
      BY OversizeFinite DEF ArrivalInv
    <3>2. Oversize \ On(uart) = Oversize
      BY <2>2
    <3> QED BY <2>2, <3>1, <3>2
  <2>4. Matched(Fitting, TRUE)
    BY <2>1, <2>3
  <2>5. Dropped = Cardinality(Oversize)
    BY <2>1, <2>2, <2>3
  <2> QED BY <2>4, <2>5 DEF Matched, Dropped, Oversize
<1> QED BY <1>1, Arrivals, PTL

-----------------------------------------------------------------------------
(* The command that is typed.                                               *)

\* The reader, unfolded once.
Reading(r, t, n) == r = [k \in 0 .. n |-> IF k = 0 THEN ReadStart ELSE ReadChar(r[k - 1], t[k])]

StateAfter(t) == (CHOOSE r : Reading(r, t, Len(t)))[Len(t)]

LEMMA SplitIs ==
  ASSUME NEW t
  PROVE  split_escaped_fields(t)
           = Append(StateAfter(t).fields, IF StateAfter(t).escaping THEN Append(StateAfter(t).buf, Bs) ELSE StateAfter(t).buf)
  BY DEF split_escaped_fields, StateAfter, Reading

LEMMA ReadingExists == ASSUME NEW t, NEW n \in Nat PROVE \E r : Reading(r, t, n)
<1> DEFINE T == {m \in Nat : ~ \E r : Reading(r, t, m)}
<1> SUFFICES ASSUME T # {} PROVE FALSE
  OBVIOUS
<1>1. PICK m \in T : \A k \in T : m <= k
  BY Least
<1>2. m \in Nat /\ ~ \E r : Reading(r, t, m)
  BY <1>1
<1>3. CASE m = 0
  <2>1. Reading([k \in 0 .. 0 |-> ReadStart], t, 0)
    BY DEF Reading
  <2> QED BY <1>2, <1>3, <2>1
<1>4. CASE m # 0
  <2>1. PICK r : Reading(r, t, m - 1)
    <3>1. m - 1 \in Nat /\ m - 1 \notin T
      BY <1>1, <1>2, <1>4
    <3> QED BY <3>1
  <2> DEFINE g == [k \in 0 .. m |-> IF k = m THEN ReadChar(r[m - 1], t[m]) ELSE r[k]]
  <2>2. ASSUME NEW k \in 0 .. m
        PROVE  g[k] = IF k = 0 THEN ReadStart ELSE ReadChar(g[k - 1], t[k])
    <3>1. CASE k = m
      BY <1>2, <1>4, <3>1
    <3>2. CASE k # m
      <4>1. k \in 0 .. m - 1 /\ (k # 0 => k - 1 \in 0 .. m - 1)
        BY <1>2, <3>2
      <4>2. r[k] = IF k = 0 THEN ReadStart ELSE ReadChar(r[k - 1], t[k])
        BY <2>1, <4>1 DEF Reading
      <4>3. g[k] = r[k] /\ (k # 0 => g[k - 1] = r[k - 1])
        BY <1>2, <3>2, <4>1
      <4> QED BY <4>2, <4>3
    <3> QED BY <3>1, <3>2
  <2>3. g = [k \in 0 .. m |-> g[k]]
    OBVIOUS
  <2> HIDE DEF g
  <2>4. Reading(g, t, m)
    BY <2>2, <2>3 DEF Reading
  <2> QED BY <1>2, <2>4
<1> QED BY <1>3, <1>4

LEMMA ReadingAgrees ==
  ASSUME NEW n \in Nat, NEW t, NEW u, NEW r, NEW g
  PROVE  Reading(r, t, n) /\ Reading(g, u, n + 1) /\ (\A i \in 1 .. n : u[i] = t[i])
           => \A i \in 0 .. n : g[i] = r[i]
<1> DEFINE T == {i \in 0 .. n : g[i] # r[i]}
<1> SUFFICES ASSUME Reading(r, t, n), Reading(g, u, n + 1), \A i \in 1 .. n : u[i] = t[i], T # {}
             PROVE  FALSE
  OBVIOUS
<1>1. PICK i \in T : \A k \in T : i <= k
  <2>1. T \subseteq Nat
    OBVIOUS
  <2> QED BY <2>1, Least
<1>2. i \in 0 .. n /\ i \in 0 .. n + 1 /\ (i # 0 => i \in 1 .. n)
  BY <1>1
<1>3. /\ r[i] = (IF i = 0 THEN ReadStart ELSE ReadChar(r[i - 1], t[i]))
      /\ g[i] = (IF i = 0 THEN ReadStart ELSE ReadChar(g[i - 1], u[i]))
  BY <1>2 DEF Reading
<1>4. i # 0 => i - 1 \in 0 .. n /\ i - 1 \notin T
  BY <1>1, <1>2
<1> QED BY <1>1, <1>2, <1>3, <1>4

\* One more character.
LEMMA ReadAppend ==
  ASSUME NEW S, NEW t \in Seq(S), NEW c \in S
  PROVE  StateAfter(Append(t, c)) = ReadChar(StateAfter(t), c)
<1>1. PICK n \in Nat : n = Len(t)
  BY LenProperties
<1>2. PICK u : u = Append(t, c)
  OBVIOUS
<1>3. Len(u) = n + 1 /\ u[n + 1] = c /\ \A i \in 1 .. n : u[i] = t[i]
  BY <1>1, <1>2, AppendProperties
<1>4. PICK r : Reading(r, t, n) /\ StateAfter(t) = r[n]
  BY <1>1, ReadingExists DEF StateAfter
<1>5. PICK g : Reading(g, u, n + 1) /\ StateAfter(u) = g[n + 1]
  <2>1. n + 1 \in Nat
    OBVIOUS
  <2> QED BY <1>3, <2>1, ReadingExists DEF StateAfter
<1>6. g[n] = r[n]
  <2>1. Reading(r, t, n) /\ Reading(g, u, n + 1) /\ (\A i \in 1 .. n : u[i] = t[i])
          => \A i \in 0 .. n : g[i] = r[i]
    BY ReadingAgrees
  <2> QED BY <1>3, <1>4, <1>5, <2>1
<1>7. g[n + 1] = ReadChar(g[n], u[n + 1])
  <2>1. n + 1 \in 0 .. n + 1 /\ n + 1 # 0 /\ (n + 1) - 1 = n
    OBVIOUS
  <2>2. g[n + 1] = IF n + 1 = 0 THEN ReadStart ELSE ReadChar(g[(n + 1) - 1], u[n + 1])
    BY <1>5, <2>1 DEF Reading
  <2> QED BY <2>1, <2>2
<1> QED BY <1>2, <1>3, <1>4, <1>5, <1>6, <1>7

LEMMA ReadNothing == StateAfter(<<>>) = ReadStart
<1>1. PICK r : Reading(r, <<>>, 0) /\ StateAfter(<<>>) = r[0]
  BY ReadingExists DEF StateAfter
<1> QED BY <1>1 DEF Reading

\* The characters of a text, and the states of the reader.
Letter == STRING \cup {Comma, Bs, Nl, Cr, "n", "r", "*"}
Text   == Seq(Letter)
State  == [fields : Seq(Text), buf : Text, escaping : BOOLEAN]

LEMMA TextAssociative == \A u, v, w \in Text : (u \o v) \o w = u \o (v \o w)
<1>1. \A u, v, w \in Seq(Letter) : (u \o v) \o w = u \o (v \o w)
  <2> TAKE u, v, w \in Seq(Letter)
  <2> QED BY ConcatAssociative
<1> QED BY <1>1 DEF Text

\* Between two characters: finished fields and the field being read.
Between(s, fields, buf) == s \in State /\ s.fields = fields /\ s.buf = buf /\ ~s.escaping

LEMMA StartBetween == Between(ReadStart, <<>>, <<>>)
<1>1. <<>> \in Text /\ <<>> \in Seq(Text)
  BY DEF Text
<1>2. FALSE \in BOOLEAN
  OBVIOUS
<1>3. ReadStart \in State
  BY <1>1, <1>2, Zenon DEF ReadStart, State
<1>4. ReadStart.fields = <<>> /\ ReadStart.buf = <<>> /\ ~ReadStart.escaping
  BY DEF ReadStart
<1> QED BY <1>3, <1>4 DEF Between

LEMMA ReadPlain ==
  ASSUME NEW s, NEW fields, NEW buf, Between(s, fields, buf), NEW c \in Letter, c # Bs, c # Comma
  PROVE  Between(ReadChar(s, c), fields, Append(buf, c))
<1>1. ReadChar(s, c) = [s EXCEPT !.buf = Append(s.buf, c)]
  BY DEF ReadChar, Between
<1>2. Append(s.buf, c) \in Text
  BY AppendProperties DEF Between, State, Text
<1> QED BY <1>1, <1>2 DEF Between, State

LEMMA ReadComma ==
  ASSUME NEW s, NEW fields, NEW buf, Between(s, fields, buf)
  PROVE  Between(ReadChar(s, Comma), Append(fields, buf), <<>>)
<1>1. ReadChar(s, Comma) = [s EXCEPT !.fields = Append(s.fields, s.buf), !.buf = <<>>]
  BY DEF ReadChar, EndField, Between, Comma, Bs
<1>2. Append(s.fields, s.buf) \in Seq(Text)
  BY AppendProperties DEF Between, State
<1>3. <<>> \in Text
  BY DEF Text
<1> QED BY <1>1, <1>2, <1>3 DEF Between, State

LEMMA ReadPair ==
  ASSUME NEW s, NEW fields, NEW buf, Between(s, fields, buf), NEW d \in Letter, Unescaped(d) \in Letter
  PROVE  Between(ReadChar(ReadChar(s, Bs), d), fields, Append(buf, Unescaped(d)))
<1>1. PICK u : u = ReadChar(s, Bs)
  OBVIOUS
<1>2. u = [s EXCEPT !.escaping = TRUE]
  BY <1>1 DEF ReadChar, Between
<1>3. u \in State /\ u.fields = fields /\ u.buf = buf /\ u.escaping
  BY <1>2 DEF Between, State
<1>4. ReadChar(u, d) = [u EXCEPT !.buf = Append(u.buf, Unescaped(d)), !.escaping = FALSE]
  BY <1>3 DEF ReadChar
<1>5. Append(u.buf, Unescaped(d)) \in Text
  BY <1>3, AppendProperties DEF State, Text
<1>6. Between(ReadChar(u, d), fields, Append(buf, Unescaped(d)))
  BY <1>3, <1>4, <1>5 DEF Between, State
<1> QED BY <1>1, <1>6

\* What is escaped is read as it was.
LEMMA ReadEscaped ==
  ASSUME NEW t \in Text, NEW c \in Letter, NEW fields, NEW buf, Between(StateAfter(t), fields, buf)
  PROVE  /\ EscapeChar(c) \in Text
         /\ Between(StateAfter(t \o EscapeChar(c)), fields, Append(buf, c))
<1>1. ASSUME NEW d \in Letter, Unescaped(d) = c, EscapeChar(c) = <<Bs, d>>
      PROVE  /\ EscapeChar(c) \in Text
             /\ Between(StateAfter(t \o EscapeChar(c)), fields, Append(buf, c))
  <2>0. Bs \in Letter
    BY DEF Letter
  <2>1. PICK u \in Text : u = Append(t, Bs)
    BY <2>0, AppendProperties DEF Text
  <2>2. t \o <<Bs, d>> = Append(u, d)
    BY <2>0, <2>1 DEF Text
  <2>3. StateAfter(u) = ReadChar(StateAfter(t), Bs)
    BY <2>0, <2>1, ReadAppend DEF Text
  <2>4. StateAfter(Append(u, d)) = ReadChar(StateAfter(u), d)
    BY ReadAppend DEF Text
  <2>5. Between(ReadChar(ReadChar(StateAfter(t), Bs), d), fields, Append(buf, c))
    BY <1>1, ReadPair
  <2>6. <<Bs, d>> \in Text
    BY <2>0 DEF Text
  <2> QED BY <1>1, <2>2, <2>3, <2>4, <2>5, <2>6
<1>2. CASE c = Bs
  <2>1. EscapeChar(c) = <<Bs, Bs>> /\ Unescaped(Bs) = c
    BY <1>2 DEF EscapeChar, Unescaped, Bs, Comma, Nl, Cr
  <2> QED BY <1>1, <1>2, <2>1
<1>3. CASE c = Comma
  <2>1. EscapeChar(c) = <<Bs, Comma>> /\ Unescaped(Comma) = c
    BY <1>3 DEF EscapeChar, Unescaped, Bs, Comma, Nl, Cr
  <2> QED BY <1>1, <1>3, <2>1
<1>4. CASE c = Nl
  <2>1. EscapeChar(c) = <<Bs, "n">> /\ Unescaped("n") = c /\ "n" \in Letter
    BY <1>4 DEF EscapeChar, Unescaped, Bs, Comma, Nl, Cr, Letter
  <2> QED BY <1>1, <2>1
<1>5. CASE c = Cr
  <2>1. EscapeChar(c) = <<Bs, "r">> /\ Unescaped("r") = c /\ "r" \in Letter
    BY <1>5 DEF EscapeChar, Unescaped, Bs, Comma, Nl, Cr, Letter
  <2> QED BY <1>1, <2>1
<1>6. CASE c \notin {Bs, Comma, Nl, Cr}
  <2>1. EscapeChar(c) = <<c>> /\ <<c>> \in Text
    BY <1>6 DEF EscapeChar, Text
  <2>2. t \o <<c>> = Append(t, c)
    BY AppendIsConcat DEF Text
  <2>3. StateAfter(Append(t, c)) = ReadChar(StateAfter(t), c)
    BY ReadAppend DEF Text
  <2>4. Between(ReadChar(StateAfter(t), c), fields, Append(buf, c))
    BY <1>6, ReadPlain
  <2> QED BY <2>1, <2>2, <2>3, <2>4
<1> QED BY <1>2, <1>3, <1>4, <1>5, <1>6

\* One more character is escaped, one more field is built.
LEMMA EscapeType == \A c \in Letter : EscapeChar(c) \in Text
<1> TAKE c \in Letter
<1>1. Bs \in Letter /\ Comma \in Letter /\ "n" \in Letter /\ "r" \in Letter
  BY DEF Letter
<1>2. EscapeChar(c) \in {<<Bs, Bs>>, <<Bs, Comma>>, <<Bs, "n">>, <<Bs, "r">>, <<c>>}
  BY DEF EscapeChar
<1>3. \A a, b \in Letter : <<a, b>> \in Text /\ <<a>> \in Text
  BY DEF Text
<1> QED BY <1>1, <1>2, <1>3

LEMMA EscapeAppend ==
  ASSUME NEW f \in Text, NEW c \in Letter
  PROVE  /\ escape_command_field(f) \in Text
         /\ escape_command_field(Append(f, c)) = escape_command_field(f) \o EscapeChar(c)
<1>1. PICK n \in Nat : n = Len(f) /\ \A i \in 1 .. n : f[i] \in Letter
  BY LenProperties, ElementOfSeq DEF Text
<1>2. PICK h : h = Append(f, c)
  OBVIOUS
<1>3. Len(h) = n + 1 /\ h[n + 1] = c /\ \A i \in 1 .. n : h[i] = f[i]
  BY <1>1, <1>2, AppendProperties DEF Text
<1>4. PICK parts : parts = [i \in 1 .. n |-> EscapeChar(f[i])]
  OBVIOUS
<1>5. parts \in Seq(Text) /\ Len(parts) = n
  <2>1. \A i \in 1 .. n : EscapeChar(f[i]) \in Text
    BY <1>1, EscapeType
  <2>2. parts \in [1 .. n -> Text]
    BY <1>4, <2>1
  <2> QED BY <2>2
<1>6. EscapeChar(c) \in Text
  BY EscapeType
<1>7. [i \in 1 .. n + 1 |-> EscapeChar(h[i])] = Append(parts, EscapeChar(c))
  <2>1. PICK p : p = [i \in 1 .. n + 1 |-> EscapeChar(h[i])]
    OBVIOUS
  <2>2. \A i \in 1 .. n + 1 : EscapeChar(h[i]) \in Text
    BY <1>1, <1>3, <1>6, EscapeType
  <2>3. p \in [1 .. n + 1 -> Text]
    BY <2>1, <2>2
  <2>4. p \in Seq(Text) /\ Len(p) = n + 1
    BY <2>3
  <2>5. PICK q \in Seq(Text) : q = Append(parts, EscapeChar(c))
    BY <1>5, <1>6, AppendProperties
  <2>6. Len(q) = n + 1 /\ q[n + 1] = EscapeChar(c) /\ \A i \in 1 .. n : q[i] = parts[i]
    BY <1>5, <1>6, <2>5, AppendProperties
  <2>7. \A i \in 1 .. n + 1 : p[i] = q[i]
    BY <1>3, <1>4, <2>1, <2>6
  <2> QED BY <2>1, <2>4, <2>5, <2>6, <2>7, SeqEqual
<1>8. escape_command_field(h) = FlattenSeq(Append(parts, EscapeChar(c)))
  BY <1>3, <1>7 DEF escape_command_field
<1>9. escape_command_field(f) = FlattenSeq(parts) /\ FlattenSeq(parts) \in Text
  BY <1>1, <1>4, <1>5, FlattenType DEF escape_command_field, Text
<1>10. CASE parts = <<>>
  <2>1. FlattenSeq(parts) = <<>>
    BY <1>10 DEF FlattenSeq
  <2>2. <<>> \o EscapeChar(c) = EscapeChar(c)
    BY <1>6, ConcatEmptySeq DEF Text
  <2>3. FlattenSeq(Append(parts, EscapeChar(c))) = EscapeChar(c)
    BY <1>5, <1>6, <1>10, FlattenAppend DEF Text
  <2> QED BY <1>2, <1>8, <1>9, <2>1, <2>2, <2>3
<1>11. CASE parts # <<>>
  <2>1. FlattenSeq(Append(parts, EscapeChar(c))) = FlattenSeq(parts) \o EscapeChar(c)
    BY <1>5, <1>6, <1>11, FlattenAppend DEF Text
  <2> QED BY <1>2, <1>8, <1>9, <2>1
<1> QED BY <1>10, <1>11

LEMMA ReadField ==
  ASSUME NEW t \in Text, NEW fields, Between(StateAfter(t), fields, <<>>), NEW f \in Text
  PROVE  Between(StateAfter(t \o escape_command_field(f)), fields, f)
<1> DEFINE T == {q \in Text : Between(StateAfter(t \o escape_command_field(q)), fields, q)}
<1>1. <<>> \in T
  <2>1. escape_command_field(<<>>) = <<>>
    BY DEF escape_command_field, FlattenSeq
  <2>2. t \o <<>> = t /\ <<>> \in Text
    BY ConcatEmptySeq DEF Text
  <2> QED BY <2>1, <2>2
<1>2. ASSUME NEW q \in T, NEW c \in Letter PROVE Append(q, c) \in T
  <2>1. q \in Text /\ Between(StateAfter(t \o escape_command_field(q)), fields, q)
    OBVIOUS
  <2>2. escape_command_field(q) \in Text /\ EscapeChar(c) \in Text
    BY <2>1, EscapeAppend, EscapeType
  <2>3. t \o escape_command_field(Append(q, c)) = (t \o escape_command_field(q)) \o EscapeChar(c)
    <3>1. escape_command_field(Append(q, c)) = escape_command_field(q) \o EscapeChar(c)
      BY <2>1, EscapeAppend
    <3> QED BY <2>2, <3>1, TextAssociative, Z3T(30)
  <2>4. t \o escape_command_field(q) \in Text
    BY <2>2, ConcatProperties DEF Text
  <2>5. Between(StateAfter((t \o escape_command_field(q)) \o EscapeChar(c)), fields, Append(q, c))
    BY <2>1, <2>4, ReadEscaped
  <2>6. Append(q, c) \in Text
    BY <2>1, AppendProperties DEF Text
  <2> QED BY <2>3, <2>5, <2>6
<1>3. T = Text
  <2> HIDE DEF T
  <2>1. T \subseteq Seq(Letter) /\ \A q \in T : \A c \in Letter : Append(q, c) \in T
    BY <1>2 DEF T, Text
  <2> QED BY <1>1, <2>1, SequenceInduction DEF Text
<1> QED BY <1>3

\* What a command adds to the text of the fields before it.
Part(fs, f) == (IF fs = <<>> THEN <<>> ELSE <<Comma>>) \o escape_command_field(f)

LEMMA BuildAppend ==
  ASSUME NEW fs \in Seq(Text), NEW f \in Text
  PROVE  /\ build_command(fs) \in Text /\ Part(fs, f) \in Text
         /\ build_command(Append(fs, f)) = build_command(fs) \o Part(fs, f)
<1> DEFINE FieldPart(q, i) == (IF i = 1 THEN <<>> ELSE <<Comma>>) \o escape_command_field(q[i])
<1>1. PICK n \in Nat : n = Len(fs) /\ (n = 0 <=> fs = <<>>) /\ \A i \in 1 .. n : fs[i] \in Text
  BY LenProperties, ElementOfSeq, EmptySeq
<1>2. PICK h : h = Append(fs, f)
  OBVIOUS
<1>3. Len(h) = n + 1 /\ h[n + 1] = f /\ \A i \in 1 .. n : h[i] = fs[i]
  BY <1>1, <1>2, AppendProperties
<1>4. \A g \in Text : <<>> \o escape_command_field(g) \in Text /\ <<Comma>> \o escape_command_field(g) \in Text
  <2> TAKE g \in Text
  <2>1. escape_command_field(g) \in Text
    <3>1. Comma \in Letter
      BY DEF Letter
    <3> QED BY <3>1, EscapeAppend
  <2>2. <<>> \in Text /\ <<Comma>> \in Text
    <3>1. Comma \in Letter
      BY DEF Letter
    <3> QED BY <3>1 DEF Text
  <2> QED BY <2>1, <2>2, ConcatProperties DEF Text
<1>5. PICK parts : parts = [i \in 1 .. n |-> FieldPart(fs, i)]
  OBVIOUS
<1>6. parts \in Seq(Text) /\ Len(parts) = n
  <2>1. \A i \in 1 .. n : FieldPart(fs, i) \in Text
    BY <1>1, <1>4
  <2> HIDE DEF FieldPart
  <2>2. parts \in [1 .. n -> Text]
    BY <1>5, <2>1
  <2> QED BY <2>2
<1>7. Part(fs, f) \in Text /\ Part(fs, f) = FieldPart(h, n + 1)
  <2>1. CASE fs = <<>>
    <3>1. n + 1 = 1
      BY <1>1, <2>1
    <3> QED BY <1>3, <1>4, <2>1, <3>1, Zenon DEF Part
  <2>2. CASE fs # <<>>
    <3>1. n + 1 # 1
      BY <1>1, <2>2
    <3> QED BY <1>3, <1>4, <2>2, <3>1, Zenon DEF Part
  <2> QED BY <2>1, <2>2
<1>8. [i \in 1 .. n + 1 |-> FieldPart(h, i)] = Append(parts, Part(fs, f))
  <2>1. PICK p : p = [i \in 1 .. n + 1 |-> FieldPart(h, i)]
    OBVIOUS
  <2>2. \A i \in 1 .. n : FieldPart(h, i) = FieldPart(fs, i)
    BY <1>3
  <2> HIDE DEF FieldPart
  <2>3. \A i \in 1 .. n + 1 : FieldPart(h, i) \in Text
    BY <1>5, <1>6, <1>7, <2>2
  <2>4. p \in [1 .. n + 1 -> Text]
    BY <2>1, <2>3
  <2>5. p \in Seq(Text) /\ Len(p) = n + 1
    BY <2>4
  <2>6. PICK q \in Seq(Text) : q = Append(parts, Part(fs, f))
    BY <1>6, <1>7, AppendProperties
  <2>7. Len(q) = n + 1 /\ q[n + 1] = Part(fs, f) /\ \A i \in 1 .. n : q[i] = parts[i]
    BY <1>6, <1>7, <2>6, AppendProperties
  <2>8. \A i \in 1 .. n + 1 : p[i] = q[i]
    BY <1>5, <1>7, <2>1, <2>2, <2>7
  <2> QED BY <2>1, <2>5, <2>6, <2>7, <2>8, SeqEqual
<1>9. build_command(h) = FlattenSeq(Append(parts, Part(fs, f)))
  BY <1>3, <1>8 DEF build_command
<1>10. build_command(fs) = FlattenSeq(parts) /\ FlattenSeq(parts) \in Text
  BY <1>1, <1>5, <1>6, FlattenType DEF build_command, Text
<1> HIDE DEF FieldPart
<1>11. CASE parts = <<>>
  <2>1. FlattenSeq(parts) = <<>>
    BY <1>11 DEF FlattenSeq
  <2>2. <<>> \o Part(fs, f) = Part(fs, f)
    BY <1>7, ConcatEmptySeq DEF Text
  <2>3. FlattenSeq(Append(parts, Part(fs, f))) = Part(fs, f)
    BY <1>6, <1>7, <1>11, FlattenAppend DEF Text
  <2> QED BY <1>2, <1>7, <1>9, <1>10, <2>1, <2>2, <2>3
<1>12. CASE parts # <<>>
  <2>1. FlattenSeq(Append(parts, Part(fs, f))) = FlattenSeq(parts) \o Part(fs, f)
    BY <1>6, <1>7, <1>12, FlattenAppend DEF Text
  <2> QED BY <1>2, <1>7, <1>9, <1>10, <2>1
<1> QED BY <1>11, <1>12

\* A command that was built is read with its last field in the buffer.
LEMMA ReadCommand ==
  ASSUME NEW fs \in Seq(Text), NEW f \in Text
  PROVE  Between(StateAfter(build_command(Append(fs, f))), fs, f)
<1> DEFINE T == {q \in Seq(Text) : \A g \in Text : Between(StateAfter(build_command(Append(q, g))), q, g)}
<1>1. <<>> \in T
  <2>1. ASSUME NEW g \in Text PROVE Between(StateAfter(build_command(Append(<<>>, g))), <<>>, g)
    <3>1. <<>> \in Text /\ <<>> \in Seq(Text)
      BY DEF Text
    <3>2. Between(StateAfter(<<>> \o escape_command_field(g)), <<>>, g)
      BY <3>1, ReadNothing, StartBetween, ReadField
    <3>3. build_command(<<>>) = <<>>
      BY DEF build_command, FlattenSeq
    <3>4. Part(<<>>, g) = <<>> \o escape_command_field(g)
      BY DEF Part
    <3>5. build_command(Append(<<>>, g)) = <<>> \o Part(<<>>, g) /\ Part(<<>>, g) \in Text
      BY <3>1, <3>3, BuildAppend
    <3>6. <<>> \o Part(<<>>, g) = Part(<<>>, g)
      BY <3>5, ConcatEmptySeq DEF Text
    <3> QED BY <3>2, <3>4, <3>5, <3>6
  <2>2. <<>> \in Seq(Text)
    OBVIOUS
  <2> QED BY <2>1, <2>2
<1>2. ASSUME NEW q \in T, NEW h \in Text PROVE Append(q, h) \in T
  <2>1. q \in Seq(Text) /\ Between(StateAfter(build_command(Append(q, h))), q, h)
    OBVIOUS
  <2>2. PICK p \in Seq(Text) : p = Append(q, h) /\ p # <<>>
    BY <2>1, AppendProperties
  <2>3. ASSUME NEW g \in Text PROVE Between(StateAfter(build_command(Append(p, g))), p, g)
    <3>1. PICK t \in Text : t = build_command(p)
      BY <2>2, BuildAppend
    <3>2. Comma \in Letter
      BY DEF Letter
    <3>3. PICK u \in Text : u = Append(t, Comma)
      BY <3>2, AppendProperties DEF Text
    <3>4. StateAfter(u) = ReadChar(StateAfter(t), Comma)
      BY <3>2, <3>3, ReadAppend DEF Text
    <3>5. Between(StateAfter(t), q, h)
      BY <2>1, <2>2, <3>1
    <3>6. Between(StateAfter(u), p, <<>>)
      BY <2>2, <3>4, <3>5, ReadComma
    <3>7. Between(StateAfter(u \o escape_command_field(g)), p, g)
      BY <3>6, ReadField
    <3>8. build_command(Append(p, g)) = t \o (<<Comma>> \o escape_command_field(g))
      BY <2>2, <3>1, BuildAppend DEF Part
    <3>9. escape_command_field(g) \in Text /\ <<Comma>> \in Text
      BY <3>2, EscapeAppend DEF Text
    <3>10. t \o (<<Comma>> \o escape_command_field(g)) = (t \o <<Comma>>) \o escape_command_field(g)
      BY <3>9, TextAssociative
    <3>11. t \o <<Comma>> = u
      BY <3>2, <3>3, AppendIsConcat DEF Text
    <3> QED BY <3>7, <3>8, <3>10, <3>11
  <2> QED BY <2>2, <2>3
<1>3. T = Seq(Text)
  <2> HIDE DEF T
  <2>1. T \subseteq Seq(Text) /\ \A q \in T : \A c \in Text : Append(q, c) \in T
    BY <1>2 DEF T
  <2> QED BY <1>1, <2>1, SequenceInduction
<1> QED BY <1>3

\* What is built is split into the fields it was built from.
LEMMA RoundTrip ==
  ASSUME NEW fs \in Seq(Text), fs # <<>>
  PROVE  split_escaped_fields(build_command(fs)) = fs
<1>1. PICK g \in Seq(Text), f \in Text : fs = Append(g, f)
  BY SequenceEmptyOrAppend
<1>2. Between(StateAfter(build_command(fs)), g, f)
  BY <1>1, ReadCommand
<1> QED BY <1>1, <1>2, SplitIs DEF Between

-----------------------------------------------------------------------------
(* The command that is command_text.                                               *)

\* A command has texts for fields, and a name first.
CommandInv == command \in Seq(Text) /\ (command # <<>> => command[1] \in Commands)

LEMMA StringText == Seq(STRING) \subseteq Text /\ Char \subseteq Letter /\ Commands \subseteq Text
<1>1. \A s \in Seq(STRING) : s \in Seq(Letter)
  <2> TAKE s \in Seq(STRING)
  <2>1. STRING \subseteq Letter
    BY DEF Letter
  <2>2. PICK n \in Nat : s \in [1 .. n -> STRING]
    OBVIOUS
  <2>3. s \in [1 .. n -> Letter]
    BY <2>1, <2>2
  <2> QED BY <2>3
<1> QED BY <1>1, ProtocolAssumption DEF Text, Letter

LEMMA CommandIsKept == ProtocolSpec => []CommandInv
<1>1. InitCommand => CommandInv
  BY DEF InitCommand, CommandInv
<1>2. CommandInv /\ [TypeCommand]_command => CommandInv'
  <2> SUFFICES ASSUME CommandInv, [TypeCommand]_command PROVE CommandInv'
    OBVIOUS
  <2>1. ASSUME command = <<>>, NEW name \in Commands, command' = <<name>> PROVE CommandInv'
    <3>1. name \in Text
      BY StringText
    <3>2. command' \in Seq(Text) /\ command'[1] = name
      BY <2>1, <3>1
    <3> QED BY <3>2 DEF CommandInv
  <2>2. ASSUME command # <<>>, command' = Append(command, <<>>) PROVE CommandInv'
    <3>1. <<>> \in Text /\ command \in Seq(Text)
      BY DEF Text, CommandInv
    <3>2. command' \in Seq(Text) /\ command'[1] = command[1]
      BY <2>2, <3>1
    <3> QED BY <2>2, <3>2 DEF CommandInv
  <2>3. ASSUME command # <<>>, Len(command) > 1, NEW c \in Char,
               command' = [command EXCEPT ![Len(command)] = Append(@, c)]
        PROVE  CommandInv'
    <3>1. command \in Seq(Text) /\ c \in Letter
      BY StringText DEF CommandInv
    <3>2. PICK n \in Nat : n = Len(command) /\ n > 1
      BY <2>3, <3>1, LenProperties
    <3>3. PICK f \in Text : f = Append(command[n], c)
      <4>1. command[n] \in Text
        BY <3>1, <3>2, ElementOfSeq
      <4> QED BY <3>1, <4>1, AppendProperties DEF Text
    <3>4. command' = [command EXCEPT ![n] = f]
      BY <2>3, <3>2, <3>3
    <3>5. command' \in Seq(Text) /\ command'[1] = command[1]
      BY <3>1, <3>2, <3>4, ExceptSeq
    <3> QED BY <2>3, <3>5 DEF CommandInv
  <2>4. CASE UNCHANGED command
    BY <2>4 DEF CommandInv
  <2> QED BY <2>1, <2>2, <2>3, <2>4 DEF TypeCommand
<1> QED BY <1>1, <1>2, PTL DEF ProtocolSpec

\* A command has a text, for its name has.
LEMMA TypedHasText ==
  ASSUME CommandInv, command # <<>>
  PROVE  command_text \in Text /\ command_text # <<>> /\ split_escaped_fields(command_text) = command
<1>1. split_escaped_fields(command_text) = command
  BY RoundTrip DEF CommandInv, command_text
<1>2. command_text \in Text
  <2>1. <<>> \in Text
    BY DEF Text
  <2> QED BY <2>1, BuildAppend DEF CommandInv, command_text
<1>3. split_escaped_fields(<<>>) = << <<>> >>
  <2>1. /\ StateAfter(<<>>).fields = <<>> /\ StateAfter(<<>>).buf = <<>> /\ ~StateAfter(<<>>).escaping
    BY ReadNothing, StartBetween DEF Between
  <2>2. split_escaped_fields(<<>>) = Append(<<>>, <<>>)
    BY <2>1, SplitIs
  <2> QED BY <2>2
<1>4. command[1] # <<>>
  BY ProtocolAssumption DEF CommandInv
<1>5. command_text # <<>>
  <2>1. << <<>> >>[1] = <<>>
    OBVIOUS
  <2> QED BY <1>1, <1>3, <1>4, <2>1
<1> QED BY <1>1, <1>2, <1>5

LEMMA OnePiece ==
  ASSUME NEW t \in Text, t # <<>>, Len(t) < SerialLineMax
  PROVE  Pieces(t) = <<t>>
<1>1. PICK size \in Nat : size = SerialLineMax - 1 /\ size > 0
  BY ProtocolAssumption
<1>2. PICK l \in Nat : l = Len(t) /\ 0 < l /\ l <= size
  BY <1>1, ProtocolAssumption, LenProperties, EmptySeq DEF Text
<1>3. (l + size - 1) \div size = 1
  <2>1. PICK a \in Nat : a = l + size - 1 /\ size <= a /\ a < 2 * size
    BY <1>1, <1>2
  <2>2. \A m, k \in Nat : k > 0 /\ k <= m /\ m < 2 * k => m \div k = 1
    OBVIOUS
  <2> QED BY <1>1, <2>1, <2>2
<1>4. SubSeq(t, (1 - 1) * size + 1, l) = t
  <2>1. (1 - 1) * size + 1 = 1
    OBVIOUS
  <2>2. SubSeq(t, 1, l) = t
    BY <1>2 DEF Text
  <2> QED BY <2>1, <2>2
<1>5. Pieces(t) = [k \in 1 .. 1 |-> SubSeq(t, (k - 1) * size + 1, IF k = 1 THEN l ELSE k * size)]
  BY <1>1, <1>2, <1>3 DEF Pieces
<1>6. PICK p : p = [k \in 1 .. 1 |-> SubSeq(t, (k - 1) * size + 1, IF k = 1 THEN l ELSE k * size)]
  OBVIOUS
<1>7. p[1] = t
  BY <1>4, <1>6
<1>8. p = [k \in 1 .. 1 |-> t]
  BY <1>6, <1>7
<1> QED BY <1>5, <1>6, <1>8

LEMMA CommandArrivesNow == ASSUME CommandInv PROVE CommandArrives
<1> SUFFICES ASSUME command # <<>>, Len(command_text) < SerialLineMax
             PROVE  Received(command_text) = <<IF Len(command) > FieldMax THEN <<>> ELSE command>>
  BY TypedHasText DEF CommandArrives
<1>1. PICK t \in Text : t = command_text /\ t # <<>> /\ split_escaped_fields(t) = command
  BY TypedHasText
<1>2. Pieces(t) = <<t>>
  BY <1>1, OnePiece
<1>3. split_command_fields(t) = IF Len(command) > FieldMax THEN <<>> ELSE command
  BY <1>1 DEF split_command_fields
<1>4. Received(t) = [k \in 1 .. 1 |-> split_command_fields(<<t>>[k])]
  BY <1>2 DEF Received
<1>5. [k \in 1 .. 1 |-> split_command_fields(<<t>>[k])] = <<split_command_fields(t)>>
  OBVIOUS
<1> QED BY <1>1, <1>3, <1>4, <1>5

LEMMA SecretsMaskedNow == ASSUME CommandInv PROVE SecretsStayMasked
<1> SUFFICES ASSUME command # <<>>
             PROVE  split_escaped_fields(mask_sensitive_command(command_text))
                      = [i \in 1 .. Len(command) |-> IF i = Secret[command[1]] THEN <<"*">> ELSE command[i]]
  BY DEF SecretsStayMasked
<1>1. command_text # <<>> /\ split_escaped_fields(command_text) = command
  BY TypedHasText
<1>2. command[1] \in DOMAIN Secret
  BY ProtocolAssumption DEF CommandInv
<1>3. PICK masked : masked = [i \in 1 .. Len(command) |-> IF i = Secret[command[1]] THEN <<"*">> ELSE command[i]]
  OBVIOUS
<1>4. mask_sensitive_command(command_text) = build_command(masked)
  BY <1>1, <1>2, <1>3 DEF mask_sensitive_command
<1>5. masked \in Seq(Text) /\ masked # <<>>
  <2>1. PICK n \in Nat : n = Len(command) /\ n # 0 /\ \A i \in 1 .. n : command[i] \in Text
    BY LenProperties, EmptySeq, ElementOfSeq DEF CommandInv
  <2>2. <<"*">> \in Text
    <3>1. "*" \in Letter
      BY DEF Letter
    <3> QED BY <3>1 DEF Text
  <2>3. masked \in [1 .. n -> Text]
    BY <1>3, <2>1, <2>2
  <2>4. masked \in Seq(Text) /\ Len(masked) = n
    BY <2>3
  <2> QED BY <2>1, <2>4
<1> QED BY <1>3, <1>4, <1>5, RoundTrip

\* What is typed reaches handle_command as it was (protocol.py:31, app_main.c:47).
THEOREM CommandsArrive == ProtocolSpec => []CommandArrives
BY CommandIsKept, CommandArrivesNow, PTL

\* The log shows no secret, and everything else as it was (protocol.py:68).
THEOREM SecretsMasked == ProtocolSpec => []SecretsStayMasked
BY CommandIsKept, SecretsMaskedNow, PTL
=============================================================================

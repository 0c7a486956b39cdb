----------------------------- MODULE HanReader -----------------------------
(***************************************************************************)
(* The gateway's meter input: han_task of main/han_reader.c, the rolling   *)
(* window of main/telemetry.c it feeds, and the line from the meter.       *)
(*                                                                         *)
(* The reader takes one byte at a time: HDLC frames between 0x7E flags,    *)
(* with 0x7D byte stuffing, and, while no frame is open, printable lines   *)
(* that exist for tests.  The line can lose a byte, change one or add one. *)
(*                                                                         *)
(* Bytes are classes.  "flag" is 0x7E, "esc" 0x7D, "flag^" and "esc^" are  *)
(* the same with bit 0x20 flipped (^ and ]), "nl" ends a line, "a"/"A" and *)
(* "nl^" are printable and "ctl" is none of these.                         *)
(***************************************************************************)
EXTENDS Integers, Sequences, FiniteSets, SequencesExt

CONSTANTS
  FrameMax,     \* RAW_FRAME_MAX
  LineMax,      \* SERIAL_LINE_MAX
  Window,       \* ROLLING_WINDOW_FRAMES
  Payloads,     \* the frames the meter may send
  Kaifa,        \* the byte sequences parse_kaifa_kfm001 accepts
  Typed,        \* the text lines a tester may type
  Csv,          \* the lines parse_csv_kv accepts
  Preformatted, \* a function: the lines that begin with "FRAME,", each with the
                \* bytes its hex field decodes to, <<>> where it decodes to none
  MaxFrames,    \* bound: frames sent
  MaxLines,     \* bound: lines typed
  MaxFaults     \* bound: bytes lost, changed or added

Byte      == {"flag", "esc", "flag^", "esc^", "nl", "nl^", "a", "A", "ctl"}
Printable == {"flag", "esc", "flag^", "esc^", "nl^", "a", "A"}

ASSUME SizesAssumption ==
  /\ FrameMax \in Nat \ {0} /\ LineMax \in Nat \ {0} /\ Window \in Nat \ {0}
  /\ MaxFrames \in Nat /\ MaxLines \in Nat /\ MaxFaults \in Nat
ASSUME InputsAssumption ==
  /\ \A p \in Payloads : p \in Seq(Byte) /\ p # <<>>
  /\ \A l \in Typed : l \in Seq(Printable) /\ Len(l) < LineMax
  /\ \A l \in DOMAIN Preformatted :
       Preformatted[l] \in Seq(Byte) /\ Len(Preformatted[l]) <= FrameMax

\* b ^ 0x20, and what the meter makes of a byte it must not send as it is.
Flip(b) == CASE b = "flag" -> "flag^" [] b = "flag^" -> "flag"
             [] b = "esc" -> "esc^"   [] b = "esc^" -> "esc"
             [] b = "nl" -> "nl^"     [] b = "nl^" -> "nl"
             [] b = "a" -> "A"        [] b = "A" -> "a"
             [] OTHER -> b
Stuff(b) == IF b \in {"flag", "esc"} THEN <<"esc", Flip(b)>> ELSE <<b>>
Stuffed(p) == FlattenSeq([i \in DOMAIN p |-> Stuff(p[i])])

VARIABLES
  uart,         \* the bytes on their way, each with the frame it belongs to
  sent,         \* history: the frames sent, and whether a fault has hit them
  typed,        \* how many lines were typed
  faults,       \* how many bytes were lost, changed or added
  s_frame_started, s_frame_buf, s_escape_next,
  line,         \* han_task's line[0 .. line_len - 1]
  s_seq, s_frames_rx, s_frames_bad,
  s_window, s_window_head, s_window_count,
  delivered     \* history: the snapshots given to the callback

lineVars   == <<uart, sent, typed, faults>>
hdlcVars   == <<s_frame_started, s_frame_buf, s_escape_next>>
windowVars == <<s_window, s_window_head, s_window_count>>
countVars  == <<s_seq, s_frames_rx, s_frames_bad>>
vars       == <<lineVars, hdlcVars, line, countVars, windowVars, delivered>>

NoReading == [valid |-> FALSE, of |-> 0]

Init ==
  /\ uart = <<>> /\ sent = <<>> /\ typed = 0 /\ faults = 0
  /\ s_frame_started = FALSE /\ s_frame_buf = <<>> /\ s_escape_next = FALSE
  /\ line = <<>>
  /\ s_seq = 0 /\ s_frames_rx = 0 /\ s_frames_bad = 0
  /\ s_window = [i \in 0 .. Window - 1 |-> NoReading]
  /\ s_window_head = 0 /\ s_window_count = 0
  /\ delivered = <<>>

-----------------------------------------------------------------------------
(* The line.  A byte knows the frame it was sent in (0: none) and whether it *)
(* is the flag that opens it.                                                *)

Wire(f, bytes) == [i \in DOMAIN bytes |-> [b |-> bytes[i], f |-> f, open |-> f # 0 /\ i = 1]]

SendFrame(p) ==
  /\ uart = <<>> /\ Len(sent) < MaxFrames
  /\ uart' = Wire(Len(sent) + 1, <<"flag">> \o Stuffed(p) \o <<"flag">>)
  /\ sent' = Append(sent, [data |-> p, hit |-> FALSE])
  /\ UNCHANGED <<typed, faults, hdlcVars, line, countVars, windowVars, delivered>>

TypeLine(l) ==
  /\ uart = <<>> /\ typed < MaxLines
  /\ uart' = Wire(0, Append(l, "nl"))
  /\ typed' = typed + 1
  /\ UNCHANGED <<sent, faults, hdlcVars, line, countVars, windowVars, delivered>>

Hit(f) == sent' = IF f = 0 THEN sent ELSE [sent EXCEPT ![f].hit = TRUE]

\* A fault at the next byte: it is lost, it changes, or a byte appears before it.
Fault ==
  /\ uart # <<>> /\ faults < MaxFaults
  /\ faults' = faults + 1
  /\ LET next == Head(uart) IN
     \/ uart' = Tail(uart) /\ Hit(next.f)
     \/ \E c \in Byte \ {next.b} :
          uart' = <<[next EXCEPT !.b = c]>> \o Tail(uart) /\ Hit(next.f)
     \/ \E c \in Byte :
          /\ uart' = <<[b |-> c, f |-> 0, open |-> FALSE]>> \o uart
          /\ Hit(IF next.open THEN 0 ELSE next.f)
  /\ UNCHANGED <<typed, hdlcVars, line, countVars, windowVars, delivered>>

-----------------------------------------------------------------------------
(* telemetry.c and the delivery of a snapshot.                               *)

\* telemetry_apply_rolling_window: the reading of snapshot s_seq + 1 replaces the
\* oldest one.
Roll ==
  /\ s_window' = [s_window EXCEPT ![s_window_head] = [valid |-> TRUE, of |-> s_seq + 1]]
  /\ s_window_head' = (s_window_head + 1) % Window
  /\ s_window_count' = IF s_window_count < Window THEN s_window_count + 1 ELSE s_window_count

\* The readings the averages are taken over: rolling_samples is their number.
Samples(values) ==
  IF values THEN {s_window'[i].of : i \in {j \in 0 .. s_window_count' - 1 : s_window'[j].valid}}
            ELSE {}

\* (mutated: a snapshot that did not parse moves the ring)
DeliverRollsAlways(src, raw, values) ==
  /\ Roll
  /\ s_seq' = s_seq + 1
  /\ s_frames_rx' = s_frames_rx + 1
  /\ delivered' = Append(delivered,
       [seq |-> s_seq + 1, src |-> src, raw |-> raw, values |-> values,
        samples |-> Samples(values), rx |-> s_frames_rx + 1, bad |-> s_frames_bad])

\* snapshot_set_meta (memset: an invalid snapshot has no rolling samples),
\* deliver_snapshot.
Deliver(src, raw, values) ==
  /\ IF values THEN Roll ELSE UNCHANGED windowVars
  /\ s_seq' = s_seq + 1
  /\ s_frames_rx' = s_frames_rx + 1
  /\ delivered' = Append(delivered,
       [seq |-> s_seq + 1, src |-> src, raw |-> raw, values |-> values,
        samples |-> Samples(values), rx |-> s_frames_rx + 1, bad |-> s_frames_bad])

\* A byte leaves the UART.
Arrives(b) == uart # <<>> /\ Head(uart).b = b
Consume    == uart' = Tail(uart) /\ UNCHANGED <<sent, typed, faults>>

-----------------------------------------------------------------------------
(* handle_incoming_byte and han_task, by the byte and the state it meets.    *)

\* (mutated: a flag only ends a frame)
ReadFlagEndsOnly ==
  /\ Arrives("flag") /\ Consume
  /\ IF s_frame_started /\ s_frame_buf # <<>>
     THEN Deliver("hdlc", s_frame_buf, s_frame_buf \in Kaifa)
     ELSE UNCHANGED <<s_seq, s_frames_rx, windowVars, delivered>>
  /\ s_frame_started' = ~s_frame_started
  /\ s_frame_buf' = <<>> /\ s_escape_next' = FALSE
  /\ UNCHANGED <<line, s_frames_bad>>

\* A flag ends the frame that is open, if it holds a byte, and opens the next.
\* The frame is delivered whether or not it parses.
ReadFlag ==
  /\ Arrives("flag") /\ Consume
  /\ IF s_frame_started /\ s_frame_buf # <<>>
     THEN Deliver("hdlc", s_frame_buf, s_frame_buf \in Kaifa)
     ELSE UNCHANGED <<s_seq, s_frames_rx, windowVars, delivered>>
  /\ s_frame_started' = TRUE /\ s_frame_buf' = <<>> /\ s_escape_next' = FALSE
  /\ UNCHANGED <<line, s_frames_bad>>

ReadEscape ==
  /\ Arrives("esc") /\ s_frame_started /\ Consume
  /\ s_escape_next' = TRUE
  /\ UNCHANGED <<s_frame_started, s_frame_buf, line, countVars, windowVars, delivered>>

\* (mutated: one byte short)
ReadDataShort(b) ==
  /\ b \notin {"flag", "esc"} /\ Arrives(b) /\ s_frame_started /\ Consume
  /\ \/ /\ Len(s_frame_buf) + 1 < FrameMax
        /\ s_frame_buf' = Append(s_frame_buf, IF s_escape_next THEN Flip(b) ELSE b)
        /\ UNCHANGED <<s_frame_started, s_frames_bad>>
     \/ /\ Len(s_frame_buf) + 1 >= FrameMax
        /\ s_frame_started' = FALSE /\ s_frame_buf' = <<>>
        /\ s_frames_bad' = s_frames_bad + 1
  /\ s_escape_next' = FALSE
  /\ UNCHANGED <<line, s_seq, s_frames_rx, windowVars, delivered>>

\* A byte of a frame; the one that does not fit drops the frame.
ReadData(b) ==
  /\ b \notin {"flag", "esc"} /\ Arrives(b) /\ s_frame_started /\ Consume
  /\ \/ /\ Len(s_frame_buf) < FrameMax
        /\ s_frame_buf' = Append(s_frame_buf, IF s_escape_next THEN Flip(b) ELSE b)
        /\ UNCHANGED <<s_frame_started, s_frames_bad>>
     \/ /\ Len(s_frame_buf) >= FrameMax
        /\ s_frame_started' = FALSE /\ s_frame_buf' = <<>>
        /\ s_frames_bad' = s_frames_bad + 1
  /\ s_escape_next' = FALSE
  /\ UNCHANGED <<line, s_seq, s_frames_rx, windowVars, delivered>>

\* (mutated: the bound counts no terminator)
ReadTextLong(b) ==
  /\ b \notin {"flag", "nl"} /\ Arrives(b) /\ ~s_frame_started /\ Consume
  /\ line' = IF b \in Printable /\ Len(line) < LineMax THEN Append(line, b) ELSE <<>>
  /\ UNCHANGED <<hdlcVars, countVars, windowVars, delivered>>

\* A byte outside frames: it extends the line, or the line is dropped.
ReadText(b) ==
  /\ b \notin {"flag", "nl"} /\ Arrives(b) /\ ~s_frame_started /\ Consume
  /\ line' = IF b \in Printable /\ Len(line) + 1 < LineMax THEN Append(line, b) ELSE <<>>
  /\ UNCHANGED <<hdlcVars, countVars, windowVars, delivered>>

\* (mutated: the line is not counted)
RejectKeepsBad == s_seq' = s_seq + 1 /\ UNCHANGED <<s_frames_rx, s_frames_bad, windowVars, delivered>>

\* A line that is not delivered takes a sequence number all the same.
Reject ==
  /\ s_seq' = s_seq + 1 /\ s_frames_bad' = s_frames_bad + 1
  /\ UNCHANGED <<s_frames_rx, windowVars, delivered>>

\* The end of a line: a FRAME, line, a CSV line (no raw bytes), or any other,
\* which is passed on as raw bytes.
ReadNewline ==
  /\ Arrives("nl") /\ ~s_frame_started /\ Consume
  /\ \/ /\ line = <<>>
        /\ UNCHANGED <<countVars, windowVars, delivered>>
     \/ /\ line \in DOMAIN Preformatted /\ Preformatted[line] # <<>>
        /\ Deliver("text", Preformatted[line], Preformatted[line] \in Kaifa)
        /\ UNCHANGED s_frames_bad
     \/ /\ line \in DOMAIN Preformatted /\ Preformatted[line] = <<>>
        /\ Reject
     \/ /\ line # <<>> /\ line \notin DOMAIN Preformatted /\ line \in Csv
        /\ Deliver("text", <<>>, TRUE)
        /\ UNCHANGED s_frames_bad
     \/ /\ line # <<>> /\ line \notin DOMAIN Preformatted /\ line \notin Csv
        /\ Deliver("text", SubSeq(line, 1, IF Len(line) < FrameMax THEN Len(line) ELSE FrameMax), FALSE)
        /\ UNCHANGED s_frames_bad
  /\ line' = <<>>
  /\ UNCHANGED hdlcVars

Read == ReadFlag \/ ReadEscape \/ (\E b \in Byte : ReadData(b) \/ ReadText(b)) \/ ReadNewline

Next ==
  \/ \E p \in Payloads : SendFrame(p)
  \/ \E l \in Typed : TypeLine(l)
  \/ Fault
  \/ Read

Spec == Init /\ [][Next]_vars

-----------------------------------------------------------------------------
(* Properties.                                                             *)

Snapshot == [seq : Nat, src : {"hdlc", "text"}, raw : Seq(Byte), values : BOOLEAN,
             samples : SUBSET Nat, rx : Nat, bad : Nat]

\* The reader's state.  No index leaves its buffer: s_frame_buf, the line with
\* its terminating zero, and the ring of telemetry.c.
TypeOK ==
  /\ s_frame_started \in BOOLEAN /\ s_escape_next \in BOOLEAN
  /\ s_frame_buf \in Seq(Byte) /\ Len(s_frame_buf) <= FrameMax
  /\ line \in Seq(Printable) /\ Len(line) < LineMax
  /\ s_seq \in Nat /\ s_frames_rx \in Nat /\ s_frames_bad \in Nat
  /\ s_window \in [0 .. Window - 1 -> [valid : BOOLEAN, of : Nat]]
  /\ s_window_head \in 0 .. Window - 1 /\ s_window_count \in 0 .. Window
  /\ delivered \in Seq(Snapshot)

Quiet   == uart = <<>>
Hdlc    == {j \in DOMAIN delivered : delivered[j].src = "hdlc"}
Fitting == {i \in DOMAIN sent : Len(sent[i].data) <= FrameMax}
Intact  == {i \in Fitting : ~sent[i].hit}

\* g takes frames that were sent to snapshots with their bytes, in order.
Delivers(g, frames) ==
  /\ \A i \in frames : delivered[g[i]].raw = sent[i].data
  /\ \A i, j \in frames : i < j => g[i] < g[j]

\* On a clean line every frame that fits the buffer is delivered byte for byte,
\* once and in order, whatever its bytes are and whatever came before it; nothing
\* else is delivered as a frame; and frames_bad, less the lines it counts, is the
\* number of frames that did not fit.
CleanLineIsExact ==
  faults = 0 /\ typed = 0 /\ Quiet =>
    /\ \E g \in [Fitting -> Hdlc] : Delivers(g, Fitting) /\ \A j \in Hdlc : \E i \in Fitting : g[i] = j
    /\ s_frames_bad - (s_seq - s_frames_rx) = Cardinality(DOMAIN sent \ Fitting)

\* A lost, changed or added byte damages no other frame than the one it was in:
\* the reader is in step again at the next flag, also after an overflow and in
\* the middle of an escape.
DamageIsLocal == Quiet => \E g \in [Intact -> Hdlc] : Delivers(g, Intact)

\* The sequence numbers the PC sees rise by one, except where a line was rejected:
\* every gap is covered by frames_bad, which SNAP reports beside them.
GapsAreCounted ==
  /\ s_frames_rx = Len(delivered)
  /\ s_seq <= s_frames_rx + s_frames_bad
  /\ \A i \in DOMAIN delivered :
       /\ delivered[i].rx = i
       /\ delivered[i].seq <= i + delivered[i].bad
  /\ \A i, j \in DOMAIN delivered : i < j => delivered[i].seq < delivered[j].seq

\* The number of readings up to the i-th snapshot.
Nth(i) == Cardinality({k \in 1 .. i : delivered[k].values})

\* The rolling averages of a snapshot are taken over the last readings, its own
\* included, and over as many of them as there are, up to the window: a snapshot
\* that did not parse neither enters the ring nor moves it.
AveragesAreRecent ==
  \A i \in DOMAIN delivered :
    delivered[i].values =>
      delivered[i].samples =
        {delivered[j].seq : j \in {k \in 1 .. i : delivered[k].values /\ Nth(i) - Nth(k) < Window}}
=============================================================================

-------------------------------- MODULE Wire --------------------------------
(***************************************************************************)
(* The lines of the gateway on the serial port, and what the dashboard     *)
(* makes of them: serial_link.c, parse_line of backend/protocol.py,        *)
(* parse_kfm001_frame of domain/frame_parser.py and apply_parsed of        *)
(* services/runtime_service.py.                                            *)
(*                                                                         *)
(* Several tasks print.  One printf is one piece of text and never mixed   *)
(* with another; a FRAME takes a printf for its head, one for every byte   *)
(* and one for the line end, so anything can come in between.  A piece has *)
(* a kind, the commas in it and a value; a byte is a kind of its own.  Of  *)
(* a reading only its number matters: every value in it is that number.    *)
(* STATUS lines have no caller in the firmware and are left out, and so    *)
(* is a read that gives up inside one printf.                              *)
(*                                                                         *)
(* Two tasks print SNAP lines: the HAN task one for every reading it could *)
(* parse, and the console task, for GET_STATUS, what s_last_snapshot holds *)
(* just then.  No lock guards that copy: the console can read a mix of two *)
(* readings, or print one that is not the newest any more; and it prints a *)
(* reading that was not parsed as well, with 0 for every value.            *)
(***************************************************************************)
EXTENDS Integers, Sequences

CONSTANTS
  DataBytes,    \* the bytes of a frame the decoder needs
  FrameBytes,   \* all bytes of a frame
  MaxLists,     \* bound on the readings
  LinkStates    \* the states a status line can tell

ASSUME WireAssumption == DataBytes \in Nat \ {0, 1} /\ FrameBytes \in Nat /\ DataBytes <= FrameBytes
                         /\ MaxLists \in Nat

VARIABLES
  list,     \* the number of the newest reading
  at,       \* where the HAN task is in its frame; 0 between two frames
  last,     \* s_last_snapshot: a reading, 0 for one that did not parse; -1 before the first
  asked,    \* GET_STATUS under way: the copy it prints, and the newest reading when it came
  sentSnap, \* the newest reading the HAN task has sent as a SNAP
  line,     \* the pieces that have arrived since the last line end, and the commas in them
  shown,    \* what the dashboard believes
  told      \* the SNAP it shows: printed for GET_STATUS or not, the newest readings when the
            \* command came and when it was printed

wireVars == <<list, at, last, asked, sentSnap, line, shown, told>>

Piece(kind, commas, v) == [kind |-> kind, commas |-> commas, v |-> v]

None == "none"

NoText        == [pieces |-> <<>>, commas |-> 0]
Joined(text, piece) == [pieces |-> Append(text.pieces, piece), commas |-> text.commas + piece.commas]

\* A reading as a SNAP carries it, in its time and in its other values.
Values(n) == [t |-> n, v |-> n]

NoCommand == [pending |-> FALSE, copy |-> Values(0), since |-> 0]
ByHan(n)  == [status |-> FALSE, since |-> n, until |-> n]

InitWire ==
  /\ list = 0 /\ at = 0 /\ last = -1 /\ asked = NoCommand /\ sentSnap = 0 /\ line = NoText
  /\ shown = [wifi |-> None, mqtt |-> None, info |-> None, frame |-> 0,
              detail |-> [t |-> 0, v |-> 0], snap |-> [t |-> 0, v |-> 0]]
  /\ told = ByHan(0)

-----------------------------------------------------------------------------
(* The dashboard.                                                            *)

\* Hex digits only, long enough, and a tag in front of every value; zero for no detail.
parse_kfm001_frame(hex) ==
  IF Len(hex) >= DataBytes /\ \A i \in 1 .. Len(hex) : hex[i].kind = "byte"
  THEN [t |-> hex[1].v, v |-> hex[DataBytes].v]
  ELSE [t |-> 0, v |-> 0]

\* The kind of a line is how it begins; a wrong number of fields, or a field that is no
\* number, makes it an error.  Of a SNAP, as of a status line, at least its fields count.
parse_line(text) ==
  LET parts == text.commas + 1
      first == text.pieces[1].kind
      As(kind) == [kind |-> kind, v |-> text.pieces[1].v, hex |-> Tail(text.pieces)]
  IN CASE first = "RSP:INFO" /\ parts = 4 -> As("device_info")
       [] first = "RSP:WIFI" /\ parts >= 2 -> As("wifi_status")
       [] first = "RSP:MQTT" /\ parts = 2 -> As("mqtt_status")
       [] first = "RSP:OK" -> As("ok")
       [] first = "RSP:ERROR" -> As("error")
       [] first = "FRAME" /\ parts = 4 -> As("frame")
       [] first = "SNAP" /\ parts >= 21 -> As("snapshot")
       [] first \in {"byte", "log"} -> As("raw")
       [] OTHER -> As("parse_error")

\* (mutated: the last detail is merged into every snapshot)
MergeAlways(s, p) ==
  CASE p.kind = "frame" ->
         LET d == parse_kfm001_frame(p.hex) IN [s EXCEPT !.frame = p.v, !.detail = IF d.t # 0 THEN d ELSE @]
    [] p.kind = "snapshot" -> [s EXCEPT !.snap = [t |-> p.v.t, v |-> IF s.detail.t # 0 THEN s.detail.v ELSE p.v.v]]
    [] OTHER -> s

\* A detail with the meter time of the snapshot replaces values of the snapshot.
apply_parsed(s, p) ==
  CASE p.kind = "device_info" -> [s EXCEPT !.info = p.v]
    [] p.kind = "wifi_status" -> [s EXCEPT !.wifi = p.v]
    [] p.kind = "mqtt_status" -> [s EXCEPT !.mqtt = p.v]
    [] p.kind = "frame" ->
         LET d == parse_kfm001_frame(p.hex) IN [s EXCEPT !.frame = p.v, !.detail = IF d.t # 0 THEN d ELSE @]
    [] p.kind = "snapshot" ->
         [s EXCEPT !.snap = [t |-> p.v.t,
                             v |-> IF s.detail.t # 0 /\ s.detail.t = p.v.t THEN s.detail.v ELSE p.v.v]]
    [] OTHER -> s

\* A line has arrived.
ingest_raw_line(text) == line' = NoText /\ shown' = apply_parsed(shown, parse_line(text))

-----------------------------------------------------------------------------
(* The gateway.                                                              *)

Put(piece)   == line' = Joined(line, piece) /\ UNCHANGED shown
PutLine(piece) == ingest_raw_line(Joined(line, piece))

\* s_last_snapshot is overwritten; a command under way has copied it before, after, or
\* partly before: a data race.
CopySnapshot(n) ==
  /\ last' = n
  /\ \E t \in {asked.copy.t, n}, v \in {asked.copy.v, n} :
       asked' = IF asked.pending THEN [asked EXCEPT !.copy = [t |-> t, v |-> v]] ELSE asked

\* A reading has come; 0 is copied when nothing in it parses.
on_snapshot ==
  /\ at = 0 /\ list < MaxLists
  /\ list' = list + 1 /\ at' = 1
  /\ \E n \in {0, list + 1} : CopySnapshot(n)
  /\ Put(Piece("FRAME", 3, list + 1))
  /\ UNCHANGED <<sentSnap, told>>

\* The bytes of the frame, and its line end; a reading that did not parse has no SNAP.
serial_link_send_frame ==
  /\ UNCHANGED <<list, last, asked, sentSnap, told>>
  /\ \/ /\ at \in 1 .. FrameBytes
        /\ at' = at + 1
        /\ Put(Piece("byte", 0, list))
     \/ /\ at = FrameBytes + 1
        /\ at' = IF last = 0 THEN 0 ELSE at + 1
        /\ IF line = NoText THEN UNCHANGED <<line, shown>> ELSE ingest_raw_line(line)

serial_link_send_snapshot ==
  /\ at = FrameBytes + 2
  /\ at' = 0 /\ sentSnap' = list /\ told' = ByHan(list)
  /\ PutLine(Piece("SNAP", 20, Values(last)))
  /\ UNCHANGED <<list, last, asked>>

\* GET_STATUS: the console task takes what s_last_snapshot holds ...
GetStatus ==
  /\ last # -1 /\ ~asked.pending
  /\ asked' = [pending |-> TRUE, copy |-> Values(last), since |-> list]
  /\ UNCHANGED <<list, at, last, sentSnap, line, shown, told>>

\* ... and prints it; in the middle of a FRAME it is part of that line.
PrintStatus ==
  /\ asked.pending
  /\ asked' = NoCommand
  /\ PutLine(Piece("SNAP", 20, asked.copy))
  /\ told' = IF line = NoText THEN [status |-> TRUE, since |-> asked.since, until |-> list] ELSE told
  /\ UNCHANGED <<list, at, last, sentSnap>>

\* The other tasks: answers of the console, the status task's lines, and the log.
Reply ==
  /\ \E piece \in {Piece("RSP:OK", 0, 0), Piece("RSP:ERROR", 1, 0), Piece("RSP:INFO", 3, "id"),
                   Piece("log", 0, 0), Piece("log", 1, 0)}
                  \cup {Piece("RSP:WIFI", 2, s) : s \in LinkStates}
                  \cup {Piece("RSP:MQTT", 1, s) : s \in LinkStates} :
       PutLine(piece)
  /\ UNCHANGED <<list, at, last, asked, sentSnap, told>>

\* The gateway is reset, and the boot loader prints.
Restart ==
  /\ at' = 0 /\ last' = -1 /\ asked' = NoCommand
  /\ PutLine(Piece("log", 1, 0))
  /\ UNCHANGED <<list, sentSnap, told>>

\* readline gives up in the middle of a line, between two pieces of it.
ReadTimeout ==
  /\ line # NoText
  /\ ingest_raw_line(line)
  /\ UNCHANGED <<list, at, last, asked, sentSnap, told>>

NextWire ==
  \/ on_snapshot \/ serial_link_send_frame \/ serial_link_send_snapshot
  \/ GetStatus \/ PrintStatus \/ Reply \/ Restart \/ ReadTimeout

WireSpec == InitWire /\ [][NextWire]_wireVars

-----------------------------------------------------------------------------
(* Properties.                                                               *)

\* Whatever is printed into the middle of a FRAME, wherever the gateway is reset or a read
\* gives up: from the SNAP of a reading on, that reading is the one shown, until the next
\* SNAP that arrives on a line of its own.  One printed for GET_STATUS (app_main.c:122) shows
\* values, empty ones perhaps, no older than the reading that was the newest when the
\* command came, and values of one reading unless another came before it was printed.
\* The values of a frame's detail are of one reading (protocol.py:109,
\* runtime_service.py:209-219), and nothing swallowed by a FRAME is taken for a status.
ShownAsPrinted ==
  /\ ~told.status => shown.snap = Values(sentSnap)
  /\ {shown.snap.t, shown.snap.v} \subseteq {0} \cup told.since .. told.until
  /\ told.since = told.until => shown.snap.t = shown.snap.v
  /\ shown.detail.t = shown.detail.v
  /\ {shown.wifi, shown.mqtt} \subseteq LinkStates \cup {None}
=============================================================================

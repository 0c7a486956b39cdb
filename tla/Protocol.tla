------------------------------ MODULE Protocol ------------------------------
(***************************************************************************)
(* The text of the commands: backend/protocol.py, and the firmware's       *)
(* reader of the same text, split_command_fields of app_main.c behind the  *)
(* fgets of serial_link.c.                                                 *)
(*                                                                         *)
(* A text is a sequence of characters; those that matter are the comma,    *)
(* the backslash, the two line ends and the letters n and r.  The          *)
(* functions are pure; what moves is the command that is typed.            *)
(***************************************************************************)
EXTENDS Integers, Sequences, SequencesExt

CONSTANTS
  SerialLineMax, \* SERIAL_LINE_MAX
  FieldMax,   \* the fields a firmware command can have
  Secret,     \* SENSITIVE_INDEXES: the place of the secret in a command, by its name
  Char,       \* the characters typed
  Commands,   \* the names of commands with a secret in one of their fields
  MaxChars    \* bound: the length of a command's text

ASSUME ProtocolAssumption ==
  /\ SerialLineMax \in Nat \ {0, 1} /\ FieldMax \in Nat \ {0} /\ MaxChars \in Nat
  /\ Char \subseteq STRING /\ \A name \in Commands : name \in Seq(STRING) /\ name # <<>>
  /\ Commands \subseteq DOMAIN Secret /\ \A name \in Commands : Secret[name] # 1

VARIABLE command   \* the fields of a command being typed

Comma == "," 
Bs    == "bs"
Nl    == "nl"
Cr    == "cr"

\* (mutated: the backslash itself is not escaped)
EscapeNoBackslash(c) ==
  CASE c = Comma -> <<Bs, Comma>> [] c = Nl -> <<Bs, "n">> [] c = Cr -> <<Bs, "r">> [] OTHER -> <<c>>

EscapeChar(c) ==
  CASE c = Bs -> <<Bs, Bs>> [] c = Comma -> <<Bs, Comma>>
    [] c = Nl -> <<Bs, "n">> [] c = Cr -> <<Bs, "r">> [] OTHER -> <<c>>

escape_command_field(text) == FlattenSeq([i \in 1 .. Len(text) |-> EscapeChar(text[i])])

build_command(fields) ==
  FlattenSeq([i \in 1 .. Len(fields) |->
    (IF i = 1 THEN <<>> ELSE <<Comma>>) \o escape_command_field(fields[i])])

\* What an escaped character stands for, on both sides.
Unescaped(c) == CASE c = "n" -> Nl [] c = "r" -> Cr [] OTHER -> c

\* The reader of one character: finished fields, the field being read, in an escape?
EndField(s) == [s EXCEPT !.fields = Append(@, s.buf), !.buf = <<>>]

\* (mutated: a comma always ends a field)
ReadCharAtCommas(s, c) == IF c = Comma THEN EndField(s) ELSE [s EXCEPT !.buf = Append(@, c)]

ReadChar(s, c) ==
  IF s.escaping THEN [s EXCEPT !.buf = Append(@, Unescaped(c)), !.escaping = FALSE]
  ELSE IF c = Bs THEN [s EXCEPT !.escaping = TRUE]
  ELSE IF c = Comma THEN EndField(s)
  ELSE [s EXCEPT !.buf = Append(@, c)]

ReadStart == [fields |-> <<>>, buf |-> <<>>, escaping |-> FALSE]

\* A backslash at the very end stands for itself.
split_escaped_fields(text) ==
  LET read[n \in 0 .. Len(text)] == IF n = 0 THEN ReadStart ELSE ReadChar(read[n - 1], text[n])
      s == read[Len(text)]
  IN Append(s.fields, IF s.escaping THEN Append(s.buf, Bs) ELSE s.buf)

\* mask_sensitive_command, for the log.  A command never begins or ends with blanks here.
mask_sensitive_command(raw) ==
  LET parts == split_escaped_fields(raw) IN
  IF raw = <<>> \/ parts[1] \notin DOMAIN Secret THEN raw
  ELSE build_command([i \in 1 .. Len(parts) |-> IF i = Secret[parts[1]] THEN <<"*">> ELSE parts[i]])

-----------------------------------------------------------------------------
(* The firmware.                                                             *)

\* fgets takes SerialLineMax - 1 characters at most; the rest of a longer line is the next
\* line.  The characters of a line end at the end of a piece are cut off.
Pieces(text) ==
  LET size == SerialLineMax - 1
      n == (Len(text) + size - 1) \div size
  IN [k \in 1 .. n |-> SubSeq(text, (k - 1) * size + 1, IF k = n THEN Len(text) ELSE k * size)]

\* <<>> for a command it refuses: too many fields.
split_command_fields(line) ==
  LET fields == split_escaped_fields(line) IN IF Len(fields) > FieldMax THEN <<>> ELSE fields

\* What the console task hands to handle_command for a command of the dashboard, piece
\* by piece; <<>> where it refuses.
Received(text) == [k \in 1 .. Len(Pieces(text)) |-> split_command_fields(Pieces(text)[k])]

-----------------------------------------------------------------------------
(* A command is typed, character by character and field by field.            *)

command_text == build_command(command)

InitCommand == command = <<>>

TypeCommand ==
  \/ command = <<>> /\ \E name \in Commands : command' = <<name>>
  \/ /\ command # <<>> /\ Len(command_text) < MaxChars
     /\ \/ command' = Append(command, <<>>)
        \/ /\ Len(command) > 1
           /\ \E c \in Char : command' = [command EXCEPT ![Len(command)] = Append(@, c)]

ProtocolSpec == InitCommand /\ [][TypeCommand]_command

\* What is typed reaches handle_command: the firmware splits an escaped command into the
\* very fields it was built from, as long as it fits in one line and has no more fields
\* than the firmware takes (protocol.py:31, app_main.c:47: "so text fields like SSIDs or
\* passwords can travel safely in one line").
CommandArrives ==
  command # <<>> =>
    /\ split_escaped_fields(command_text) = command
    /\ Len(command_text) < SerialLineMax => Received(command_text) = <<IF Len(command) > FieldMax THEN <<>> ELSE command>>

\* The log shows a command with its secret replaced and everything else as it was, whatever
\* commas and backslashes the secret has (protocol.py:68, service.py:354).
SecretsStayMasked ==
  command # <<>> =>
    split_escaped_fields(mask_sensitive_command(command_text))
      = [i \in 1 .. Len(command) |-> IF i = Secret[command[1]] THEN <<"*">> ELSE command[i]]
=============================================================================

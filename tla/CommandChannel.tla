--------------------------- MODULE CommandChannel ---------------------------
(***************************************************************************)
(* What a user of the serial session may count on, whatever threads, locks *)
(* and timeouts are behind it: the commands sent in a session reach its    *)
(* port in the order in which they were sent, each once and none left out, *)
(* up to some point where the session is lost with all that is pending;    *)
(* what is sent while there is no session reaches no port at all.          *)
(* SerialManager implements this.                                          *)
(***************************************************************************)
EXTENDS Integers, Sequences

CONSTANTS
  Session,  \* the sessions, numbers in the order in which they are opened
  None      \* no session

VARIABLES
  session,   \* the current session, or None
  last,      \* how many there have been
  sent,      \* how many commands were sent
  pending,   \* those of the session that have not reached the port
  delivered  \* what each port has got

vars == <<session, last, sent, pending, delivered>>

Init ==
  /\ session = None /\ last = 0 /\ sent = 0 /\ pending = <<>>
  /\ delivered = [s \in Session |-> <<>>]

OpenSession ==
  /\ session = None /\ last + 1 \in Session
  /\ last' = last + 1 /\ session' = last + 1
  /\ UNCHANGED <<sent, pending, delivered>>

\* The next k commands, for a session.
New(k, s) == [i \in 1 .. k |-> [n |-> sent + i, to |-> s]]

Send ==
  /\ \E k \in {1, 2} :
       /\ sent' = sent + k
       /\ pending' = IF session = None THEN pending ELSE pending \o New(k, session)
  /\ UNCHANGED <<session, last, delivered>>

Deliver ==
  /\ session # None /\ pending # <<>>
  /\ delivered' = [delivered EXCEPT ![session] = Append(@, Head(pending))]
  /\ pending' = Tail(pending)
  /\ UNCHANGED <<session, last, sent>>

Lose ==
  /\ session # None
  /\ session' = None /\ pending' = <<>>
  /\ UNCHANGED <<last, sent, delivered>>

Next == OpenSession \/ Send \/ Deliver \/ Lose

Spec == Init /\ [][Next]_vars
=============================================================================

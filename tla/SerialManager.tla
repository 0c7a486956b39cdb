--------------------------- MODULE SerialManager ---------------------------
(***************************************************************************)
(* The dashboard's USB serial session: SerialManager                       *)
(* (backend/serial_worker.py) driven by ConnectionService.connect and the  *)
(* connect, disconnect, send_command, auto_reconnect and _on_state methods *)
(* of GatewayService (service.py).                                         *)
(*                                                                         *)
(* Two kinds of threads touch the manager's fields without a common lock:  *)
(* the UI thread (Reflex runs its event handlers one at a time) and the    *)
(* worker threads, one per successful connect.  Every action below is one  *)
(* step of one of them; a step ends where the code can block or where      *)
(* another thread's step makes a difference.  GatewayService._lock is held *)
(* only inside the on_line and on_state callbacks: a worker at "line"      *)
(* holds it.                                                               *)
(*                                                                         *)
(* A port handle is a number, the order in which connect opened it; the    *)
(* worker that connect starts for handle h is worker h.                    *)
(***************************************************************************)
EXTENDS Integers, Sequences

CONSTANTS
  MaxConnects,  \* bound: ports opened
  MaxFaults,    \* bound: I/O errors, failed opens and failed probes
  MaxUserOps,   \* bound: connects and disconnects asked for by the user
  MaxSends,     \* bound: the user sends while fewer commands were sent
  WriteFaults,  \* may ser.write / ser.flush raise (write_timeout, unplugged)?
  JoinTimesOut, \* may a worker outlive join(timeout=1.0), in a slow callback
                \* or a flush that does not return?
  ExitWindow    \* may another thread run between the worker's ser.close() and
                \* its "self._serial = None"?

ASSUME BoundsAssumption ==
  /\ MaxConnects \in Nat /\ MaxFaults \in Nat /\ MaxUserOps \in Nat
  /\ MaxSends \in Nat
ASSUME TimingAssumption ==
  /\ WriteFaults \in BOOLEAN /\ JoinTimesOut \in BOOLEAN /\ ExitWindow \in BOOLEAN

Handle == 1 .. MaxConnects
None == 0

VARIABLES
  ser,     \* self._serial: a handle or None
  opened,  \* the handles whose port is open (is_open)
  thread,  \* self._thread: the worker that connect started last, or None
  stop,    \* self._stop
  txq,     \* self._tx_queue, oldest first
  pc,      \* where each worker is
  port,    \* each worker's local variable ser
  hand,    \* the command a worker has taken from the queue
  wire,    \* the commands each port has accepted
  ui,      \* where the UI thread is
  after,   \* what the UI thread does after SerialManager.disconnect
  status,  \* GatewayService.connection_status
  conns, faults, ops, sends  \* counters for the bounds

serialVars == <<ser, opened, thread, stop, txq>>
workerVars == <<pc, port, hand, wire>>
uiVars     == <<ui, after>>
bounds     == <<conns, faults, ops, sends>>
vars       == <<serialVars, workerVars, uiVars, status, bounds>>

WorkerLabel == {"none", "start", "check", "drain", "write", "read", "got",
                "line", "error", "close", "clear", "done", "dead"}
UiLabel     == {"idle", "signal", "join", "close", "report", "clear", "open",
                "spawn", "announce", "greet"}
Status      == {"Disconnected", "Connected", "Error", "NoGateway"}

\* n numbers the commands in the order they were sent, to is the session they
\* were sent in: the handle that was current when send was called.
Command   == [n : Nat, to : Handle]
NoCommand == [n |-> 0, to |-> None]

\* _thread.is_alive()
Alive(w) == pc[w] \notin {"none", "done", "dead"}
\* _lock is an RLock that _on_line holds from end to end.
\* (mutated: disconnect holds it as well, while it waits for the thread)
LockHeldByDisconnect == ui = "join" \/ \E w \in Handle : pc[w] = "line"
LockHeld == \E w \in Handle : pc[w] = "line"
\* Where a worker may stay for more than a second: flush has no timeout, on_line
\* writes the database, and both callbacks wait for the lock.
Slow(w) == pc[w] \in {"write", "line"} \/ (pc[w] \in {"got", "error"} /\ LockHeld)

\* SerialManager.connected.
connected == ser \in opened

MayFail == faults < MaxFaults

Init ==
  /\ ser = None /\ opened = {} /\ thread = None /\ stop = FALSE /\ txq = <<>>
  /\ pc = [w \in Handle |-> "none"]
  /\ port = [w \in Handle |-> None]
  /\ hand = [w \in Handle |-> NoCommand]
  /\ wire = [h \in Handle |-> <<>>]
  /\ ui = "idle" /\ after = "idle" /\ status = "Disconnected"
  /\ conns = 0 /\ faults = 0 /\ ops = 0 /\ sends = 0

-----------------------------------------------------------------------------
(* The UI thread.                                                          *)

\* (mutated: an open session is left as it is)
BeginConnectNoDisconnect ==
  /\ ui' = "clear"
  /\ after' = "clear"

\* GatewayService.connect -> SerialManager.connect: an open session is
\* disconnected first.
BeginConnect ==
  /\ ui' = IF connected THEN "signal" ELSE "clear"
  /\ after' = "clear"

\* The user picks a port and presses Connect.
UiConnect ==
  /\ ui = "idle" /\ ops < MaxUserOps /\ conns < MaxConnects
  /\ ops' = ops + 1
  /\ BeginConnect
  /\ UNCHANGED <<serialVars, workerVars, status, conns, faults, sends>>

\* live_tick -> tick_runtime -> auto_reconnect_if_needed -> auto_connect: with
\* no connection, probe the ports (through a handle of the probe's own) and
\* connect to the first that answers.
UiTick ==
  /\ ui = "idle" /\ ~connected /\ conns < MaxConnects
  /\ \/ /\ BeginConnect
        /\ UNCHANGED <<status, faults>>
     \/ /\ MayFail /\ faults' = faults + 1
        /\ status' = "NoGateway"
        /\ UNCHANGED uiVars
  /\ UNCHANGED <<serialVars, workerVars, conns, ops, sends>>

\* GatewayService.disconnect.
UiDisconnect ==
  /\ ui = "idle" /\ ops < MaxUserOps
  /\ ops' = ops + 1
  /\ \/ /\ connected
        /\ ui' = "signal" /\ after' = "idle"
        /\ UNCHANGED status
     \/ /\ ~connected
        /\ status' = "Disconnected"
        /\ UNCHANGED uiVars
  /\ UNCHANGED <<serialVars, workerVars, conns, faults, sends>>

Send(k) == txq \o [i \in 1 .. k |-> [n |-> sends + i, to |-> ser]]

\* GatewayService.send_command, for any button of the UI.
UiSend ==
  /\ ui = "idle" /\ connected /\ sends < MaxSends
  /\ txq' = Send(1) /\ sends' = sends + 1
  /\ UNCHANGED <<ser, opened, thread, stop, workerVars, uiVars, status,
                 conns, faults, ops>>

\* SerialManager.disconnect: self._stop.set(), then join if the thread lives.
Signal ==
  /\ ui = "signal"
  /\ stop' = TRUE
  /\ ui' = "join"
  /\ UNCHANGED <<ser, opened, thread, txq, workerVars, after, status, bounds>>

Join ==
  /\ ui = "join"
  /\ \/ thread = None
     \/ thread # None /\ ~Alive(thread)
     \/ JoinTimesOut /\ thread # None /\ Slow(thread)
  /\ ui' = "close"
  /\ UNCHANGED <<serialVars, workerVars, after, status, bounds>>

\* Close the port, forget it and the thread, drop what was not sent.
Close ==
  /\ ui = "close"
  /\ thread' = None
  /\ opened' = opened \ {ser}
  /\ ser' = None
  /\ txq' = <<>>
  /\ ui' = "report"
  /\ UNCHANGED <<stop, workerVars, after, status, bounds>>

\* on_state(False, "Disconnected") takes _lock.
Report ==
  /\ ui = "report" /\ ~LockHeld
  /\ status' = "Disconnected"
  /\ ui' = after
  /\ UNCHANGED <<serialVars, workerVars, after, bounds>>

\* (mutated: the queue is left as it is)
ClearKeepsQueue ==
  /\ ui = "clear"
  /\ stop' = FALSE
  /\ ui' = "open"
  /\ UNCHANGED <<ser, opened, thread, txq, workerVars, after, status, bounds>>

\* SerialManager.connect: drop stale commands, clear the stop flag.
Clear ==
  /\ ui = "clear"
  /\ txq' = <<>> /\ stop' = FALSE
  /\ ui' = "open"
  /\ UNCHANGED <<ser, opened, thread, workerVars, after, status, bounds>>

\* self._serial = serial.Serial(...), or the exception it raises, which leaves
\* the handler.
Open ==
  /\ ui = "open"
  /\ \/ /\ conns' = conns + 1
        /\ ser' = conns + 1
        /\ opened' = opened \cup {conns + 1}
        /\ ui' = "spawn"
        /\ UNCHANGED faults
     \/ /\ MayFail /\ faults' = faults + 1
        /\ ui' = "idle"
        /\ UNCHANGED <<ser, opened, conns>>
  /\ UNCHANGED <<thread, stop, txq, workerVars, after, status, ops, sends>>

\* After _stabilize_port: start the worker.
Spawn ==
  /\ ui = "spawn"
  /\ thread' = conns
  /\ pc' = [pc EXCEPT ![conns] = "start"]
  /\ ui' = "announce"
  /\ UNCHANGED <<ser, opened, stop, txq, port, hand, wire, after, status, bounds>>

\* on_state(True, "Connected to ...") takes _lock.
Announce ==
  /\ ui = "announce" /\ ~LockHeld
  /\ status' = "Connected"
  /\ ui' = "greet"
  /\ UNCHANGED <<serialVars, workerVars, after, bounds>>

\* The rest of GatewayService.connect: connection_status, then GET_INFO and
\* GET_STATUS through send_command.
Greet ==
  /\ ui = "greet"
  /\ status' = "Connected"
  /\ \/ connected /\ txq' = Send(2) /\ sends' = sends + 2
     \/ ~connected /\ UNCHANGED <<txq, sends>>
  /\ ui' = "idle"
  /\ UNCHANGED <<ser, opened, thread, stop, workerVars, after, conns, faults, ops>>

UiStep == Signal \/ Join \/ Close \/ Report \/ Clear \/ Open \/ Spawn
            \/ Announce \/ Greet

-----------------------------------------------------------------------------
(* The worker threads: SerialManager._worker.                              *)

Goto(w, label) == pc' = [pc EXCEPT ![w] = label]

\* assert self._serial is not None; ser = self._serial
StartAsserts(w) == pc[w] = "start" => ser # None

Start(w) ==
  /\ pc[w] = "start"
  /\ port' = [port EXCEPT ![w] = ser]
  /\ Goto(w, IF ser = None THEN "dead" ELSE "check")
  /\ UNCHANGED <<serialVars, hand, wire, uiVars, status, bounds>>

\* while not self._stop.is_set()
CheckStop(w) ==
  /\ pc[w] = "check"
  /\ Goto(w, IF stop THEN "close" ELSE "drain")
  /\ UNCHANGED <<serialVars, port, hand, wire, uiVars, status, bounds>>

\* (mutated: the command stays in the queue)
TakeKeeps(w) ==
  /\ pc[w] = "drain"
  /\ \/ /\ txq # <<>>
        /\ hand' = [hand EXCEPT ![w] = Head(txq)]
        /\ Goto(w, "write")
     \/ /\ txq = <<>>
        /\ Goto(w, "read")
        /\ UNCHANGED hand
  /\ UNCHANGED <<serialVars, port, wire, uiVars, status, bounds>>

\* (mutated: the newest command is taken first)
TakeNewest(w) ==
  /\ pc[w] = "drain"
  /\ \/ /\ txq # <<>>
        /\ hand' = [hand EXCEPT ![w] = txq[Len(txq)]]
        /\ txq' = SubSeq(txq, 1, Len(txq) - 1)
        /\ Goto(w, "write")
     \/ /\ txq = <<>>
        /\ Goto(w, "read")
        /\ UNCHANGED <<txq, hand>>
  /\ UNCHANGED <<ser, opened, thread, stop, port, wire, uiVars, status, bounds>>

\* self._tx_queue.get_nowait()
Take(w) ==
  /\ pc[w] = "drain"
  /\ \/ /\ txq # <<>>
        /\ hand' = [hand EXCEPT ![w] = Head(txq)]
        /\ txq' = Tail(txq)
        /\ Goto(w, "write")
     \/ /\ txq = <<>>
        /\ Goto(w, "read")
        /\ UNCHANGED <<txq, hand>>
  /\ UNCHANGED <<ser, opened, thread, stop, port, wire, uiVars, status, bounds>>

\* ser.write(...); ser.flush().  Only queue.Empty is caught around them: any
\* other exception ends the thread without the exit block.
Write(w) ==
  /\ pc[w] = "write"
  /\ \/ /\ port[w] \in opened
        /\ wire' = [wire EXCEPT ![port[w]] = Append(@, hand[w])]
        /\ Goto(w, "drain")
        /\ UNCHANGED faults
     \/ /\ port[w] \notin opened
        /\ Goto(w, "dead")
        /\ UNCHANGED <<wire, faults>>
     \/ /\ WriteFaults /\ port[w] \in opened
        /\ MayFail /\ faults' = faults + 1
        /\ Goto(w, "dead")
        /\ UNCHANGED wire
  /\ hand' = [hand EXCEPT ![w] = NoCommand]
  /\ UNCHANGED <<serialVars, port, uiVars, status, conns, ops, sends>>

\* ser.readline(): a line, nothing within the timeout, or an exception.
Read(w) ==
  /\ pc[w] = "read"
  /\ \/ /\ port[w] \in opened
        /\ Goto(w, "check")
        /\ UNCHANGED faults
     \/ /\ port[w] \in opened
        /\ Goto(w, "got")
        /\ UNCHANGED faults
     \/ /\ port[w] \notin opened
        /\ Goto(w, "error")
        /\ UNCHANGED faults
     \/ /\ port[w] \in opened /\ MayFail /\ faults' = faults + 1
        /\ Goto(w, "error")
  /\ UNCHANGED <<serialVars, port, hand, wire, uiVars, status, conns, ops, sends>>

\* on_line takes _lock ...
TakeLock(w) ==
  /\ pc[w] = "got" /\ ~LockHeld
  /\ Goto(w, "line")
  /\ UNCHANGED <<serialVars, port, hand, wire, uiVars, status, bounds>>

\* ... and returns, or raises, which the loop handles like an I/O error.
Deliver(w) ==
  /\ pc[w] = "line"
  /\ \/ /\ Goto(w, "check")
        /\ UNCHANGED faults
     \/ /\ MayFail /\ faults' = faults + 1
        /\ Goto(w, "error")
  /\ UNCHANGED <<serialVars, port, hand, wire, uiVars, status, conns, ops, sends>>

\* on_state(False, "... error") takes _lock; then the loop is left.
ReportError(w) ==
  /\ pc[w] = "error" /\ ~LockHeld
  /\ status' = "Error"
  /\ Goto(w, "close")
  /\ UNCHANGED <<serialVars, port, hand, wire, uiVars, bounds>>

\* (mutated: the exit block is skipped)
ExitLeavesPort(w) ==
  /\ pc[w] = "close"
  /\ Goto(w, "done")
  /\ UNCHANGED <<serialVars, port, hand, wire, uiVars, status, bounds>>

\* The exit block: close the worker's own port, then, in its finally,
\* self._serial = None, whatever self._serial is by then.
Exit(w) ==
  /\ pc[w] = "close"
  /\ opened' = opened \ {port[w]}
  /\ \/ ~ExitWindow /\ ser' = None /\ Goto(w, "done")
     \/ ExitWindow /\ UNCHANGED ser /\ Goto(w, "clear")
  /\ UNCHANGED <<thread, stop, txq, port, hand, wire, uiVars, status, bounds>>

ClearSerial(w) ==
  /\ pc[w] = "clear"
  /\ ser' = None
  /\ Goto(w, "done")
  /\ UNCHANGED <<opened, thread, stop, txq, port, hand, wire, uiVars, status, bounds>>

Worker(w) == Start(w) \/ CheckStop(w) \/ Take(w) \/ Write(w) \/ Read(w)
               \/ TakeLock(w) \/ Deliver(w) \/ ReportError(w) \/ Exit(w) \/ ClearSerial(w)

-----------------------------------------------------------------------------
Next ==
  \/ UiConnect \/ UiTick \/ UiDisconnect \/ UiSend \/ UiStep
  \/ \E w \in Handle : Worker(w)

\* The threads run; live_tick comes from a timer of the page; nothing makes the
\* user press a button.  A thread that waits for _lock gets it in the end: the
\* worker that takes it sleeps between two lines.
Fairness ==
  /\ WF_vars(UiStep) /\ SF_vars(Report) /\ SF_vars(Announce) /\ WF_vars(UiTick)
  /\ \A w \in Handle : WF_vars(Worker(w))

Spec     == Init /\ [][Next]_vars
FairSpec == Spec /\ Fairness

-----------------------------------------------------------------------------
(* Properties.                                                             *)

\* A connect is under way and will open one more port.
Connecting ==
  \/ ui \in {"clear", "open"}
  \/ ui \in {"signal", "join", "close", "report"} /\ after = "clear"

ManagerTypes ==
  /\ ser \in Handle \cup {None} /\ opened \subseteq Handle
  /\ thread \in Handle \cup {None} /\ stop \in BOOLEAN /\ txq \in Seq(Command)
  /\ ui \in UiLabel /\ after \in {"idle", "clear"} /\ status \in Status
  /\ conns \in 0 .. MaxConnects /\ faults \in 0 .. MaxFaults
  /\ ops \in 0 .. MaxUserOps /\ sends \in Nat
  /\ Connecting => conns < MaxConnects

WorkerTypes ==
  /\ pc \in [Handle -> WorkerLabel]
  /\ port \in [Handle -> Handle \cup {None}]
  /\ hand \in [Handle -> Command \cup {NoCommand}]
  /\ wire \in [Handle -> Seq(Command)]
  /\ \A w \in Handle : pc[w] = "write" => hand[w] \in Command

TypeOK == ManagerTypes /\ WorkerTypes

\* The two timing assumptions under which the manager is correct: a callback is
\* shorter than the join's second, and the exit block is not interrupted.
Timely == ~JoinTimesOut /\ ~ExitWindow

\* A worker between its start and its exit block: it may touch the queue, the
\* port or the service.
Busy(w) == Alive(w) /\ pc[w] # "clear"

\* At most one worker at a time takes commands and reads a port: every line
\* reaches on_line once, in order, and the queue has one consumer.  connect must
\* find the old worker gone before it starts the next one.
OneReader == \A v, w \in Handle : Busy(v) /\ Busy(w) => v = w

\* A command is written only to the port of the session it was sent in: what a
\* lost session left in the queue never reaches the next port (SET_WIFI or
\* FACTORY_RESET to a gateway the user did not choose).
CommandsStayInSession ==
  \A h \in Handle : \A i \in DOMAIN wire[h] : wire[h][i].to = h

\* Whatever the timing, and whichever workers share the queue, no command is
\* carried out twice.
WrittenOnce ==
  \A g, h \in Handle : \A i \in DOMAIN wire[g], j \in DOMAIN wire[h] :
    wire[g][i].n = wire[h][j].n => g = h /\ i = j

\* A worker never finds self._serial gone when it starts: the assertion at the
\* head of _worker.
WorkerFindsPort == \A w \in Handle : StartAsserts(w)

\* connect and disconnect come back to the user: the join, the lock that the
\* callbacks hold and the worker's own wait for that lock never block each
\* other for good.
UiReturns == (ui # "idle") ~> (ui = "idle")

\* The worker of the current session is in its loop.
Listening == connected /\ pc[ser] \in {"check", "drain", "write", "read", "got", "line"}

\* The worker of the current session died in ser.write, the port is still open.
Zombie == connected /\ pc[ser] = "dead"

\* After any fault the tick restores a session that reads the port; the only
\* other place the link can stay is the session whose worker a write exception
\* killed.
Heals == []<>(Listening \/ Zombie)

\* Without that exception clause: the reconnect the README promises.
Reconnects == []<>Listening

-----------------------------------------------------------------------------
(* The inductive invariant behind OneReader and CommandsStayInSession when   *)
(* the manager is Timely.                                                    *)

\* From the close of the old session to the start of the next worker.
Between == ui \in {"close", "report", "clear", "open", "spawn"}

BusyOwnsSession ==
  \A w \in Handle : Busy(w) =>
    /\ thread = w /\ ser = w /\ w \in opened /\ ~Between
    /\ pc[w] # "start" => port[w] = w
    /\ pc[w] = "write" => hand[w].to = w
    /\ \A i \in DOMAIN txq : txq[i].to = w

SessionInv ==
  /\ BusyOwnsSession
  /\ CommandsStayInSession
  /\ \A w \in Handle : pc[w] # "clear"
  /\ ui \in {"open", "spawn"} => txq = <<>>
  /\ ui = "spawn" => conns # 0 /\ ser = conns /\ conns \in opened

-----------------------------------------------------------------------------
(* What the manager implements.                                              *)

\* The session of the abstract channel: the open port, unless its worker died in ser.write.
LiveSession == IF connected /\ pc[ser] # "dead" THEN ser ELSE None

\* What the worker has in its hand, then the queue.
Pending ==
  IF LiveSession = None THEN <<>>
  ELSE IF pc[ser] = "write" THEN <<hand[ser]>> \o txq ELSE txq

Channel == INSTANCE CommandChannel WITH
  Session <- Handle, session <- LiveSession, last <- conns, sent <- sends,
  pending <- Pending, delivered <- wire

\* While the manager is Timely, its queue, handles and workers amount to CommandChannel: no
\* command is lost between two that arrive, none overtakes another, none survives its
\* session (serial_worker.py:39-130).
ImplementsChannel == Channel!Spec
=============================================================================

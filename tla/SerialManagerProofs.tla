------------------------ MODULE SerialManagerProofs ------------------------
(***************************************************************************)
(* Theorems about the serial session, for any number of connects, faults,  *)
(* user operations and commands: type correctness whatever the timing and, *)
(* when the manager is Timely, one reader at a time, commands that stay in *)
(* their session and a worker that always finds its port.  No command is   *)
(* written twice, Timely or not.  A timely manager implements              *)
(* CommandChannel.                                                         *)
(***************************************************************************)
EXTENDS SerialManager, SequenceTheorems, TLAPS

\* What send_command appends to the queue: typed commands, addressed to the
\* session that is open.
LEMMA SendFacts ==
  ASSUME NEW k \in 1 .. 2, ser \in Handle, txq \in Seq(Command), sends \in Nat
  PROVE  /\ Send(k) \in Seq(Command)
         /\ \A h : (/\ ser = h
                    /\ \A i \in DOMAIN txq : txq[i].to = h)
                     => \A i \in DOMAIN Send(k) : Send(k)[i].to = h
<1> DEFINE s == [i \in 1 .. k |-> [n |-> sends + i, to |-> ser]]
<1>1. s \in Seq(Command)
  BY DEF Command
<1>2. Len(s) = k /\ Send(k) = txq \o s
  BY <1>1 DEF Send
<1>3. Send(k) \in Seq(Command)
  BY <1>1, <1>2
<1>4. ASSUME NEW h, ser = h, \A i \in DOMAIN txq : txq[i].to = h,
             NEW i \in DOMAIN Send(k)
      PROVE  Send(k)[i].to = h
  <2>1. DOMAIN Send(k) = 1 .. Len(txq) + Len(s)
    BY <1>1, <1>2
  <2>2. CASE i \in 1 .. Len(txq)
    <3>1. Send(k)[i] = txq[i]
      BY <1>1, <1>2, <2>2
    <3>. QED  BY <3>1, <2>2, <1>4
  <2>3. CASE i \in Len(txq) + 1 .. Len(txq) + Len(s)
    <3>1. Send(k)[i] = s[i - Len(txq)] /\ i - Len(txq) \in 1 .. k
      BY <1>1, <1>2, <2>3
    <3>. QED  BY <3>1, <1>4
  <2>. QED  BY <1>1, <2>1, <2>2, <2>3
<1>. QED  BY <1>3, <1>4

\* A queue loses its head, and a port gains a command, within their types and
\* with every command still addressed to session h.
LEMMA HeadTailFacts ==
  ASSUME NEW q \in Seq(Command), q # <<>>
  PROVE  /\ Head(q) \in Command /\ Tail(q) \in Seq(Command)
         /\ \A h : (\A i \in DOMAIN q : q[i].to = h)
                     => /\ Head(q).to = h
                        /\ \A i \in DOMAIN Tail(q) : Tail(q)[i].to = h
OBVIOUS

LEMMA AppendFacts ==
  ASSUME NEW q \in Seq(Command), NEW c \in Command
  PROVE  /\ Append(q, c) \in Seq(Command)
         /\ \A h : (c.to = h /\ \A i \in DOMAIN q : q[i].to = h)
                     => \A i \in DOMAIN Append(q, c) : Append(q, c)[i].to = h
OBVIOUS

-----------------------------------------------------------------------------
(* Type correctness.                                                       *)

LEMMA InitTypeOK == Init => TypeOK
<1>1. ASSUME Init PROVE ManagerTypes
  <2>1. stop \in BOOLEAN
    BY <1>1, Zenon DEF Init
  <2>. QED
    BY <1>1, <2>1, BoundsAssumption
       DEF Init, ManagerTypes, None, UiLabel, Status, Connecting
<1>2. Init => WorkerTypes
  BY DEF Init, WorkerTypes, WorkerLabel
<1>. QED  BY <1>1, <1>2 DEF TypeOK

USE DEF vars, serialVars, workerVars, uiVars, bounds

\* The handle that connect opens next is one of the model's handles.
LEMMA OpenTypes ==
  ASSUME ManagerTypes, Open
  PROVE  /\ ser' \in Handle \cup {None} /\ opened' \subseteq Handle
         /\ conns' \in 0 .. MaxConnects
<1>1. ui' = "spawn" => conns + 1 \in Handle
  BY BoundsAssumption DEF ManagerTypes, Open, Handle, Connecting
<1>2. \/ ser' = ser /\ opened' = opened /\ conns' = conns
      \/ /\ ui' = "spawn" /\ conns' = conns + 1
         /\ ser' = conns + 1 /\ opened' = opened \cup {conns + 1}
  BY DEF Open
<1>3. conns' \in 0 .. MaxConnects
  BY <1>1, <1>2, BoundsAssumption DEF ManagerTypes, Handle
<1>. QED  BY <1>1, <1>2, <1>3 DEF ManagerTypes

LEMMA UiManagerTypes ==
  ASSUME ManagerTypes, UiConnect \/ UiTick \/ UiDisconnect \/ UiSend \/ UiStep
  PROVE  ManagerTypes'
<1> USE BoundsAssumption
    DEF ManagerTypes, Handle, None, UiLabel, Status, Connecting, MayFail
<1>1. CASE UiConnect
  BY <1>1 DEF UiConnect, BeginConnect
<1>2. CASE UiTick
  BY <1>2 DEF UiTick, BeginConnect
<1>3. CASE UiDisconnect
  BY <1>3 DEF UiDisconnect
<1>4. CASE UiSend
  BY <1>4, SendFacts DEF UiSend, connected
<1>5. CASE Signal
  BY <1>5 DEF Signal
<1>6. CASE Join
  BY <1>6 DEF Join
<1>7. CASE Close
  BY <1>7 DEF Close
<1>8. CASE Report
  BY <1>8 DEF Report
<1>9. CASE Clear
  <2>1. stop' \in BOOLEAN
    BY <1>9, Zenon DEF Clear
  <2>. QED  BY <1>9, <2>1 DEF Clear
<1>10. CASE Open
  BY <1>10, OpenTypes DEF Open
<1>11. CASE Spawn
  BY <1>11 DEF Spawn
<1>12. CASE Announce
  BY <1>12 DEF Announce
<1>13. CASE Greet
  BY <1>13, SendFacts DEF Greet, connected
<1>. QED
  BY <1>1, <1>2, <1>3, <1>4, <1>5, <1>6, <1>7, <1>8, <1>9, <1>10, <1>11, <1>12,
     <1>13 DEF UiStep

\* The UI touches the workers only by starting one.
LEMMA UiWorkerTypes ==
  ASSUME TypeOK, UiConnect \/ UiTick \/ UiDisconnect \/ UiSend \/ UiStep
  PROVE  WorkerTypes'
<1>1. CASE Spawn
  BY <1>1 DEF Spawn, WorkerTypes, TypeOK, WorkerLabel
<1>2. CASE UNCHANGED workerVars
  BY <1>2 DEF WorkerTypes, TypeOK
<1>. QED
  BY <1>1, <1>2 DEF UiConnect, UiTick, UiDisconnect, UiSend, UiStep, Signal, Join,
     Close, Report, Clear, Open, Announce, Greet

LEMMA WorkerManagerTypes ==
  ASSUME NEW w \in Handle, TypeOK, Worker(w)
  PROVE  ManagerTypes'
<1>1. CASE Take(w)
  BY <1>1 DEF Take, TypeOK, ManagerTypes, Connecting
<1>2. CASE ~Take(w)
  BY <1>2, BoundsAssumption
     DEF Worker, TypeOK, ManagerTypes, Connecting, None, Status, MayFail, Start,
         CheckStop, Write, Read, TakeLock, Deliver, ReportError, Exit, ClearSerial
<1>. QED  BY <1>1, <1>2

LEMMA WorkerWorkerTypes ==
  ASSUME NEW w \in Handle, TypeOK, Worker(w)
  PROVE  WorkerTypes'
<1> USE DEF TypeOK, WorkerTypes, WorkerLabel, Goto
<1>1. CASE Start(w)
  BY <1>1 DEF Start, ManagerTypes
<1>2. CASE CheckStop(w)
  BY <1>2 DEF CheckStop
<1>3. CASE Take(w)
  <2>1. txq # <<>> => Head(txq) \in Command
    BY HeadTailFacts DEF ManagerTypes
  <2>. QED  BY <1>3, <2>1 DEF Take
<1>4. CASE Write(w)
  <2>1. hand[w] \in Command /\ hand' \in [Handle -> Command \cup {NoCommand}]
    BY <1>4 DEF Write
  <2>2. wire' \in [Handle -> Seq(Command)]
    <3>1. wire' = wire \/ \E h \in Handle : wire' = [wire EXCEPT ![h] = Append(@, hand[w])]
      BY <1>4 DEF Write, ManagerTypes
    <3>2. \A h \in Handle : Append(wire[h], hand[w]) \in Seq(Command)
      BY <2>1, AppendFacts
    <3>. QED  BY <3>1, <3>2
  <2>3. pc' \in [Handle -> WorkerLabel] /\ port' = port
    BY <1>4 DEF Write
  <2>4. ASSUME NEW v \in Handle, pc'[v] = "write"  PROVE hand'[v] \in Command
    BY <1>4, <2>4 DEF Write
  <2>. QED  BY <2>1, <2>2, <2>3, <2>4
<1>5. CASE Read(w)
  BY <1>5 DEF Read
<1>6. CASE TakeLock(w)
  BY <1>6 DEF TakeLock
<1>7. CASE Deliver(w)
  BY <1>7 DEF Deliver
<1>8. CASE ReportError(w)
  BY <1>8 DEF ReportError
<1>9. CASE Exit(w)
  BY <1>9 DEF Exit
<1>10. CASE ClearSerial(w)
  BY <1>10 DEF ClearSerial
<1>. QED
  BY <1>1, <1>2, <1>3, <1>4, <1>5, <1>6, <1>7, <1>8, <1>9, <1>10 DEF Worker

\* Every variable keeps its type, and a connect that is under way still has a
\* handle to open, for every interleaving of the UI and the workers.
THEOREM TypeCorrect == Spec => []TypeOK
<1>1. TypeOK /\ [Next]_vars => TypeOK'
  <2> SUFFICES ASSUME TypeOK, [Next]_vars PROVE TypeOK'
    OBVIOUS
  <2>1. CASE UNCHANGED vars
    BY <2>1 DEF TypeOK, ManagerTypes, WorkerTypes, Connecting
  <2>2. CASE Next
    BY <2>2, UiManagerTypes, UiWorkerTypes, WorkerManagerTypes, WorkerWorkerTypes
       DEF Next, TypeOK
  <2>. QED  BY <2>1, <2>2
<1>. QED  BY <1>1, InitTypeOK, PTL DEF Spec

-----------------------------------------------------------------------------
(* One reader, and commands that stay in their session.                    *)

LEMMA InitSessionInv == Init => SessionInv
BY DEF Init, SessionInv, BusyOwnsSession, Busy, Alive, CommandsStayInSession, None

\* Only a worker that connect started and disconnect has not yet waited for is
\* alive, so the steps of the UI keep the invariant: Close runs after Join saw
\* the thread dead, and Spawn after a close or after a worker's own exit.
LEMMA UiSessionInv ==
  ASSUME Timely, TypeOK, SessionInv,
         UiConnect \/ UiTick \/ UiDisconnect \/ UiSend \/ UiStep
  PROVE  SessionInv'
<1> USE DEF SessionInv, BusyOwnsSession, Busy, Alive, CommandsStayInSession, Between
<1>1. CASE UiConnect
  BY <1>1 DEF UiConnect, BeginConnect, connected, None, Handle
<1>2. CASE UiTick
  BY <1>2 DEF UiTick, BeginConnect, connected, None, Handle
<1>3. CASE UiDisconnect
  BY <1>3 DEF UiDisconnect
<1>4. CASE UiSend \/ Greet
  <2>1. wire' = wire /\ pc' = pc /\ port' = port /\ hand' = hand /\ ser' = ser
        /\ opened' = opened /\ thread' = thread /\ ui \in {"idle", "greet"}
        /\ ui' = "idle"
    BY <1>4 DEF UiSend, Greet
  <2>2. ASSUME NEW w \in Handle, Busy(w), NEW i \in DOMAIN txq'
        PROVE  txq'[i].to = w
    <3>1. txq' = txq \/ \E k \in 1 .. 2 : connected /\ txq' = Send(k)
      BY <1>4 DEF UiSend, Greet
    <3>. QED  BY <2>2, <3>1, SendFacts DEF TypeOK, ManagerTypes, connected
  <2>. QED  BY <1>4, <2>2 DEF UiSend, Greet
<1>5. CASE Signal
  BY <1>5 DEF Signal
<1>6. CASE Join
  BY <1>6 DEF Join, Timely, Handle, None
<1>7. CASE Close
  BY <1>7 DEF Close
<1>8. CASE Report
  BY <1>8 DEF Report, TypeOK, ManagerTypes
<1>9. CASE Clear
  BY <1>9 DEF Clear
<1>10. CASE Open
  BY <1>10 DEF Open, TypeOK, ManagerTypes
<1>11. CASE Spawn
  BY <1>11 DEF Spawn, TypeOK, ManagerTypes, WorkerTypes
<1>12. CASE Announce
  BY <1>12 DEF Announce
<1>. QED
  BY <1>1, <1>2, <1>3, <1>4, <1>5, <1>6, <1>7, <1>8, <1>9, <1>10, <1>11, <1>12
     DEF UiStep

LEMMA WorkerSessionInv ==
  ASSUME Timely, TypeOK, SessionInv, NEW w \in Handle, Worker(w)
  PROVE  SessionInv'
<1> USE DEF SessionInv, BusyOwnsSession, Busy, Alive, CommandsStayInSession, Between,
        Goto, TypeOK, WorkerTypes
<1>1. CASE Start(w)
  BY <1>1 DEF Start
<1>2. CASE CheckStop(w)
  BY <1>2 DEF CheckStop
<1>3. CASE Take(w)
  <2>1. /\ \A v \in Handle : Busy(v)' => Busy(v) /\ (pc[v] = "start" => pc'[v] = "start")
        /\ \A v \in Handle : pc'[v] # "clear" /\ v # w => hand'[v] = hand[v] /\ pc'[v] = pc[v]
    BY <1>3 DEF Take
  <2>2. txq # <<>> => /\ Head(txq).to = w
                      /\ \A i \in DOMAIN Tail(txq) : Tail(txq)[i].to = w
    BY <1>3, HeadTailFacts DEF Take, ManagerTypes
  <2>3. /\ \A i \in DOMAIN txq' : txq'[i].to = w
        /\ pc'[w] = "write" => hand'[w].to = w
    BY <1>3, <2>2, ZenonT(30) DEF Take, ManagerTypes
  <2>4. \A v \in Handle : Busy(v) => v = w
    BY <1>3 DEF Take
  <2>. QED  BY <1>3, <2>1, <2>2, <2>3, <2>4 DEF Take
<1>4. CASE Write(w)
  <2>1. port[w] = w /\ hand[w].to = w /\ hand[w] \in Command
    BY <1>4 DEF Write
  <2>2. wire' = wire \/ wire' = [wire EXCEPT ![w] = Append(@, hand[w])]
    BY <1>4, <2>1 DEF Write
  <2>3. CommandsStayInSession'
    <3>1. \A i \in DOMAIN Append(wire[w], hand[w]) : Append(wire[w], hand[w])[i].to = w
      BY <2>1, AppendFacts
    <3>. QED  BY <2>2, <3>1
  <2>4. BusyOwnsSession' /\ \A v \in Handle : pc'[v] # "clear"
    BY <1>4 DEF Write
  <2>. QED  BY <1>4, <2>3, <2>4 DEF Write
<1>5. CASE Read(w)
  BY <1>5 DEF Read
<1>6. CASE TakeLock(w)
  BY <1>6 DEF TakeLock
<1>7. CASE Deliver(w)
  BY <1>7 DEF Deliver
<1>8. CASE ReportError(w)
  BY <1>8 DEF ReportError
<1>9. CASE Exit(w)
  BY <1>9 DEF Exit, Timely
<1>10. CASE ClearSerial(w)
  BY <1>10 DEF ClearSerial
<1>. QED
  BY <1>1, <1>2, <1>3, <1>4, <1>5, <1>6, <1>7, <1>8, <1>9, <1>10 DEF Worker

THEOREM SessionInvariant == Timely => (Spec => []SessionInv)
<1>1. ASSUME Timely, TypeOK, SessionInv, [Next]_vars
      PROVE  SessionInv'
  <2>1. CASE UNCHANGED vars
    BY <1>1, <2>1
       DEF SessionInv, BusyOwnsSession, Busy, Alive, CommandsStayInSession, Between
  <2>2. CASE Next
    BY <1>1, <2>2, UiSessionInv, WorkerSessionInv DEF Next
  <2>. QED  BY <1>1, <2>1, <2>2
<1>. SUFFICES ASSUME Timely PROVE Spec => []SessionInv
  OBVIOUS
<1>2. TypeOK /\ SessionInv /\ [Next]_vars => SessionInv'
  BY <1>1
<1>. QED  BY <1>2, InitSessionInv, TypeCorrect, PTL DEF Spec

\* When callbacks end within the join's second and the exit block is not
\* interrupted, no two workers are ever active, however often the user
\* reconnects and wherever the link fails.
THEOREM SingleReader == Timely => (Spec => []OneReader)
<1>1. SessionInv => OneReader
  BY DEF SessionInv, BusyOwnsSession, OneReader
<1>. QED  BY <1>1, SessionInvariant, PTL

\* Under the same assumptions a port only ever gets the commands of its session.
THEOREM NoCrossTalk == Timely => (Spec => []CommandsStayInSession)
<1>1. SessionInv => CommandsStayInSession
  BY DEF SessionInv
<1>. QED  BY <1>1, SessionInvariant, PTL

\* Under the same assumptions the assertion at the head of _worker holds.
THEOREM WorkerAssertion == Timely => (Spec => []WorkerFindsPort)
<1>1. SessionInv => WorkerFindsPort
  BY DEF SessionInv, BusyOwnsSession, Busy, Alive, WorkerFindsPort, StartAsserts,
         Handle, None
<1>. QED  BY <1>1, SessionInvariant, PTL
-----------------------------------------------------------------------------
(* No command is written twice, whatever the timing and the faults.  What   *)
(* makes it inductive: commands are queued in the order of their numbers,   *)
(* and all that were taken, written or not, are older than all in the queue. *)

QueueInOrder ==
  /\ \A i, j \in DOMAIN txq : i < j => txq[i].n < txq[j].n
  /\ \A i \in DOMAIN txq : txq[i].n <= sends

Older(n) == n <= sends /\ \A i \in DOMAIN txq : n < txq[i].n

TakenOnce ==
  /\ \A v \in Handle : pc[v] = "write" => Older(hand[v].n)
  /\ \A v, w \in Handle : pc[v] = "write" /\ pc[w] = "write" /\ hand[v].n = hand[w].n => v = w
  /\ \A h \in Handle : \A i \in DOMAIN wire[h] : Older(wire[h][i].n)
  /\ \A v, h \in Handle : pc[v] = "write" => \A i \in DOMAIN wire[h] : wire[h][i].n # hand[v].n

OnceInv == QueueInOrder /\ TakenOnce /\ WrittenOnce

LEMMA Numbers ==
  ASSUME TypeOK
  PROVE  /\ \A v \in Handle : pc[v] = "write" => hand[v].n \in Nat
         /\ \A h \in Handle : \A i \in DOMAIN wire[h] : wire[h][i].n \in Nat
<1>1. \A c \in Command : c.n \in Nat
  BY DEF Command
<1>2. \A h \in Handle : \A i \in DOMAIN wire[h] : wire[h][i] \in Command
  <2>1. \A q \in Seq(Command) : \A i \in DOMAIN q : q[i] \in Command
    OBVIOUS
  <2>. QED  BY <2>1 DEF TypeOK, WorkerTypes
<1>3. \A v \in Handle : pc[v] = "write" => hand[v] \in Command
  BY DEF TypeOK, WorkerTypes
<1>. QED  BY <1>1, <1>2, <1>3

\* New commands have new numbers, and stand behind the queue.
LEMMA SendOrder ==
  ASSUME NEW k \in 1 .. 2, ser \in Handle, txq \in Seq(Command), sends \in Nat, QueueInOrder
  PROVE  /\ \A i, j \in DOMAIN Send(k) : i < j => Send(k)[i].n < Send(k)[j].n
         /\ \A i \in DOMAIN Send(k) : Send(k)[i].n <= sends + k
         /\ \A n \in Nat : Older(n) => \A i \in DOMAIN Send(k) : n < Send(k)[i].n
<1> DEFINE s == [i \in 1 .. k |-> [n |-> sends + i, to |-> ser]]
<1>1. s \in Seq(Command) /\ Len(s) = k /\ \A i \in 1 .. k : s[i].n = sends + i
  BY DEF Command
<1>2. Send(k) = txq \o s
  BY DEF Send
<1>3. /\ DOMAIN Send(k) = 1 .. Len(txq) + k
      /\ \A i \in 1 .. Len(txq) : Send(k)[i] = txq[i]
      /\ \A i \in Len(txq) + 1 .. Len(txq) + k : Send(k)[i] = s[i - Len(txq)]
  BY <1>1, <1>2
<1>4. \A i \in 1 .. Len(txq) : Send(k)[i].n = txq[i].n /\ txq[i].n \in Nat /\ txq[i].n <= sends
  <2>1. \A i \in 1 .. Len(txq) : txq[i] \in Command
    OBVIOUS
  <2>2. \A c \in Command : c.n \in Nat
    BY DEF Command
  <2>3. \A i \in 1 .. Len(txq) : txq[i].n <= sends
    BY DEF QueueInOrder
  <2>. HIDE DEF s
  <2>. QED  BY <1>3, <2>1, <2>2, <2>3
<1>5. \A i \in Len(txq) + 1 .. Len(txq) + k : Send(k)[i].n = sends + (i - Len(txq))
  <2>1. \A i \in Len(txq) + 1 .. Len(txq) + k : i - Len(txq) \in 1 .. k
    OBVIOUS
  <2>2. \A j \in 1 .. k : s[j].n = sends + j
    BY <1>1
  <2>. HIDE DEF s
  <2>. QED  BY <1>3, <2>1, <2>2
<1>. HIDE DEF s
<1>6. ASSUME NEW i \in DOMAIN Send(k), NEW j \in DOMAIN Send(k), i < j
      PROVE  Send(k)[i].n < Send(k)[j].n
  <2>1. CASE j \in 1 .. Len(txq)
    BY <1>3, <1>4, <1>6, <2>1 DEF QueueInOrder
  <2>2. CASE i \in 1 .. Len(txq) /\ j \in Len(txq) + 1 .. Len(txq) + k
    BY <1>4, <1>5, <2>2
  <2>3. CASE i \in Len(txq) + 1 .. Len(txq) + k /\ j \in Len(txq) + 1 .. Len(txq) + k
    BY <1>5, <1>6, <2>3
  <2>. QED  BY <1>3, <1>6, <2>1, <2>2, <2>3
<1>7. ASSUME NEW i \in DOMAIN Send(k)
      PROVE  /\ Send(k)[i].n <= sends + k
             /\ \A n \in Nat : Older(n) => n < Send(k)[i].n
  <2>1. CASE i \in 1 .. Len(txq)
    BY <1>4, <2>1 DEF Older
  <2>2. CASE i \in Len(txq) + 1 .. Len(txq) + k
    BY <1>5, <2>2 DEF Older
  <2>. QED  BY <1>3, <2>1, <2>2
<1>. QED  BY <1>6, <1>7

\* The UI thread adds to the queue or empties it, and takes nothing.
LEMMA UiQueue ==
  ASSUME TypeOK, UiConnect \/ UiTick \/ UiDisconnect \/ UiSend \/ UiStep
  PROVE  /\ \/ txq' \in {txq, <<>>} /\ sends' = sends
            \/ \E k \in 1 .. 2 : ser \in Handle /\ txq' = Send(k) /\ sends' = sends + k
         /\ hand' = hand /\ wire' = wire
         /\ \A v \in Handle : pc'[v] = "write" => pc[v] = "write"
<1>1. CASE UiSend
  BY <1>1 DEF UiSend, connected, TypeOK, ManagerTypes
<1>2. CASE Greet
  BY <1>2 DEF Greet, connected, TypeOK, ManagerTypes
<1>3. CASE Spawn
  BY <1>3 DEF Spawn, TypeOK, ManagerTypes, WorkerTypes
<1>4. CASE ~UiSend /\ ~Greet /\ ~Spawn
  BY <1>4 DEF UiConnect, UiTick, UiDisconnect, UiStep, Signal, Join, Close, Report, Clear,
              Open, Announce
<1>. QED  BY <1>1, <1>2, <1>3, <1>4

LEMMA UiOnce ==
  ASSUME TypeOK, OnceInv, UiConnect \/ UiTick \/ UiDisconnect \/ UiSend \/ UiStep
  PROVE  OnceInv'
<1>1. QueueInOrder'
  <2>1. CASE txq' \in {txq, <<>>} /\ sends' = sends
    BY <2>1 DEF OnceInv, QueueInOrder
  <2>2. CASE \E k \in 1 .. 2 : ser \in Handle /\ txq' = Send(k) /\ sends' = sends + k
    BY <2>2, SendOrder DEF OnceInv, QueueInOrder, TypeOK, ManagerTypes
  <2>. QED  BY <2>1, <2>2, UiQueue
<1>2. ASSUME NEW n \in Nat, Older(n)
      PROVE  Older(n)'
  <2>1. CASE txq' \in {txq, <<>>} /\ sends' = sends
    BY <1>2, <2>1 DEF Older
  <2>2. CASE \E k \in 1 .. 2 : ser \in Handle /\ txq' = Send(k) /\ sends' = sends + k
    BY <1>2, <2>2, SendOrder DEF Older, OnceInv, TypeOK, ManagerTypes
  <2>. QED  BY <2>1, <2>2, UiQueue
<1>3. /\ \A v \in Handle : pc[v] = "write" => hand[v].n \in Nat
      /\ \A h \in Handle : \A i \in DOMAIN wire[h] : wire[h][i].n \in Nat
  BY Numbers
<1>4. TakenOnce'
  <2>1. ASSUME NEW v \in Handle, pc'[v] = "write"
        PROVE  Older(hand[v].n)'
    BY <1>2, <1>3, <2>1, UiQueue DEF OnceInv, TakenOnce, Older
  <2>2. ASSUME NEW h \in Handle, NEW i \in DOMAIN wire'[h]
        PROVE  Older(wire[h][i].n)'
    BY <1>2, <1>3, <2>2, UiQueue DEF OnceInv, TakenOnce, Older
  <2>3. \A v \in Handle : pc'[v] = "write" => pc[v] = "write" /\ hand'[v] = hand[v]
    BY UiQueue
  <2>4. wire' = wire
    BY UiQueue
  <2>5. /\ \A v, w \in Handle : pc'[v] = "write" /\ pc'[w] = "write" /\ hand'[v].n = hand'[w].n => v = w
        /\ \A v, h \in Handle : pc'[v] = "write" => \A i \in DOMAIN wire'[h] : wire'[h][i].n # hand'[v].n
    BY <2>3, <2>4 DEF OnceInv, TakenOnce
  <2>. QED  BY <2>1, <2>2, <2>5 DEF TakenOnce
<1>5. WrittenOnce'
  BY UiQueue DEF OnceInv, WrittenOnce
<1>. QED  BY <1>1, <1>4, <1>5 DEF OnceInv

\* The head of the queue is older than the rest, and younger than all that were taken.
LEMMA HeadOrder ==
  ASSUME txq \in Seq(Command), txq # <<>>, sends \in Nat, QueueInOrder
  PROVE  /\ \A i, j \in DOMAIN Tail(txq) : i < j => Tail(txq)[i].n < Tail(txq)[j].n
         /\ \A i \in DOMAIN Tail(txq) : Tail(txq)[i].n <= sends
         /\ Head(txq).n <= sends /\ \A i \in DOMAIN Tail(txq) : Head(txq).n < Tail(txq)[i].n
         /\ \A n \in Nat : Older(n) => n # Head(txq).n /\ \A i \in DOMAIN Tail(txq) : n < Tail(txq)[i].n
<1>1. /\ Head(txq) = txq[1] /\ 1 \in DOMAIN txq /\ DOMAIN txq \subseteq Nat
      /\ \A i \in DOMAIN Tail(txq) : i + 1 \in DOMAIN txq /\ i \in Nat /\ 1 < i + 1 /\ Tail(txq)[i] = txq[i + 1]
  OBVIOUS
<1>2. txq[1].n \in Nat
  <2>1. txq[1] \in Command
    BY <1>1
  <2>. QED  BY <2>1 DEF Command
<1>3. \A n \in Nat : Older(n) => n < txq[1].n
  BY <1>1 DEF Older
<1>4. \A i, j \in DOMAIN Tail(txq) : i < j => Tail(txq)[i].n < Tail(txq)[j].n
  <2>1. \A i, j \in DOMAIN Tail(txq) : i < j => i + 1 < j + 1
    BY <1>1
  <2>. QED  BY <1>1, <2>1 DEF QueueInOrder
<1>5. \A i \in DOMAIN Tail(txq) : Tail(txq)[i].n <= sends /\ txq[1].n < Tail(txq)[i].n
  BY <1>1 DEF QueueInOrder
<1>6. \A n \in Nat : Older(n) => \A i \in DOMAIN Tail(txq) : n < Tail(txq)[i].n
  BY <1>1 DEF Older
<1>7. txq[1].n <= sends
  BY <1>1 DEF QueueInOrder
<1>. QED  BY <1>1, <1>2, <1>3, <1>4, <1>5, <1>6, <1>7

LEMMA WorkerOnce ==
  ASSUME TypeOK, OnceInv, NEW w \in Handle, Worker(w)
  PROVE  OnceInv'
<1>1. CASE Take(w) /\ txq # <<>>
  <2>1. /\ txq' = Tail(txq) /\ sends' = sends /\ wire' = wire
        /\ hand'[w] = Head(txq) /\ pc'[w] = "write"
        /\ \A v \in Handle \ {w} : hand'[v] = hand[v] /\ pc'[v] = pc[v]
    BY <1>1 DEF Take, Goto, TypeOK, WorkerTypes
  <2>2. /\ \A i, j \in DOMAIN Tail(txq) : i < j => Tail(txq)[i].n < Tail(txq)[j].n
        /\ \A i \in DOMAIN Tail(txq) : Tail(txq)[i].n <= sends
        /\ Head(txq).n <= sends /\ \A i \in DOMAIN Tail(txq) : Head(txq).n < Tail(txq)[i].n
        /\ \A n \in Nat : Older(n) => n # Head(txq).n /\ \A i \in DOMAIN Tail(txq) : n < Tail(txq)[i].n
    BY <1>1, HeadOrder DEF TypeOK, ManagerTypes, OnceInv
  <2>3. QueueInOrder'
    BY <2>1, <2>2 DEF QueueInOrder
  <2>4. \A n \in Nat : Older(n) => n <= sends' /\ \A i \in DOMAIN txq' : n < txq'[i].n
    BY <2>1, <2>2 DEF Older
  <2>5. ASSUME NEW v \in Handle, pc'[v] = "write" PROVE Older(hand[v].n)'
    <3>1. CASE v = w
      BY <2>1, <2>2, <3>1 DEF Older
    <3>2. CASE v # w
      BY <2>1, <2>4, <2>5, <3>2, Numbers DEF Older, OnceInv, TakenOnce
    <3>. QED  BY <3>1, <3>2
  <2>6. ASSUME NEW h \in Handle, NEW i \in DOMAIN wire'[h] PROVE Older(wire[h][i].n)'
    BY <2>1, <2>4, <2>6, Numbers DEF Older, OnceInv, TakenOnce
  <2>7. ASSUME NEW v \in Handle, NEW u \in Handle, pc'[v] = "write", pc'[u] = "write", hand'[v].n = hand'[u].n
        PROVE  v = u
    <3>1. \A x \in Handle \ {w} : pc'[x] = "write" => hand'[x].n # Head(txq).n
      BY <2>1, <2>2, Numbers DEF OnceInv, TakenOnce
    <3>. QED  BY <2>1, <2>7, <3>1 DEF OnceInv, TakenOnce
  <2>8. ASSUME NEW v \in Handle, NEW h \in Handle, pc'[v] = "write", NEW i \in DOMAIN wire'[h]
        PROVE  wire'[h][i].n # hand'[v].n
    <3>1. wire[h][i].n # Head(txq).n
      BY <2>1, <2>2, <2>8, Numbers DEF OnceInv, TakenOnce
    <3>. QED  BY <2>1, <2>8, <3>1 DEF OnceInv, TakenOnce
  <2>9. WrittenOnce'
    BY <2>1 DEF OnceInv, WrittenOnce
  <2>10. TakenOnce'
    BY <2>5, <2>6, <2>7, <2>8 DEF TakenOnce
  <2>. QED  BY <2>3, <2>9, <2>10 DEF OnceInv
<1>2. CASE \E g \in Handle : Write(w) /\ wire' = [wire EXCEPT ![g] = Append(@, hand[w])]
  <2>1. PICK g \in Handle : Write(w) /\ wire' = [wire EXCEPT ![g] = Append(@, hand[w])]
    BY <1>2
  <2>2. /\ txq' = txq /\ sends' = sends /\ pc[w] = "write" /\ pc'[w] # "write"
        /\ \A v \in Handle \ {w} : hand'[v] = hand[v] /\ pc'[v] = pc[v]
    BY <2>1 DEF Write, Goto, TypeOK, WorkerTypes
  <2>3. wire'[g] = Append(wire[g], hand[w]) /\ \A h \in Handle \ {g} : wire'[h] = wire[h]
    BY <2>1 DEF TypeOK, WorkerTypes
  <2>4. /\ Len(wire[g]) \in Nat /\ DOMAIN wire[g] = 1 .. Len(wire[g])
        /\ DOMAIN wire'[g] = 1 .. Len(wire[g]) + 1
        /\ \A i \in 1 .. Len(wire[g]) : wire'[g][i] = wire[g][i]
        /\ wire'[g][Len(wire[g]) + 1] = hand[w]
    <3>1. wire[g] \in Seq(Command) /\ hand[w] \in Command
      BY <2>2 DEF TypeOK, WorkerTypes
    <3>. QED  BY <2>3, <3>1
  <2>5. \A h \in Handle : \A i \in DOMAIN wire'[h] :
          \/ i \in DOMAIN wire[h] /\ wire'[h][i] = wire[h][i]
          \/ h = g /\ i = Len(wire[g]) + 1 /\ wire'[h][i] = hand[w]
    BY <2>3, <2>4
  <2>6. QueueInOrder'
    BY <2>2 DEF OnceInv, QueueInOrder
  <2>7. ASSUME NEW v \in Handle, pc'[v] = "write"
        PROVE  v # w /\ pc[v] = "write" /\ hand'[v] = hand[v]
    BY <2>2, <2>7
  <2>8. ASSUME NEW v \in Handle, pc'[v] = "write" PROVE Older(hand[v].n)'
    BY <2>2, <2>7, <2>8 DEF Older, OnceInv, TakenOnce
  <2>9. ASSUME NEW h \in Handle, NEW i \in DOMAIN wire'[h] PROVE Older(wire[h][i].n)'
    BY <2>2, <2>5, <2>9 DEF Older, OnceInv, TakenOnce
  <2>10. ASSUME NEW v \in Handle, NEW h \in Handle, pc'[v] = "write", NEW i \in DOMAIN wire'[h]
         PROVE  wire'[h][i].n # hand'[v].n
    BY <2>2, <2>5, <2>7, <2>10 DEF OnceInv, TakenOnce
  <2>11. TakenOnce'
    BY <2>7, <2>8, <2>9, <2>10 DEF OnceInv, TakenOnce
  <2>12. WrittenOnce'
    <3>1. SUFFICES ASSUME NEW h \in Handle, NEW k \in Handle, NEW i \in DOMAIN wire'[h],
                          NEW j \in DOMAIN wire'[k], wire'[h][i].n = wire'[k][j].n
                   PROVE  h = k /\ i = j
      BY DEF WrittenOnce
    <3>2. CASE /\ i \in DOMAIN wire[h] /\ wire'[h][i] = wire[h][i]
               /\ j \in DOMAIN wire[k] /\ wire'[k][j] = wire[k][j]
      BY <3>1, <3>2 DEF OnceInv, WrittenOnce
    <3>3. \A x \in Handle : \A y \in DOMAIN wire[x] : wire[x][y].n # hand[w].n
      BY <2>2 DEF OnceInv, TakenOnce
    <3>. QED  BY <2>5, <3>1, <3>2, <3>3
  <2>. QED  BY <2>6, <2>11, <2>12 DEF OnceInv
<1>3. CASE /\ txq' = txq /\ sends' = sends /\ wire' = wire
           /\ \A v \in Handle : pc'[v] = "write" => pc[v] = "write" /\ hand'[v] = hand[v]
  BY <1>3 DEF OnceInv, QueueInOrder, TakenOnce, WrittenOnce, Older
<1>4. CASE Take(w) /\ txq = <<>>
  BY <1>3, <1>4 DEF Take, Goto, TypeOK, WorkerTypes
<1>5. CASE Write(w)
  <2>1. port[w] \in Handle \cup {None} /\ None \notin Handle /\ (port[w] \in opened => port[w] \in Handle)
    BY DEF TypeOK, ManagerTypes, WorkerTypes, Handle, None
  <2>2. \/ \E g \in Handle : wire' = [wire EXCEPT ![g] = Append(@, hand[w])]
        \/ /\ txq' = txq /\ sends' = sends /\ wire' = wire
           /\ \A v \in Handle : pc'[v] = "write" => pc[v] = "write" /\ hand'[v] = hand[v]
    BY <1>5, <2>1 DEF Write, Goto, TypeOK, WorkerTypes
  <2>. QED  BY <1>2, <1>3, <1>5, <2>2
<1>6. CASE ~Take(w) /\ ~Write(w)
  <2>1. /\ txq' = txq /\ sends' = sends /\ wire' = wire
        /\ \A v \in Handle : pc'[v] = "write" => pc[v] = "write" /\ hand'[v] = hand[v]
    BY <1>6 DEF Worker, Start, CheckStop, Read, TakeLock, Deliver, ReportError, Exit, ClearSerial,
                Goto, TypeOK, WorkerTypes
  <2>. QED  BY <1>3, <2>1
<1>. QED  BY <1>1, <1>4, <1>5, <1>6

\* Whatever the timing, the faults and the workers that share the queue, no command is written
\* to a port twice.
THEOREM NeverTwice == Spec => []WrittenOnce
<1>1. Init => OnceInv
  BY DEF Init, OnceInv, QueueInOrder, TakenOnce, WrittenOnce, Older
<1>2. TypeOK /\ OnceInv /\ [Next]_vars => OnceInv'
  <2> SUFFICES ASSUME TypeOK, OnceInv, [Next]_vars PROVE OnceInv'
    OBVIOUS
  <2>1. CASE UNCHANGED vars
    BY <2>1 DEF OnceInv, QueueInOrder, TakenOnce, WrittenOnce, Older
  <2>2. CASE Next
    BY <2>2, UiOnce, WorkerOnce DEF Next
  <2>. QED  BY <2>1, <2>2
<1>3. OnceInv => WrittenOnce
  BY DEF OnceInv
<1>. QED  BY <1>1, <1>2, <1>3, TypeCorrect, PTL DEF Spec

-----------------------------------------------------------------------------
(* What the mapping needs beyond SessionInv.                                 *)

\* self._serial is an open port or None; it is None between the sessions; a worker that
\* has not been started yet has done nothing.
LinkInv ==
  /\ ser # None => ser \in opened
  /\ ui \in {"report", "clear", "open"} => ser = None
  /\ \A w \in Handle : w > conns \/ (ui = "spawn" /\ w = conns) => pc[w] = "none"

LEMMA InitLinkInv == Init => LinkInv
BY DEF Init, LinkInv

LEMMA UiLinkInv ==
  ASSUME Timely, TypeOK, SessionInv, LinkInv,
         UiConnect \/ UiTick \/ UiDisconnect \/ UiSend \/ UiStep
  PROVE  LinkInv'
<1> USE DEF LinkInv, TypeOK, ManagerTypes, WorkerTypes, SessionInv
<1>1. CASE UiConnect
  BY <1>1 DEF UiConnect, BeginConnect, connected
<1>2. CASE UiTick
  BY <1>2 DEF UiTick, BeginConnect, connected
<1>3. CASE UiDisconnect
  BY <1>3 DEF UiDisconnect
<1>4. CASE UiSend
  BY <1>4 DEF UiSend
<1>5. CASE Signal
  BY <1>5 DEF Signal
<1>6. CASE Join
  BY <1>6 DEF Join
<1>7. CASE Close
  BY <1>7 DEF Close
<1>8. CASE Report
  BY <1>8 DEF Report
<1>9. CASE Clear
  BY <1>9 DEF Clear
<1>10. CASE Open
  BY <1>10 DEF Open, Handle, None
<1>11. CASE Spawn
  BY <1>11 DEF Spawn, Handle
<1>12. CASE Announce
  BY <1>12 DEF Announce
<1>13. CASE Greet
  BY <1>13 DEF Greet
<1>. QED
  BY <1>1, <1>2, <1>3, <1>4, <1>5, <1>6, <1>7, <1>8, <1>9, <1>10, <1>11, <1>12, <1>13 DEF UiStep

\* A worker's exit block closes the port it holds, and that is the current one.
LEMMA WorkerLinkInv ==
  ASSUME Timely, TypeOK, SessionInv, LinkInv, NEW w \in Handle, Worker(w)
  PROVE  LinkInv'
<1> USE DEF LinkInv, TypeOK, ManagerTypes, WorkerTypes, Goto
<1>1. pc[w] # "none" /\ UNCHANGED <<ui, conns>>
  BY DEF Worker, Start, CheckStop, Take, Write, Read, TakeLock, Deliver, ReportError, Exit, ClearSerial
<1>2. \A v \in Handle : v # w => pc'[v] = pc[v]
  BY DEF Worker, Start, CheckStop, Take, Write, Read, TakeLock, Deliver, ReportError, Exit, ClearSerial
<1>3. \/ ser' = ser /\ opened' = opened
      \/ ser' = None
  BY DEF Worker, Start, CheckStop, Take, Write, Read, TakeLock, Deliver, ReportError, Exit, ClearSerial, Timely
<1>. QED  BY <1>1, <1>2, <1>3

LEMMA LinkInvariant == Timely => (Spec => [](TypeOK /\ SessionInv /\ LinkInv))
<1>. SUFFICES ASSUME Timely PROVE Spec => [](TypeOK /\ SessionInv /\ LinkInv)
  OBVIOUS
<1>1. TypeOK /\ SessionInv /\ LinkInv /\ [Next]_vars => LinkInv'
  <2> SUFFICES ASSUME TypeOK, SessionInv, LinkInv, [Next]_vars PROVE LinkInv'
    OBVIOUS
  <2>1. CASE UNCHANGED vars
    BY <2>1 DEF LinkInv
  <2>2. CASE Next
    BY <2>2, UiLinkInv, WorkerLinkInv DEF Next
  <2>. QED  BY <2>1, <2>2
<1>. QED  BY <1>1, InitLinkInv, TypeCorrect, SessionInvariant, PTL DEF Spec

-----------------------------------------------------------------------------
(* The steps.                                                                *)

USE DEF Channel!vars

LEMMA InitChannel == Init => Channel!Init
BY DEF Init, Channel!Init, LiveSession, Pending, connected, None, Handle

\* What has been sent but not written stays in order when more is sent.
LEMMA SendSimulates ==
  ASSUME TypeOK, SessionInv, LinkInv, NEW k \in {1, 2}, connected,
         txq' = Send(k), sends' = sends + k,
         UNCHANGED <<ser, opened, pc, hand, wire, conns>>
  PROVE  Channel!Send
<1> DEFINE new == [i \in 1 .. k |-> [n |-> sends + i, to |-> ser]]
<1>1. ser \in Handle /\ txq \in Seq(Command) /\ sends \in Nat
  BY DEF TypeOK, ManagerTypes, connected
<1>2. new \in Seq(Command) /\ txq' = txq \o new
  BY <1>1 DEF Command, Send
<1>3. LiveSession' = LiveSession
  BY DEF LiveSession, connected
<1>4. Pending' = IF LiveSession = None THEN Pending ELSE Pending \o new
  <2>1. CASE LiveSession # None /\ pc[ser] = "write"
    <3>1. hand[ser] \in Command
      BY <1>1, <2>1 DEF TypeOK, WorkerTypes
    <3>2. (<<hand[ser]>> \o txq) \o new = <<hand[ser]>> \o (txq \o new)
      BY <1>1, <1>2, <3>1, ConcatAssociative
    <3>. QED  BY <1>2, <1>3, <2>1, <3>2 DEF Pending
  <2>2. CASE ~(LiveSession # None /\ pc[ser] = "write")
    BY <1>2, <1>3, <2>2 DEF Pending
  <2>. QED  BY <2>1, <2>2
<1>5. LiveSession # None => Channel!New(k, LiveSession) = new
  BY DEF Channel!New, LiveSession
<1>. QED  BY <1>3, <1>4, <1>5 DEF Channel!Send

\* The session, and what is pending in it, are as they were.
LEMMA Stutter ==
  ASSUME UNCHANGED <<ser, opened, txq, pc, hand, wire, conns, sends>>
  PROVE  UNCHANGED Channel!vars
BY DEF LiveSession, Pending, connected

\* The session ends: closed, or its worker dead.
LEMMA LoseSimulates ==
  ASSUME LiveSession' = None, UNCHANGED <<wire, conns, sends>>
  PROVE  [Channel!Next]_(Channel!vars)
<1>1. Pending' = <<>>
  BY DEF Pending
<1>2. LiveSession = None => Pending = <<>>
  BY DEF Pending
<1>. QED  BY <1>1, <1>2 DEF Channel!Next, Channel!Lose

LEMMA UiSimulates ==
  ASSUME Timely, TypeOK, SessionInv, LinkInv,
         UiConnect \/ UiTick \/ UiDisconnect \/ UiSend \/ UiStep
  PROVE  [Channel!Next]_(Channel!vars)
<1>1. CASE UiConnect \/ UiTick \/ UiDisconnect \/ Signal \/ Join \/ Report \/ Announce
  BY <1>1, Stutter DEF UiConnect, UiTick, UiDisconnect, Signal, Join, Report, Announce
<1>2. CASE UiSend
  BY <1>2, SendSimulates DEF UiSend, Channel!Next
<1>3. CASE Close
  <2>1. LiveSession' = None
    BY <1>3 DEF Close, LiveSession
  <2>. QED  BY <1>3, <2>1, LoseSimulates DEF Close
<1>4. CASE Clear
  <2>1. LiveSession' = None
    BY <1>4 DEF Clear, LiveSession, LinkInv
  <2>. QED  BY <1>4, <2>1, LoseSimulates DEF Clear
<1>5. CASE Open
  <2>1. LiveSession = None /\ Pending = <<>>
    BY <1>5 DEF Open, LiveSession, Pending, LinkInv
  <2>2. CASE ui' = "idle"
    BY <1>5, <2>2, Stutter DEF Open
  <2>3. CASE ui' = "spawn"
    <3>1. conns \in Nat /\ conns + 1 \in Handle /\ ser' = conns + 1 /\ ser' \in opened' /\ conns' = conns + 1
      BY <1>5, <2>3, BoundsAssumption DEF Open, TypeOK, ManagerTypes, Connecting, Handle
    <3>2. pc[conns + 1] = "none" /\ pc' = pc
      BY <1>5, <3>1 DEF Open, LinkInv
    <3>3. LiveSession' = conns + 1 /\ Pending' = txq
      BY <1>5, <3>1, <3>2 DEF Open, LiveSession, Pending, connected, Handle, None
    <3>4. txq = <<>>
      BY <1>5 DEF Open, SessionInv
    <3>. QED
      BY <1>5, <2>1, <3>1, <3>3, <3>4 DEF Open, Channel!Next, Channel!OpenSession
  <2>. QED  BY <1>5, <2>2, <2>3 DEF Open
<1>6. CASE Spawn
  <2>1. ser = conns /\ conns \in Handle /\ pc[conns] = "none"
    BY <1>6 DEF Spawn, SessionInv, LinkInv, TypeOK, ManagerTypes, Handle
  <2>2. ser' = ser /\ opened' = opened /\ txq' = txq /\ pc'[ser] = "start"
    BY <1>6, <2>1 DEF Spawn, TypeOK, WorkerTypes
  <2>3. LiveSession' = LiveSession /\ Pending' = Pending
    BY <2>1, <2>2 DEF LiveSession, Pending, connected
  <2>. QED  BY <1>6, <2>3 DEF Spawn
<1>7. CASE Greet
  <2>1. CASE connected /\ txq' = Send(2) /\ sends' = sends + 2
    BY <1>7, <2>1, SendSimulates DEF Greet, Channel!Next
  <2>2. CASE UNCHANGED <<txq, sends>>
    BY <1>7, <2>2, Stutter DEF Greet
  <2>. QED  BY <1>7, <2>1, <2>2 DEF Greet
<1>. QED
  BY <1>1, <1>2, <1>3, <1>4, <1>5, <1>6, <1>7 DEF UiStep

LEMMA WorkerSimulates ==
  ASSUME Timely, TypeOK, SessionInv, LinkInv, NEW w \in Handle, Worker(w)
  PROVE  [Channel!Next]_(Channel!vars)
<1> USE DEF Goto
\* Only the worker of the current session moves.
<1>1. Busy(w) /\ ser = w /\ w \in opened /\ pc \in [Handle -> WorkerLabel] /\ w # None
      /\ (pc[w] # "start" => port[w] = w)
  <2>1. Busy(w)
    BY DEF Busy, Alive, Worker, Start, CheckStop, Take, Write, Read, TakeLock, Deliver, ReportError, Exit,
           ClearSerial, SessionInv
  <2>. QED  BY <2>1 DEF SessionInv, BusyOwnsSession, TypeOK, WorkerTypes, Handle, None
<1>2. LiveSession = w
  BY <1>1 DEF LiveSession, connected, Busy, Alive
<1>3. CASE Start(w) \/ CheckStop(w) \/ Read(w) \/ TakeLock(w) \/ Deliver(w) \/ ReportError(w)
  <2>1. ser' = ser /\ opened' = opened /\ txq' = txq
        /\ pc'[w] # "dead" /\ pc'[w] # "write" /\ pc[w] # "write"
        /\ UNCHANGED <<wire, conns, sends>>
    BY <1>1, <1>3 DEF Start, CheckStop, Read, TakeLock, Deliver, ReportError
  <2>2. LiveSession' = w /\ Pending' = Pending
    BY <1>1, <1>2, <2>1 DEF LiveSession, Pending, connected
  <2>. QED  BY <1>2, <2>1, <2>2
<1>4. CASE Take(w)
  <2>1. ser' = ser /\ opened' = opened /\ pc[w] = "drain" /\ pc'[w] # "dead"
        /\ UNCHANGED <<wire, conns, sends>>
    BY <1>1, <1>4 DEF Take
  <2>2. LiveSession' = w
    BY <1>1, <2>1 DEF LiveSession, connected
  <2>3. Pending = txq
    BY <1>1, <1>2, <2>1 DEF Pending
  <2>4. CASE txq # <<>>
    <3>1. pc'[w] = "write" /\ hand'[w] = Head(txq) /\ txq' = Tail(txq)
      BY <1>1, <1>4, <2>4 DEF Take, TypeOK, WorkerTypes
    <3>2. Pending' = <<Head(txq)>> \o Tail(txq)
      BY <1>1, <2>1, <2>2, <3>1 DEF Pending
    <3>3. txq \in Seq(Command)
      BY DEF TypeOK, ManagerTypes
    <3>4. <<Head(txq)>> \o Tail(txq) = txq
      BY <2>4, <3>3
    <3>. QED  BY <1>2, <2>1, <2>2, <2>3, <3>2, <3>4
  <2>5. CASE txq = <<>>
    <3>1. pc'[w] = "read" /\ txq' = txq
      BY <1>1, <1>4, <2>5 DEF Take
    <3>2. Pending' = Pending
      BY <1>1, <2>1, <2>2, <2>3, <3>1 DEF Pending
    <3>. QED  BY <1>2, <2>1, <2>2, <3>2
  <2>. QED  BY <2>4, <2>5
<1>5. CASE Write(w)
  <2>1. ser' = ser /\ opened' = opened /\ txq' = txq /\ pc[w] = "write" /\ port[w] = w
        /\ UNCHANGED <<conns, sends>>
    BY <1>1, <1>5 DEF Write
  <2>2. CASE pc'[w] = "dead"
    <3>1. LiveSession' = None /\ wire' = wire
      BY <1>1, <1>5, <2>1, <2>2 DEF Write, LiveSession
    <3>. QED  BY <2>1, <3>1, LoseSimulates
  <2>3. CASE pc'[w] = "drain"
    <3>1. wire' = [wire EXCEPT ![w] = Append(@, hand[w])]
      BY <1>1, <1>5, <2>1, <2>3 DEF Write
    <3>2. LiveSession' = w /\ Pending' = txq /\ Pending = <<hand[w]>> \o txq
      BY <1>1, <1>2, <2>1, <2>3 DEF LiveSession, Pending, connected
    <3>3. hand[w] \in Command /\ txq \in Seq(Command)
      BY <2>1 DEF TypeOK, ManagerTypes, WorkerTypes
    <3>4. Pending # <<>> /\ Head(Pending) = hand[w] /\ Tail(Pending) = txq
      BY <3>2, <3>3
    <3>. QED  BY <1>1, <1>2, <2>1, <3>1, <3>2, <3>4 DEF Channel!Next, Channel!Deliver
  <2>. QED  BY <1>1, <1>5, <2>2, <2>3 DEF Write
<1>6. CASE Exit(w)
  <2>1. ser' = None /\ UNCHANGED <<wire, conns, sends>>
    BY <1>6 DEF Exit, Timely
  <2>2. LiveSession' = None
    BY <2>1 DEF LiveSession
  <2>. QED  BY <2>1, <2>2, LoseSimulates
<1>7. ~ClearSerial(w)
  BY DEF ClearSerial, SessionInv
<1>. QED
  BY <1>3, <1>4, <1>5, <1>6, <1>7 DEF Worker

\* When callbacks end within the join's second and the exit block is not interrupted, the
\* manager's threads, queue and handles are a channel: commands arrive in order, once and
\* without a gap, in the session they were sent in or not at all.
THEOREM SerialImplementsChannel == Timely => (Spec => ImplementsChannel)
<1>. SUFFICES ASSUME Timely PROVE Spec => ImplementsChannel
  OBVIOUS
<1>1. TypeOK /\ SessionInv /\ LinkInv /\ [Next]_vars => [Channel!Next]_(Channel!vars)
  <2> SUFFICES ASSUME TypeOK, SessionInv, LinkInv, [Next]_vars PROVE [Channel!Next]_(Channel!vars)
    OBVIOUS
  <2>1. CASE UNCHANGED vars
    BY <2>1, Stutter
  <2>2. CASE Next
    BY <2>2, UiSimulates, WorkerSimulates DEF Next
  <2>. QED  BY <2>1, <2>2
<1>. QED
  BY <1>1, InitChannel, LinkInvariant, PTL DEF Spec, ImplementsChannel, Channel!Spec
=============================================================================

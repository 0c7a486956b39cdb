------------------------------ MODULE EventBook ------------------------------
(***************************************************************************)
(* The event log in memory and in its file: support/event_log_store.py     *)
(* and the part of RuntimeService that fills, relabels and saves it.       *)
(*                                                                         *)
(* The worker appends the events of a snapshot, under the service's lock.  *)
(* The page relabels them when the mains network is changed, without it.   *)
(* Both write the file in place.  An event is a number and the network its *)
(* label was made for; the two passes of the relabelling are one walk.     *)
(***************************************************************************)
EXTENDS Integers, Sequences

CONSTANTS
  MaxItems,    \* max_items, and the length of the deque
  FlushEvery,  \* flush_every_n
  MaxEvents,   \* bound: events ever raised
  MaxBurst,    \* bound: events of one snapshot
  Torn         \* a file that is cut off, or a mixture

Network == {"TN", "IT"}
Event   == [id : 1 .. MaxEvents, net : Network]

ASSUME BookAssumption ==
  /\ MaxItems \in Nat \ {0} /\ FlushEvery \in 1 .. MaxItems /\ MaxEvents \in Nat /\ MaxBurst \in Nat
  /\ Torn \notin Seq(Event)

Thread  == {"worker", "page"}
Other(t) == IF t = "worker" THEN "page" ELSE "worker"

VARIABLES
  up,       \* the dashboard runs
  log,      \* event_log, the newest first
  file,     \* event_log.json
  dirty,    \* EventLogStore._dirty
  late,     \* flush_interval_s have passed since _last_flush
  net,      \* state.mains_network_type; the engine labels its events for it
  settings, \* the network in settings.json
  pc,       \* where each thread is
  rows,     \* the copy of the log each thread writes
  beaten,   \* per thread: the other has written the file since this one cut it
  burst,    \* worker: the events of the snapshot not appended yet, the first of them next
  pos,      \* page: the place of the walk
  made,     \* events raised so far
  mixed     \* history: "yes" since the threads were both at work, "clearing" while the first
            \* save since then that began alone is running, else "no"

book   == <<log, file, dirty, late>>
labels == <<net, settings>>
vars   == <<up, book, labels, pc, rows, beaten, burst, pos, made, mixed>>

Nobody == [t \in Thread |-> "idle"]
Fresh  == /\ dirty' = 0 /\ late' = TRUE /\ pc' = Nobody /\ rows' = [t \in Thread |-> <<>>]
          /\ beaten' = [t \in Thread |-> FALSE] /\ burst' = <<>> /\ pos' = 0 /\ mixed' = "no"

Init ==
  /\ up = FALSE /\ log = <<>> /\ file = <<>> /\ dirty = 0 /\ late = TRUE
  /\ net = "TN" /\ settings = "TN"
  /\ pc = Nobody /\ rows = [t \in Thread |-> <<>>] /\ beaten = [t \in Thread |-> FALSE]
  /\ burst = <<>> /\ pos = 0 /\ made = 0 /\ mixed = "no"

At(t, at) == up /\ pc[t] = at
Goto(t, at) == pc' = [pc EXCEPT ![t] = at]

\* A thread begins its work.
Begin(t, at) ==
  /\ At(t, "idle") /\ Goto(t, at)
  /\ mixed' = IF pc[Other(t)] = "idle" THEN mixed ELSE "yes"

-----------------------------------------------------------------------------
(* The worker: apply_parsed for a snapshot.                                  *)

\* The engine returns the events of the snapshot.
ProcessSample ==
  /\ \E n \in 0 .. MaxBurst :
       /\ made + n <= MaxEvents /\ made' = made + n
       /\ burst' = [i \in 1 .. n |-> [id |-> made + i, net |-> net]]
  /\ Begin("worker", "append")
  /\ UNCHANGED <<up, book, labels, rows, beaten, pos>>

Shorter(m, n) == IF m < n THEN m ELSE n

\* appendleft to a full deque drops the oldest.
AppendLeft(e) == <<e>> \o SubSeq(log, 1, Shorter(Len(log), MaxItems - 1))

\* A walk over the log finds that it was changed, and raises.
Append1 ==
  /\ At("worker", "append") /\ burst # <<>>
  /\ log' = AppendLeft(Head(burst))
  /\ pc' = [pc EXCEPT !["worker"] = "mark", !["page"] = IF @ = "walk" THEN "raise" ELSE @]
  /\ UNCHANGED <<up, file, dirty, late, labels, rows, beaten, burst, pos, made, mixed>>

\* (mutated: only the first event of a snapshot is counted)
MarkOnce == IF Len(burst) > 1 THEN dirty ELSE dirty + 1

mark_dirty == dirty + 1

Mark ==
  /\ At("worker", "mark")
  /\ dirty' = mark_dirty /\ burst' = Tail(burst)
  /\ Goto("worker", "append")
  /\ UNCHANGED <<up, log, file, late, labels, rows, beaten, pos, made, mixed>>

EndSample ==
  /\ At("worker", "append") /\ burst = <<>>
  /\ Goto("worker", "save")
  /\ UNCHANGED <<up, book, labels, rows, beaten, burst, pos, made, mixed>>

\* The threads copy the log before they write it.
Copy(t, at) ==
  /\ rows' = [rows EXCEPT ![t] = log]
  /\ Goto(t, at)
  /\ mixed' = IF mixed = "yes" /\ pc[Other(t)] = "idle" THEN "clearing" ELSE mixed

\* save_event_log(False): flush_if_needed.
FlushIfNeeded ==
  /\ At("worker", "save")
  /\ \/ /\ dirty > 0 /\ (dirty >= FlushEvery \/ late)
        /\ Copy("worker", "cut")
     \/ /\ dirty = 0 \/ (dirty < FlushEvery /\ ~late)
        /\ Goto("worker", "idle") /\ UNCHANGED <<rows, mixed>>
  /\ UNCHANGED <<up, book, labels, beaten, burst, pos, made>>

\* flush: write_text cuts the file, writes it, and then the count starts again.
Cut(t) ==
  /\ At(t, "cut")
  /\ file' = Torn
  /\ beaten' = [beaten EXCEPT ![t] = FALSE]
  /\ Goto(t, "put")
  /\ UNCHANGED <<up, log, dirty, late, labels, rows, burst, pos, made, mixed>>

\* Over what the other has written in the meantime: its tail can stay.
Put(t) ==
  /\ At(t, "put")
  /\ file' \in IF beaten[t] THEN {rows[t], Torn} ELSE {rows[t]}
  /\ beaten' = [beaten EXCEPT ![Other(t)] = TRUE]
  /\ Goto(t, "reset")
  /\ UNCHANGED <<up, log, dirty, late, labels, rows, burst, pos, made, mixed>>

Reset(t) ==
  /\ At(t, "reset")
  /\ dirty' = 0 /\ late' = FALSE
  /\ rows' = [rows EXCEPT ![t] = <<>>]
  /\ Goto(t, "idle")
  /\ mixed' = IF mixed = "clearing" THEN "no" ELSE mixed
  /\ UNCHANGED <<up, log, file, labels, beaten, burst, pos, made>>

\* Five seconds pass.
Wait ==
  /\ up /\ ~late /\ late' = TRUE
  /\ UNCHANGED <<up, log, file, dirty, labels, pc, rows, beaten, burst, pos, made, mixed>>

-----------------------------------------------------------------------------
(* The page: set_mains_network_type.                                         *)

Switch ==
  /\ net' \in Network \ {net}
  /\ Begin("page", "walk") /\ pos' = 1
  /\ UNCHANGED <<up, book, settings, rows, beaten, burst, made>>

\* _reclassify_event_log_for_mains
Relabel ==
  /\ At("page", "walk") /\ pos <= Len(log)
  /\ log' = [log EXCEPT ![pos].net = net] /\ pos' = pos + 1
  /\ UNCHANGED <<up, file, dirty, late, labels, pc, rows, beaten, burst, made, mixed>>

\* RuntimeError: the handler ends, with the network changed and nothing saved.
Raise ==
  /\ At("page", "raise")
  /\ Goto("page", "idle") /\ pos' = 0
  /\ UNCHANGED <<up, book, labels, rows, beaten, burst, made, mixed>>

SaveSettings ==
  /\ At("page", "walk") /\ pos > Len(log)
  /\ settings' = net /\ pos' = 0
  /\ Goto("page", "save")
  /\ UNCHANGED <<up, book, net, rows, beaten, burst, made, mixed>>

\* save_event_log(force=True)
ForceFlush ==
  /\ At("page", "save")
  /\ Copy("page", "cut")
  /\ UNCHANGED <<up, book, labels, beaten, burst, pos, made>>

-----------------------------------------------------------------------------

\* The dashboard is killed; what is not in the file is gone.
Crash ==
  /\ up /\ up' = FALSE
  /\ log' = <<>> /\ Fresh
  /\ UNCHANGED <<file, labels, made>>

\* EventLogStore.load: a file that cannot be read counts as none.
load == IF file = Torn THEN <<>> ELSE file

Start ==
  /\ ~up /\ up' = TRUE
  /\ log' = load /\ net' = settings /\ Fresh
  /\ UNCHANGED <<file, settings, made>>

Next ==
  \/ ProcessSample \/ Append1 \/ Mark \/ EndSample \/ FlushIfNeeded
  \/ Switch \/ Relabel \/ Raise \/ SaveSettings \/ ForceFlush
  \/ (\E t \in Thread : Cut(t) \/ Put(t) \/ Reset(t))
  \/ Wait \/ Crash \/ Start

Spec == Init /\ [][Next]_vars

-----------------------------------------------------------------------------

TypeOK ==
  /\ up \in BOOLEAN /\ log \in Seq(Event) /\ file \in Seq(Event) \cup {Torn}
  /\ dirty \in Nat /\ late \in BOOLEAN /\ net \in Network /\ settings \in Network
  /\ pc \in [Thread -> {"idle", "append", "mark", "save", "walk", "raise", "cut", "put", "reset"}]
  /\ rows \in [Thread -> Seq(Event)] /\ beaten \in [Thread -> BOOLEAN]
  /\ burst \in Seq(Event) /\ pos \in Nat /\ made \in 0 .. MaxEvents /\ mixed \in {"no", "yes", "clearing"}

\* A crash between two saves loses fewer than FlushEvery events: those counted by dirty and
\* no others; everything else the log shows is in the file, with its label and in its
\* order (event_log_store.py:34-47).  It starts to hold again, after the two threads have
\* been at work at once, with the next save that is undisturbed: a copy taken too early or
\* a count reset too late is made good by a save that writes everything.
BookIsKept ==
  up /\ pc = Nobody /\ mixed = "no" =>
    /\ dirty < FlushEvery /\ dirty <= Len(log)
    /\ LET kept == SubSeq(log, dirty + 1, Len(log)) IN
         /\ Len(kept) <= Len(load) /\ kept = SubSeq(load, 1, Len(kept))
         /\ Len(load) > Len(kept) => Len(log) = MaxItems
=============================================================================

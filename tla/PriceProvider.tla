--------------------------- MODULE PriceProvider ---------------------------
(***************************************************************************)
(* The spot prices: PriceProvider of domain/pricing.py.                    *)
(*                                                                         *)
(* A quote never waits.  When the day is not cached, a background thread   *)
(* is started to fetch it and the caller gets the fallback price.  The     *)
(* cache and the set of days being fetched are shared by the callers and   *)
(* the fetch threads; each looks at them under _cache_lock, and lets go of *)
(* the lock between two looks.                                             *)
(*                                                                         *)
(* A day of an area is a Key.  Its entries are the hours that have a       *)
(* usable price; none when the fetch failed or the payload was no list.    *)
(***************************************************************************)
EXTENDS Integers, Sequences

CONSTANTS
  Key,        \* the pairs <<area, day>>
  Hour,       \* the hours of a day
  Caller,     \* the threads that ask for quotes
  MaxFetches, \* bound: fetch threads ever started
  MaxOutages  \* bound: times the price service goes down

ASSUME PriceAssumption ==
  Key # {} /\ Hour # {} /\ MaxFetches \in Nat /\ MaxOutages \in Nat

Missing == [cached |-> FALSE, entries |-> {}]
Day     == [cached : {TRUE}, entries : SUBSET Hour] \cup {Missing}

VARIABLES
  _cache, _inflight,
  callers,   \* what each is doing: [pc, key]
  fetches,   \* the fetch threads: [pc, key, data]
  answer,    \* the last quote of each caller: [key, hour, kind]
  serving,   \* is the price service up?
  sent,      \* history: the hours of each day the service has sent
  outages    \* counter for the bound

priceVars == <<_cache, _inflight, callers, fetches, answer, serving, sent, outages>>

IdleCaller == [pc |-> "idle", key |-> CHOOSE k \in Key : TRUE]
NoAnswer == [key |-> CHOOSE k \in Key : TRUE, hour |-> CHOOSE h \in Hour : TRUE, kind |-> "none"]

InitPrices ==
  /\ _cache = [k \in Key |-> Missing] /\ _inflight = {}
  /\ callers = [c \in Caller |-> IdleCaller]
  /\ fetches = <<>>
  /\ answer = [c \in Caller |-> NoAnswer]
  /\ serving = TRUE /\ sent = [k \in Key |-> {}]
  /\ outages = 0

-----------------------------------------------------------------------------
(* quote_for_hour.                                                           *)

\* (mutated: the first row answers for every hour)
PricedByAnyRow(k, h) == _cache[k].entries # {}

Priced(k, h) == h \in _cache[k].entries

\* The day is cached: the hour's price, or the fallback if it has none.  A day that is
\* not cached gets the fallback at once, and has to be fetched.
Quote(c, k, h) ==
  /\ callers[c].pc = "idle"
  /\ \/ /\ _cache[k].cached
        /\ answer' = [answer EXCEPT ![c] = [key |-> k, hour |-> h,
                        kind |-> IF Priced(k, h) THEN "live" ELSE "unavailable"]]
        /\ UNCHANGED callers
     \/ /\ ~_cache[k].cached
        /\ answer' = [answer EXCEPT ![c] = [key |-> k, hour |-> h, kind |-> "loading"]]
        /\ callers' = [callers EXCEPT ![c] = [pc |-> "start", key |-> k]]
  /\ UNCHANGED <<_cache, _inflight, fetches, serving, sent, outages>>

\* (mutated: only the cache is looked at)
WantedIfMissing(k) == ~_cache[k].cached

Wanted(k) == ~_cache[k].cached /\ k \notin _inflight

\* _start_background_fetch under the lock: the day is claimed, unless it has been
\* fetched meanwhile or somebody else is fetching it.
StartFetch(c) ==
  /\ callers[c].pc = "start"
  /\ LET k == callers[c].key IN
     \/ /\ ~Wanted(k)
        /\ callers' = [callers EXCEPT ![c].pc = "idle"]
        /\ UNCHANGED _inflight
     \/ /\ Wanted(k)
        /\ _inflight' = _inflight \cup {k}
        /\ callers' = [callers EXCEPT ![c].pc = "spawn"]
  /\ UNCHANGED <<_cache, fetches, answer, serving, sent, outages>>

\* ... and after the lock: the thread is started and the quote returns.
Spawn(c) ==
  /\ callers[c].pc = "spawn" /\ Len(fetches) < MaxFetches
  /\ fetches' = Append(fetches, [pc |-> "check", key |-> callers[c].key, data |-> {}])
  /\ callers' = [callers EXCEPT ![c].pc = "idle"]
  /\ UNCHANGED <<_cache, _inflight, answer, serving, sent, outages>>

-----------------------------------------------------------------------------
(* _fetch_day, in its thread.                                                *)

\* A thread that finds the day cached returns, its claim still standing.
Check(i) ==
  /\ fetches[i].pc = "check"
  /\ fetches' = [fetches EXCEPT ![i].pc = IF _cache[fetches[i].key].cached THEN "done" ELSE "request"]
  /\ UNCHANGED <<_cache, _inflight, callers, answer, serving, sent, outages>>

\* The request: the service sends the day or a part of it, or it is down and the
\* request ends in an exception or a timeout, which is caught.
Request(i) ==
  /\ fetches[i].pc = "request"
  /\ \/ /\ serving
        /\ \E data \in SUBSET Hour \ {{}} :
             /\ fetches' = [fetches EXCEPT ![i].pc = "store", ![i].data = data]
             /\ sent' = [sent EXCEPT ![fetches[i].key] = @ \cup data]
     \/ /\ ~serving
        /\ fetches' = [fetches EXCEPT ![i].pc = "store"]
        /\ UNCHANGED sent
  /\ UNCHANGED <<_cache, _inflight, callers, answer, serving, outages>>

\* (mutated: the claim is never given back)
KeepClaim(k) == _inflight

GiveBack(k) == _inflight \ {k}

\* Whatever came of it is cached, and the claim given back, under the lock.
Store(i) ==
  /\ fetches[i].pc = "store"
  /\ _cache' = [_cache EXCEPT ![fetches[i].key] = [cached |-> TRUE, entries |-> fetches[i].data]]
  /\ _inflight' = GiveBack(fetches[i].key)
  /\ fetches' = [fetches EXCEPT ![i].pc = "done"]
  /\ UNCHANGED <<callers, answer, serving, sent, outages>>

-----------------------------------------------------------------------------

GoDown == serving /\ outages < MaxOutages /\ serving' = FALSE /\ outages' = outages + 1
            /\ UNCHANGED <<_cache, _inflight, callers, fetches, answer, sent>>
ComeUp == ~serving /\ serving' = TRUE
            /\ UNCHANGED <<_cache, _inflight, callers, fetches, answer, sent, outages>>

CallerStep(c) == StartFetch(c) \/ Spawn(c)
FetchStep(i)  == Check(i) \/ Request(i) \/ Store(i)

NextPrices ==
  \/ \E c \in Caller : CallerStep(c) \/ \E k \in Key, h \in Hour : Quote(c, k, h)
  \/ \E i \in DOMAIN fetches : FetchStep(i)
  \/ GoDown \/ ComeUp

\* A quote that has begun returns, and a thread runs to its end: the request has a
\* timeout.
PricesFairness ==
  /\ \A c \in Caller : WF_priceVars(CallerStep(c))
  /\ \A i \in 1 .. MaxFetches : WF_priceVars(i \in DOMAIN fetches /\ FetchStep(i))

PricesSpec     == InitPrices /\ [][NextPrices]_priceVars
FairPricesSpec == PricesSpec /\ PricesFairness

-----------------------------------------------------------------------------
(* Properties.                                                             *)

Working(i) == fetches[i].pc # "done"

\* The types; a claim is what a caller about to start a thread, or a thread at work,
\* holds.
PricesTypeOK ==
  /\ _cache \in [Key -> Day] /\ _inflight \subseteq Key
  /\ callers \in [Caller -> [pc : {"idle", "start", "spawn"}, key : Key]]
  /\ fetches \in Seq([pc : {"check", "request", "store", "done"}, key : Key, data : SUBSET Hour])
  /\ answer \in [Caller -> [key : Key, hour : Hour, kind : {"none", "live", "unavailable", "loading"}]]
  /\ serving \in BOOLEAN /\ sent \in [Key -> SUBSET Hour]
  /\ outages \in Nat
  /\ \A k \in _inflight : \/ \E c \in Caller : callers[c] = [pc |-> "spawn", key |-> k]
                          \/ \E i \in DOMAIN fetches : Working(i) /\ fetches[i].key = k

\* However many quotes ask for a day at once, and whenever the fetches end: a day is
\* fetched by one thread at a time, and no longer once it is cached.
OneFetchPerDay ==
  /\ \A i, j \in DOMAIN fetches :
       Working(i) /\ Working(j) /\ fetches[i].key = fetches[j].key => i = j
  /\ \A i \in DOMAIN fetches : Working(i) => fetches[i].key \in _inflight
  /\ \A k \in _inflight : ~_cache[k].cached

\* Only prices the service has sent for that day are quoted as its prices.
QuotesAreGenuine ==
  \A c \in Caller : answer[c].kind = "live" => answer[c].hour \in sent[answer[c].key]

\* What a day costs does not change any more once it is cached: no late fetch
\* overwrites it, so a cost that was shown once stays.
CachedStays == [][\A k \in Key : _cache[k].cached => _cache'[k] = _cache[k]]_priceVars

\* A day whose fetch has been claimed is cached in the end, whatever the service does.
LoadingEnds == \A k \in Key : k \in _inflight ~> _cache[k].cached /\ k \notin _inflight
=============================================================================

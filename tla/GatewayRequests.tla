--------------------------- MODULE GatewayRequests ---------------------------
(***************************************************************************)
(* How the storage gateway admits requests: the bound on the requests in   *)
(* flight, whose slot is given back by two events of the response, the     *)
(* fixed-window rate limiter of one process or of all, and the handlers.   *)
(*                                                                         *)
(* Time is a counter of limiter units up to MaxTime.  What a handler does  *)
(* is left out, except that it uses the database until it ends.            *)
(***************************************************************************)
EXTENDS Naturals, FiniteSets, FiniteSetsExt

CONSTANTS
  Requests,          \* requests, each made once
  Addresses,         \* the addresses they come from
  InFlightLimit, RateLimit, Window, MaxEntries,
  MaxTime            \* bound on the clock

ASSUME GatewayAssumption ==
  {InFlightLimit, RateLimit, Window, MaxEntries, MaxTime} \subseteq Nat \ {0}

VARIABLES
  now,
  inFlight,    \* BoundedInFlightLimiter.inFlight
  entries,     \* the limiter's entry of each address; resetAt 0: none
  request,     \* where each request is
  allowed,     \* ghost: requests of each address allowed in its window, and its end
  evicted      \* ghost: addresses whose entry had to make room for others

gateway == <<now, inFlight, entries, request, allowed, evicted>>

\* slot: the request holds a slot; closing: its events that are still to come;
\* running: its handler uses the database.
RequestSteps == {"new", "admitted", "handled", "closed"}
NewRequest == [at |-> "new", from |-> CHOOSE a \in Addresses : TRUE, slot |-> FALSE,
               closing |-> {}, running |-> FALSE]
NoEntry == [count |-> 0, resetAt |-> 0]

GatewayOK ==
  /\ now \in 0 .. MaxTime /\ inFlight \in Nat /\ evicted \subseteq Addresses
  /\ entries \in [Addresses -> [count : Nat, resetAt : Nat]]
  /\ allowed \in [Addresses -> [count : Nat, resetAt : Nat]]
  /\ request \in [Requests -> [at : RequestSteps, from : Addresses, slot : BOOLEAN,
                               closing : SUBSET {"finish", "close"}, running : BOOLEAN]]

GatewayInit ==
  /\ now = 1 /\ inFlight = 0 /\ evicted = {}
  /\ entries = [a \in Addresses |-> NoEntry] /\ allowed = [a \in Addresses |-> NoEntry]
  /\ request = [r \in Requests |-> NewRequest]

Limiter == <<entries, allowed, evicted>>
Tick ==
  /\ now < MaxTime /\ now' = now + 1
  /\ UNCHANGED <<inFlight, Limiter, request>>

-----------------------------------------------------------------------------
(* The slot of a request *)

\* tryAcquire, before anything else.
Arrive(r, a) ==
  /\ request[r].at = "new"
  /\ \/ /\ inFlight < InFlightLimit /\ inFlight' = inFlight + 1
        /\ request' = [request EXCEPT ![r] = [at |-> "admitted", from |-> a, slot |-> TRUE,
                                              closing |-> {"finish", "close"}, running |-> TRUE]]
     \/ /\ inFlight >= InFlightLimit /\ UNCHANGED inFlight
        /\ request' = [request EXCEPT ![r] = [NewRequest EXCEPT !.at = "closed", !.from = a]]
  /\ UNCHANGED <<now, Limiter>>

\* release, by whichever event is first.  (The first form gives the slot back at
\* each of them.)
ReleaseAgain(r) == inFlight' = inFlight - 1
Release(r) == inFlight' = IF request[r].slot THEN inFlight - 1 ELSE inFlight

\* The response is finished; or its connection is closed, finished or not, with
\* the handler still running.
Finish(r) ==
  /\ request[r].at = "handled" /\ "finish" \in request[r].closing /\ Release(r)
  /\ request' = [request EXCEPT ![r].slot = FALSE, ![r].closing = @ \ {"finish"}]
  /\ UNCHANGED <<now, Limiter>>
Close(r) ==
  /\ "close" \in request[r].closing /\ Release(r)
  /\ request' = [request EXCEPT ![r].slot = FALSE, ![r].closing = {}, ![r].at = "closed"]
  /\ UNCHANGED <<now, Limiter>>

-----------------------------------------------------------------------------
(* The rate limiter *)

\* consume: a new window when there is none or it is over, one request more, and
\* the entries that are over are dropped; then the oldest ones beyond MaxEntries.
\* (The first form drops entries that are about to be over.)
OverSoon(entry) == entry.resetAt <= now + 1
Over(entry) == entry.resetAt <= now
Counting(a) ==
  LET entry == IF entries[a].resetAt <= now THEN [count |-> 0, resetAt |-> now + Window] ELSE entries[a]
  IN [entries EXCEPT ![a] = [entry EXCEPT !.count = @ + 1]]
Swept(rows) == [a \in Addresses |-> IF Over(rows[a]) THEN NoEntry ELSE rows[a]]
Held(rows) == {a \in Addresses : rows[a] # NoEntry}
WithoutOldest(rows) ==
  {[a \in Addresses |-> IF a \in kept THEN rows[a] ELSE NoEntry] :
    kept \in {k \in SUBSET Held(rows) :
      /\ Cardinality(k) = Min({MaxEntries, Cardinality(Held(rows))})
      /\ \A a \in Held(rows) \ k, b \in k : rows[a].resetAt <= rows[b].resetAt}}

\* What was allowed is counted in windows of the limiter's length.
Note(a, ok) ==
  LET window == IF allowed[a].resetAt <= now THEN [count |-> 0, resetAt |-> now + Window] ELSE allowed[a]
  IN allowed' = [allowed EXCEPT ![a] = [window EXCEPT !.count = @ + IF ok THEN 1 ELSE 0]]

\* A request that is limited is answered at once, one that is allowed by its handler.
Consume(r) ==
  LET a == request[r].from
      ok == Counting(a)[a].count <= RateLimit
  IN
  /\ request[r].at = "admitted" /\ request[r].running
  /\ entries' \in WithoutOldest(Swept(Counting(a))) /\ Note(a, ok)
  /\ evicted' = evicted \cup (Held(Swept(Counting(a))) \ Held(entries'))
  /\ request' = [request EXCEPT ![r].at = "handled", ![r].running = ok]
  /\ UNCHANGED <<now, inFlight>>

\* Without the shared limiter there is no decision: the request is refused.
LimiterUnavailable(r) ==
  /\ request[r].at = "admitted" /\ request[r].running
  /\ request' = [request EXCEPT ![r].at = "handled", ![r].running = FALSE]
  /\ UNCHANGED <<now, inFlight, Limiter>>

\* The handler answers and ends; when its connection is gone it ends all the same.
HandlerEnds(r) ==
  /\ request[r].running /\ request[r].at # "admitted"
  /\ request' = [request EXCEPT ![r].running = FALSE]
  /\ UNCHANGED <<now, inFlight, Limiter>>

GatewayNext ==
  \/ Tick
  \/ \E r \in Requests :
       \/ \E a \in Addresses : Arrive(r, a)
       \/ Finish(r) \/ Close(r) \/ Consume(r) \/ LimiterUnavailable(r) \/ HandlerEnds(r)

GatewaySpec == GatewayInit /\ [][GatewayNext]_gateway

-----------------------------------------------------------------------------
\* The count of requests in flight is that of the responses still open, which is
\* within the limit, in whatever order the events of a response come.
InFlightExact ==
  /\ inFlight = Cardinality({r \in Requests : request[r].slot}) /\ inFlight <= InFlightLimit
  /\ \A r \in Requests : request[r].slot => "close" \in request[r].closing

\* An address whose entry never had to make room for others is allowed no more
\* than the limit in any window.
WindowLimit == \A a \in Addresses \ evicted : allowed[a].count <= RateLimit

=============================================================================

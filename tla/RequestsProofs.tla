--------------------------- MODULE RequestsProofs ---------------------------
(***************************************************************************)
(* What holds of the gateway's limits for every number of requests and     *)
(* addresses, of the worker's timer for every number of ticks, of what the *)
(* bucket browser shows for every number of buckets and answers on their   *)
(* way, and of updates of the platform's settings for every number of      *)
(* settings and updates.                                                   *)
(***************************************************************************)
EXTENDS GatewayRequests, WorkerLoop, BucketBrowser, PlatformSettings, SequenceTheorems, SumTheorems

-----------------------------------------------------------------------------
(* The worker's passes *)

\* The flag says that a pass is running, and only passes that have begun run.
WorkerInv ==
  /\ WorkerOK
  /\ running <=> InPass # {}
  /\ \A m, n \in InPass : m = n
  /\ \A n \in 0 .. Ticks : n > ticks => pass[n] = "none"
  /\ worker = "stopped" => ~running

LEMMA WorkerStart == WorkerInit => WorkerInv
BY WorkerLoopAssumption DEF WorkerInit, WorkerInv, WorkerOK, InPass, PassSteps

LEMMA WorkerKeeps == ASSUME WorkerInv, [WorkerNext]_workerLoop PROVE WorkerInv'
<1>0. /\ Ticks \in Nat /\ ticks \in 0 .. Ticks
      /\ pass \in [0 .. Ticks -> PassSteps \cup {"none"}]
  BY WorkerLoopAssumption DEF WorkerInv, WorkerOK
<1>1. CASE Timer
  <2>1. ticks' = ticks + 1 /\ ticks' \in 0 .. Ticks /\ worker' = worker /\ worker = "up"
    BY <1>0, <1>1 DEF Timer
  <2>2. CASE ~MayStart /\ UNCHANGED <<pass, running>>
    BY <1>0, <2>1, <2>2 DEF WorkerInv, WorkerOK, InPass
  <2>3. CASE MayStart /\ pass' = [pass EXCEPT ![ticks'] = "uploads"] /\ running' = TRUE
    <3>1. InPass = {} BY <2>3 DEF WorkerInv, MayStart
    <3>2. InPass' = {ticks'} BY <1>0, <2>1, <2>3, <3>1 DEF InPass
    <3> QED BY <1>0, <2>1, <2>3, <3>2 DEF WorkerInv, WorkerOK, PassSteps
  <2> QED BY <1>1, <2>2, <2>3 DEF Timer
<1>2. ASSUME NEW n \in 0 .. Ticks, Reconcile(n) \/ Throws(n) PROVE WorkerInv'
  <2>1. InPass = {n} /\ n <= ticks
    BY <1>0, <1>2 DEF WorkerInv, InPass, Reconcile, Throws
  <2>2. PICK step \in {"migrations", "health", "ended"} : Step(n, step)
    BY <1>0, <1>2, <2>1 DEF Reconcile, Throws, After, InPass, PassSteps
  <2>3. /\ pass' = [pass EXCEPT ![n] = step] /\ running' = (step # "ended")
        /\ UNCHANGED <<ticks, worker>>
    BY <2>2 DEF Step
  <2>4. InPass' = IF step = "ended" THEN {} ELSE {n}
    BY <1>0, <2>1, <2>3 DEF InPass
  <2>5. worker # "stopped" BY <2>1 DEF WorkerInv
  <2>6. WorkerOK' BY <1>0, <2>3 DEF WorkerInv, WorkerOK, PassSteps
  <2>7. (\A m \in 0 .. Ticks : m > ticks => pass[m] = "none")' BY <1>0, <2>1, <2>3 DEF WorkerInv
  <2> QED BY <2>3, <2>4, <2>5, <2>6, <2>7 DEF WorkerInv
<1>3. CASE Stop \/ Drained
  <2>1. UNCHANGED <<ticks, pass, running>> BY <1>3 DEF Stop, Drained
  <2>2. InPass' = InPass BY <2>1 DEF InPass
  <2>3. /\ worker' \in {"draining", "timed out", "stopped"}
        /\ worker' = "stopped" => ~running
    BY <1>3 DEF Stop, Drained
  <2>4. WorkerOK' BY <2>1, <2>3 DEF WorkerInv, WorkerOK
  <2> QED BY <2>1, <2>2, <2>3, <2>4 DEF WorkerInv
<1>4. CASE UNCHANGED workerLoop
  BY <1>4 DEF workerLoop, WorkerInv, WorkerOK, InPass
<1> QED BY <1>1, <1>2, <1>3, <1>4 DEF WorkerNext

LEMMA WorkerTyped == WorkerSpec => []WorkerOK
<1>1. WorkerInv => WorkerOK BY DEF WorkerInv
<1> QED BY WorkerStart, WorkerKeeps, <1>1, PTL DEF WorkerSpec

\* Passes never overlap, and a worker that stopped in time left none unfinished.
THEOREM OnePassHolds == WorkerSpec => []OnePass
<1>1. WorkerInv => OnePass BY DEF WorkerInv, OnePass
<1> QED BY WorkerStart, WorkerKeeps, <1>1, PTL DEF WorkerSpec

-----------------------------------------------------------------------------
(* The slots *)

Slots == {r \in Requests : request[r].slot}
RequestRows == [at : RequestSteps, from : Addresses, slot : BOOLEAN,
                closing : SUBSET {"finish", "close"}, running : BOOLEAN]

\* A request that has not arrived holds no slot.
SlotsInv ==
  /\ request \in [Requests -> RequestRows]
  /\ IsFiniteSet(Slots) /\ inFlight = Cardinality(Slots) /\ inFlight <= InFlightLimit
  /\ \A r \in Requests : request[r].slot => "close" \in request[r].closing /\ request[r].at # "new"

LEMMA SlotsStart == ASSUME Addresses # {}, GatewayInit PROVE SlotsInv
<1>1. Slots = {} BY DEF GatewayInit, Slots, NewRequest
<1>2. NewRequest \in RequestRows BY DEF NewRequest, RequestRows, RequestSteps
<1>3. request = [r \in Requests |-> NewRequest] /\ ~NewRequest.slot /\ inFlight = 0
  BY DEF GatewayInit, NewRequest
<1>4. 0 <= InFlightLimit BY GatewayAssumption
<1>5. IsFiniteSet(Slots) /\ inFlight = Cardinality(Slots) BY <1>1, <1>3, FS_EmptySet
<1> QED BY <1>2, <1>3, <1>4, <1>5 DEF SlotsInv

\* A request that goes on without its slot being touched.
LEMMA SlotsUntouched ==
  ASSUME SlotsInv, NEW r \in Requests, NEW row \in RequestRows, row.slot = request[r].slot,
         request' = [request EXCEPT ![r] = row], inFlight' = inFlight,
         row.slot => "close" \in row.closing /\ row.at # "new"
  PROVE  SlotsInv'
<1>1. request' \in [Requests -> RequestRows] BY DEF SlotsInv
<1>2. Slots' = Slots BY DEF SlotsInv, Slots
<1>3. (\A x \in Requests : request[x].slot => "close" \in request[x].closing /\ request[x].at # "new")'
  BY DEF SlotsInv
<1> QED BY <1>1, <1>2, <1>3 DEF SlotsInv

LEMMA SlotGivenBack ==
  ASSUME SlotsInv, NEW r \in Requests, NEW row \in RequestRows, row.slot = FALSE,
         request' = [request EXCEPT ![r] = row], Release(r)
  PROVE  SlotsInv'
<1>1. request' \in [Requests -> RequestRows] BY DEF SlotsInv
<1>2. Slots' = Slots \ {r} BY DEF SlotsInv, Slots
<1>3. /\ IsFiniteSet(Slots')
      /\ Cardinality(Slots') = IF r \in Slots THEN Cardinality(Slots) - 1 ELSE Cardinality(Slots)
  BY <1>2, FS_RemoveElement DEF SlotsInv
<1>4. Cardinality(Slots) \in Nat BY FS_CardinalityType DEF SlotsInv
<1>5. inFlight' = Cardinality(Slots') /\ inFlight' <= InFlightLimit
  BY <1>3, <1>4, GatewayAssumption DEF Release, Slots, SlotsInv
<1>6. (\A x \in Requests : request[x].slot => "close" \in request[x].closing /\ request[x].at # "new")'
  BY DEF SlotsInv
<1> QED BY <1>1, <1>3, <1>5, <1>6 DEF SlotsInv

LEMMA SlotsKeep == ASSUME SlotsInv, [GatewayNext]_gateway PROVE SlotsInv'
<1>0. \A r \in Requests : request[r] \in RequestRows BY DEF SlotsInv
<1>1. CASE Tick \/ UNCHANGED gateway
  BY <1>1 DEF Tick, gateway, SlotsInv, Slots
<1>2. ASSUME NEW r \in Requests, NEW a \in Addresses, Arrive(r, a) PROVE SlotsInv'
  <2>0. r \notin Slots /\ request[r].slot = FALSE BY <1>0, <1>2 DEF Arrive, SlotsInv, Slots, RequestRows
  <2>1. CASE inFlight < InFlightLimit
    <3> DEFINE row == [at |-> "admitted", from |-> a, slot |-> TRUE,
                       closing |-> {"finish", "close"}, running |-> TRUE]
    <3>1. row \in RequestRows /\ row.slot /\ "close" \in row.closing /\ row.at # "new"
      BY DEF RequestRows, RequestSteps
    <3>2. request' = [request EXCEPT ![r] = row] /\ inFlight' = inFlight + 1
      BY <1>2, <2>1, GatewayAssumption, FS_CardinalityType DEF Arrive, SlotsInv
    <3> HIDE DEF row
    <3>3. Slots' = Slots \cup {r} BY <3>1, <3>2 DEF SlotsInv, Slots
    <3>4. IsFiniteSet(Slots') /\ Cardinality(Slots') = Cardinality(Slots) + 1
      BY <2>0, <3>3, FS_AddElement DEF SlotsInv
    <3>5. Cardinality(Slots) \in Nat BY FS_CardinalityType DEF SlotsInv
    <3>6. inFlight' = Cardinality(Slots') /\ inFlight' <= InFlightLimit
      BY <2>1, <3>2, <3>4, <3>5, GatewayAssumption DEF SlotsInv
    <3>7. request' \in [Requests -> RequestRows] BY <3>1, <3>2 DEF SlotsInv
    <3>8. (\A x \in Requests : request[x].slot => "close" \in request[x].closing /\ request[x].at # "new")'
      BY <3>1, <3>2 DEF SlotsInv
    <3> QED BY <3>4, <3>6, <3>7, <3>8 DEF SlotsInv
  <2>2. CASE ~(inFlight < InFlightLimit)
    <3> DEFINE row == [NewRequest EXCEPT !.at = "closed", !.from = a]
    <3>1. row \in RequestRows /\ row.slot = FALSE
      BY DEF NewRequest, RequestRows, RequestSteps
    <3>2. request' = [request EXCEPT ![r] = row] /\ inFlight' = inFlight
      BY <1>2, <2>2 DEF Arrive
    <3> HIDE DEF row
    <3> QED BY <2>0, <3>1, <3>2, SlotsUntouched
  <2> QED BY <2>1, <2>2
<1>3. ASSUME NEW r \in Requests, Finish(r) PROVE SlotsInv'
  <2> DEFINE row == [request[r] EXCEPT !.slot = FALSE, !.closing = @ \ {"finish"}]
  <2>1. row \in RequestRows /\ row.slot = FALSE BY <1>0 DEF RequestRows
  <2>2. request' = [request EXCEPT ![r] = row] BY <1>3 DEF Finish, SlotsInv
  <2> HIDE DEF row
  <2> QED BY <1>3, <2>1, <2>2, SlotGivenBack DEF Finish
<1>4. ASSUME NEW r \in Requests, Close(r) PROVE SlotsInv'
  <2> DEFINE row == [request[r] EXCEPT !.slot = FALSE, !.closing = {}, !.at = "closed"]
  <2>1. row \in RequestRows /\ row.slot = FALSE BY <1>0 DEF RequestRows, RequestSteps
  <2>2. request' = [request EXCEPT ![r] = row] BY <1>4 DEF Close, SlotsInv
  <2> HIDE DEF row
  <2> QED BY <1>4, <2>1, <2>2, SlotGivenBack DEF Close
<1>5. ASSUME NEW r \in Requests, NEW on \in BOOLEAN,
             request' = [request EXCEPT ![r].at = "handled", ![r].running = on], inFlight' = inFlight
      PROVE  SlotsInv'
  <2> DEFINE row == [request[r] EXCEPT !.at = "handled", !.running = on]
  <2>1. /\ row \in RequestRows /\ row.slot = request[r].slot
        /\ row.closing = request[r].closing /\ row.at = "handled"
    BY <1>0 DEF RequestRows, RequestSteps
  <2>2. request' = [request EXCEPT ![r] = row] BY <1>5 DEF SlotsInv
  <2>3. row.slot => "close" \in row.closing BY <2>1 DEF SlotsInv
  <2> HIDE DEF row
  <2> QED BY <1>5, <2>1, <2>2, <2>3, SlotsUntouched
<1>6. ASSUME NEW r \in Requests, Consume(r) \/ LimiterUnavailable(r) PROVE SlotsInv'
  <2>1. (Counting(request[r].from)[request[r].from].count <= RateLimit) \in BOOLEAN OBVIOUS
  <2> QED BY <1>5, <1>6, <2>1 DEF Consume, LimiterUnavailable
<1>7. ASSUME NEW r \in Requests, HandlerEnds(r) PROVE SlotsInv'
  <2> DEFINE row == [request[r] EXCEPT !.running = FALSE]
  <2>1. /\ row \in RequestRows /\ row.slot = request[r].slot
        /\ row.closing = request[r].closing /\ row.at = request[r].at
    BY <1>0 DEF RequestRows
  <2>2. request' = [request EXCEPT ![r] = row] /\ inFlight' = inFlight
    BY <1>7 DEF HandlerEnds, SlotsInv
  <2>3. row.slot => "close" \in row.closing /\ row.at # "new" BY <2>1 DEF SlotsInv
  <2> HIDE DEF row
  <2> QED BY <2>1, <2>2, <2>3, SlotsUntouched
<1> QED BY <1>1, <1>2, <1>3, <1>4, <1>6, <1>7 DEF GatewayNext

\* The count of requests in flight is that of the responses still open, and within
\* the limit, however the two events of each response are ordered.
THEOREM SlotsExact == ASSUME Addresses # {} PROVE GatewaySpec => []InFlightExact
<1>1. SlotsInv => InFlightExact BY DEF SlotsInv, InFlightExact, Slots
<1> QED BY SlotsStart, SlotsKeep, <1>1, PTL DEF GatewaySpec

-----------------------------------------------------------------------------
(* The windows *)

LimiterRows == [Addresses -> [count : Nat, resetAt : Nat]]

\* The limiter's entry of an address that never had to make room is that of the
\* window what was allowed is counted in.
SameWindow(a) ==
  /\ allowed[a].resetAt > now =>
       entries[a].resetAt = allowed[a].resetAt /\ entries[a].count >= allowed[a].count
  /\ entries[a].resetAt > now => allowed[a].resetAt = entries[a].resetAt
WindowsInv ==
  /\ now \in Nat /\ entries \in LimiterRows /\ allowed \in LimiterRows
  /\ \A a \in Addresses \ evicted : SameWindow(a) /\ allowed[a].count <= RateLimit

\* What sweeping and making room leave of the entry of an address that keeps it.
LEMMA RowKept ==
  ASSUME NEW rows \in LimiterRows, NEW left \in WithoutOldest(Swept(rows)), NEW a \in Addresses,
         a \notin Held(Swept(rows)) \ Held(left)
  PROVE  left[a] = IF Over(rows[a]) THEN NoEntry ELSE rows[a]
<1>1. Swept(rows)[a] = IF Over(rows[a]) THEN NoEntry ELSE rows[a] BY DEF Swept
<1>2. PICK kept : left = [b \in Addresses |-> IF b \in kept THEN Swept(rows)[b] ELSE NoEntry]
  BY DEF WithoutOldest
<1>3. left[a] = IF a \in kept THEN Swept(rows)[a] ELSE NoEntry BY <1>2
<1>4. CASE a \in Held(left) BY <1>1, <1>3, <1>4 DEF Held
<1>5. CASE a \notin Held(Swept(rows)) BY <1>1, <1>3, <1>5 DEF Held
<1> QED BY <1>4, <1>5

LEMMA WindowsStart == GatewayInit => WindowsInv
<1> SUFFICES ASSUME GatewayInit PROVE WindowsInv OBVIOUS
<1>1. NoEntry \in [count : Nat, resetAt : Nat] /\ NoEntry.count = 0 /\ NoEntry.resetAt = 0
  BY DEF NoEntry
<1>2. /\ now = 1 /\ entries = [a \in Addresses |-> NoEntry] /\ allowed = [a \in Addresses |-> NoEntry]
  BY DEF GatewayInit
<1>3. RateLimit \in Nat \ {0} BY GatewayAssumption
<1> QED BY <1>1, <1>2, <1>3 DEF WindowsInv, LimiterRows, SameWindow

LEMMA WindowsKeep ==
  ASSUME SlotsInv, WindowsInv, [GatewayNext]_gateway
  PROVE  WindowsInv'
<1>0. /\ now \in Nat /\ entries \in LimiterRows /\ allowed \in LimiterRows
      /\ {RateLimit, Window} \subseteq Nat \ {0}
  BY GatewayAssumption DEF WindowsInv
<1>a. \A a \in Addresses :
        /\ entries[a].count \in Nat /\ entries[a].resetAt \in Nat
        /\ allowed[a].count \in Nat /\ allowed[a].resetAt \in Nat
  BY <1>0 DEF LimiterRows
<1>1. CASE UNCHANGED <<now, Limiter>>
  BY <1>1 DEF Limiter, WindowsInv, SameWindow
<1>2. CASE Tick
  <2>1. now' = now + 1 /\ UNCHANGED <<entries, allowed, evicted>> BY <1>2 DEF Tick, Limiter
  <2> QED BY <1>0, <1>a, <2>1 DEF WindowsInv, SameWindow
<1>3. ASSUME NEW r \in Requests, Consume(r) PROVE WindowsInv'
  <2>1. PICK a \in Addresses : a = request[r].from BY DEF SlotsInv, RequestRows
  <2> DEFINE rows == Counting(a)
             ok == rows[a].count <= RateLimit
             fresh == [count |-> 0, resetAt |-> now + Window]
             entry == IF entries[a].resetAt <= now THEN fresh ELSE entries[a]
             window == IF allowed[a].resetAt <= now THEN fresh ELSE allowed[a]
  <2>2. /\ entries' \in WithoutOldest(Swept(rows)) /\ now' = now
        /\ evicted' = evicted \cup (Held(Swept(rows)) \ Held(entries'))
        /\ allowed' = [allowed EXCEPT ![a] = [window EXCEPT !.count = @ + IF ok THEN 1 ELSE 0]]
    BY <1>3, <2>1 DEF Consume, Note
  <2>3. fresh \in [count : Nat, resetAt : Nat] BY <1>0
  <2>4. /\ entry \in [count : Nat, resetAt : Nat] /\ window \in [count : Nat, resetAt : Nat]
    BY <1>0, <2>1, <2>3 DEF LimiterRows
  <2>5. rows = [entries EXCEPT ![a] = [entry EXCEPT !.count = @ + 1]] BY DEF Counting
  <2>6. rows \in LimiterRows /\ allowed' \in LimiterRows
    <3>1. /\ [entry EXCEPT !.count = @ + 1] \in [count : Nat, resetAt : Nat]
          /\ [window EXCEPT !.count = @ + IF ok THEN 1 ELSE 0] \in [count : Nat, resetAt : Nat]
      BY <2>4
    <3> HIDE DEF rows, entry, window, ok
    <3> QED BY <1>0, <2>1, <2>2, <2>5, <3>1 DEF LimiterRows
  <2>7. /\ rows[a].count = entry.count + 1 /\ rows[a].resetAt = entry.resetAt
        /\ allowed'[a].count = window.count + (IF ok THEN 1 ELSE 0)
        /\ allowed'[a].resetAt = window.resetAt
        /\ \A b \in Addresses \ {a} : rows[b] = entries[b] /\ allowed'[b] = allowed[b]
    <3> HIDE DEF rows, entry, window, ok
    <3>1. rows[a] = [entry EXCEPT !.count = @ + 1] BY <1>0, <2>1, <2>5 DEF LimiterRows
    <3>2. allowed'[a] = [window EXCEPT !.count = @ + IF ok THEN 1 ELSE 0]
      BY <1>0, <2>1, <2>2 DEF LimiterRows
    <3>3. \A b \in Addresses \ {a} : rows[b] = entries[b] /\ allowed'[b] = allowed[b]
      BY <1>0, <2>2, <2>5 DEF LimiterRows
    <3> QED BY <2>4, <3>1, <3>2, <3>3
  <2>8. \A b \in Addresses \ evicted' : entries'[b] = IF Over(rows[b]) THEN NoEntry ELSE rows[b]
    BY <2>2, <2>6, RowKept
  <2>9. entries' \in LimiterRows
    <3>1. Swept(rows) \in LimiterRows BY <2>6 DEF LimiterRows, Swept, NoEntry
    <3> QED BY <2>2, <3>1 DEF WithoutOldest, LimiterRows, NoEntry
  <2>10. \A b \in Addresses \ evicted' :
           SameWindow(b) /\ allowed[b].count <= RateLimit
    BY <2>2 DEF WindowsInv
  <2>11. NoEntry.count = 0 /\ NoEntry.resetAt = 0 BY DEF NoEntry
  <2>12. ASSUME NEW b \in Addresses \ evicted', b # a
         PROVE  SameWindow(b)' /\ allowed'[b].count <= RateLimit
    BY <1>0, <1>a, <2>2, <2>7, <2>8, <2>10, <2>11, <2>12 DEF SameWindow, Over
  <2>13. ASSUME a \notin evicted' PROVE SameWindow(a) /\ allowed[a].count <= RateLimit /\ SameWindow(a)' /\ allowed'[a].count <= RateLimit
    <3>1. SameWindow(a) /\ allowed[a].count <= RateLimit BY <2>1, <2>10, <2>13
    <3>2. fresh.count = 0 /\ fresh.resetAt = now + Window /\ now + Window > now BY <1>0
    <3>3. entry.resetAt > now /\ entry.resetAt \in Nat /\ entry.count \in Nat
          /\ window.resetAt \in Nat /\ window.count \in Nat
      BY <1>0, <1>a, <2>1, <2>4, <3>2
    <3>4. window.resetAt = entry.resetAt /\ window.count <= entry.count /\ window.count <= RateLimit
      BY <1>0, <1>a, <2>1, <3>1, <3>2 DEF SameWindow
    <3>5. entries'[a] = rows[a]
      <4> HIDE DEF rows, entry, window, ok
      <4>1. rows[a].resetAt > now BY <2>7, <3>3
      <4>2. entries'[a] = IF Over(rows[a]) THEN NoEntry ELSE rows[a] BY <2>1, <2>8, <2>13
      <4> QED BY <1>0, <2>7, <3>3, <4>1, <4>2 DEF Over
    <3>6. allowed'[a].count <= RateLimit BY <1>0, <2>7, <3>3, <3>4
    <3> HIDE DEF rows, entry, window, ok
    <3>7. allowed'[a].resetAt = entries'[a].resetAt /\ entries'[a].count >= allowed'[a].count
      BY <1>0, <2>7, <3>3, <3>4, <3>5
    <3> QED BY <3>1, <3>6, <3>7 DEF SameWindow
  <2>14. \A b \in Addresses \ evicted' : (SameWindow(b) /\ allowed[b].count <= RateLimit)'
    <3>1. SUFFICES ASSUME NEW b \in Addresses \ evicted'
                   PROVE  (SameWindow(b) /\ allowed[b].count <= RateLimit)'
      OBVIOUS
    <3>2. CASE b # a BY <2>12, <3>2
    <3>3. CASE b = a BY <2>13, <3>3 DEF SameWindow
    <3> QED BY <3>2, <3>3
  <2> QED BY <1>0, <2>2, <2>6, <2>9, <2>14 DEF WindowsInv
<1>4. \/ UNCHANGED <<now, Limiter>> \/ Tick \/ \E r \in Requests : Consume(r)
  BY DEF GatewayNext, gateway, Limiter, Arrive, Finish, Close, LimiterUnavailable, HandlerEnds
<1> QED BY <1>1, <1>2, <1>3, <1>4

LEMMA GatewayTyped == ASSUME Addresses # {} PROVE GatewaySpec => []GatewayOK
<1> DEFINE ClockOK == now \in 0 .. MaxTime /\ evicted \subseteq Addresses
<1>1. GatewayInit => ClockOK BY GatewayAssumption DEF GatewayInit
<1>2. ClockOK /\ [GatewayNext]_gateway => ClockOK'
  <2> SUFFICES ASSUME ClockOK, [GatewayNext]_gateway PROVE ClockOK' OBVIOUS
  <2>1. CASE Tick BY <2>1, GatewayAssumption DEF Tick, Limiter
  <2>2. CASE \E r \in Requests : Consume(r) BY <2>2 DEF Consume, Held
  <2>3. CASE UNCHANGED <<now, evicted>> BY <2>3
  <2> QED BY <2>1, <2>2, <2>3
    DEF GatewayNext, gateway, Limiter, Arrive, Finish, Close, LimiterUnavailable, HandlerEnds
<1>3. ClockOK /\ SlotsInv /\ WindowsInv => GatewayOK
  <2> SUFFICES ASSUME ClockOK, SlotsInv, WindowsInv PROVE GatewayOK OBVIOUS
  <2>1. inFlight \in Nat BY FS_CardinalityType DEF SlotsInv
  <2> QED BY <2>1 DEF SlotsInv, WindowsInv, GatewayOK, LimiterRows, RequestRows
<1> QED BY SlotsStart, SlotsKeep, WindowsStart, WindowsKeep, <1>1, <1>2, <1>3, PTL DEF GatewaySpec

\* An address whose entry never had to make room for others is allowed no more than
\* the limit in any window, whatever the addresses and the clock.
THEOREM WindowLimitHolds == ASSUME Addresses # {} PROVE GatewaySpec => []WindowLimit
<1>1. SlotsInv /\ WindowsInv => WindowLimit BY DEF WindowsInv, WindowLimit
<1> QED BY SlotsStart, SlotsKeep, WindowsStart, WindowsKeep, <1>1, PTL DEF GatewaySpec

-----------------------------------------------------------------------------
(* The bucket browser *)

\* The request that the selection last made.
Selected == [of |-> tenant, bucket |-> view.bucket, prefix |-> view.prefix, page |-> view.page]

ViewOK ==
  view \in [bucket : Buckets \cup {Nothing}, prefix : {view.prefix}, page : {view.page},
            history : {view.history}]

\* Nothing is selected, offered or on its way before an organization is.
OrganizationFirst ==
  tenant = Nothing => shownOf = Nothing /\ wanted = {} /\ view.bucket = Nothing

\* Requests are numbered; the latest is that of the selection.
AskedInOrder ==
  /\ requestId \in Nat
  /\ \A a \in asked : a.id \in Nat /\ a.id =< requestId
  /\ \A a \in asked : a.id = requestId /\ view.bucket # Nothing => a.what = Selected

BrowserInv == ViewOK /\ OrganizationFirst /\ AskedInOrder /\ ShownIsSelected

LEMMA BrowserStart == BucketBrowserInit => BrowserInv
BY DEF BucketBrowserInit, BrowserInv, Top, ViewOK, OrganizationFirst, AskedInOrder, ShownIsSelected

LEMMA NothingOffered == ActiveBuckets(Nothing) = {}
BY BucketBrowserAssumption DEF ActiveBuckets

\* A listing that is loaded is the only one that will be shown.
LEMMA LoadKeeps ==
  ASSUME BrowserInv, UNCHANGED Dashboard, NEW v, LoadListing(v),
         v \in [bucket : Buckets \cup {Nothing}, prefix : {v.prefix}, page : {v.page},
                history : {v.history}],
         tenant = Nothing => v.bucket = Nothing
  PROVE  BrowserInv'
<1>1. view' = v /\ tenant' = tenant /\ shownOf' = shownOf /\ wanted' = wanted
  BY DEF LoadListing, Dashboard
<1>2. ViewOK' /\ OrganizationFirst' BY <1>1 DEF ViewOK, BrowserInv, OrganizationFirst
<1>3. CASE v.bucket = Nothing
  <2>1. UNCHANGED <<listing, requestId, asked>> BY <1>3 DEF LoadListing
  <2> QED BY <1>1, <1>2, <1>3, <2>1 DEF BrowserInv, AskedInOrder, ShownIsSelected
<1>4. CASE v.bucket # Nothing
  <2> DEFINE new == [id |-> requestId + 1,
                     what |-> [of |-> tenant, bucket |-> v.bucket, prefix |-> v.prefix, page |-> v.page]]
  <2>1. requestId' = requestId + 1 /\ listing' = Nothing /\ asked' = asked \cup {new}
    BY <1>4 DEF LoadListing
  <2>2. new.id = requestId' /\ new.what = Selected' BY <1>1, <2>1 DEF Selected
  <2> HIDE DEF new
  <2>3. AskedInOrder' BY <2>1, <2>2 DEF BrowserInv, AskedInOrder
  <2>4. ShownIsSelected' BY <2>1 DEF ShownIsSelected
  <2> QED BY <1>2, <2>3, <2>4 DEF BrowserInv
<1> QED BY <1>3, <1>4

\* After a reset no answer on its way is the latest but that of the new selection.
LEMMA ResetKeeps ==
  ASSUME BrowserInv, Reset, tenant' # Nothing
  PROVE  BrowserInv'
<1>1. PICK b \in Buckets \cup {Nothing} :
        IF b = view.bucket \/ b = Nothing
          THEN /\ view' = Top(b) /\ listing' = Nothing /\ requestId' = requestId + 1 /\ asked' = asked
          ELSE /\ view' = Top(b) /\ listing' = Nothing /\ requestId' = requestId + 2
               /\ asked' = asked \cup {[id |-> requestId + 2,
                    what |-> [of |-> tenant', bucket |-> b, prefix |-> NoPrefix, page |-> 0]]}
  BY DEF Reset, ActiveBuckets, BrowserInv, ViewOK
<1>2. view' = Top(b) /\ listing' = Nothing BY <1>1
<1>3. ViewOK' BY <1>2 DEF ViewOK, Top
<1>4. OrganizationFirst' BY DEF OrganizationFirst
<1>5. ShownIsSelected' BY <1>2 DEF ShownIsSelected
<1>6. AskedInOrder'
  <2>1. CASE requestId' = requestId + 1 /\ asked' = asked
    BY <2>1 DEF BrowserInv, AskedInOrder
  <2>2. CASE /\ requestId' = requestId + 2
             /\ asked' = asked \cup {[id |-> requestId + 2,
                  what |-> [of |-> tenant', bucket |-> b, prefix |-> NoPrefix, page |-> 0]]}
    <3>1. [of |-> tenant', bucket |-> b, prefix |-> NoPrefix, page |-> 0] = Selected'
      BY <1>2 DEF Selected, Top
    <3> QED BY <2>2, <3>1 DEF BrowserInv, AskedInOrder
  <2> QED BY <1>1, <2>1, <2>2
<1> QED BY <1>3, <1>4, <1>5, <1>6 DEF BrowserInv

LEMMA BrowserKeeps ==
  ASSUME BrowserInv, [BucketBrowserNext]_browser
  PROVE  BrowserInv'
<1>1. ASSUME NEW o \in Tenants, HandleOrganizationChange(o) \/ LoadSnapshot(o) PROVE BrowserInv'
  <2>1. Reset /\ tenant' # Nothing
    BY <1>1, BucketBrowserAssumption
    DEF HandleOrganizationChange, LoadSnapshot, BrowserInv, OrganizationFirst
  <2> QED BY <2>1, ResetKeeps
<1>2. CASE RefreshDashboard
  BY <1>2
  DEF RefreshDashboard, BrowserInv, ViewOK, OrganizationFirst, AskedInOrder, ShownIsSelected, Selected
<1>3. CASE Reload BY <1>3, LoadKeeps DEF Reload, BrowserInv, ViewOK, OrganizationFirst
<1>4. CASE NextPage
  <2> DEFINE v == [view EXCEPT !.page = listing.page + 1, !.history = Append(view.history, view.page)]
  <2>1. LoadListing(v) /\ UNCHANGED Dashboard BY <1>4 DEF NextPage, BrowserInv, ViewOK
  <2>2. /\ v.bucket = view.bucket
        /\ v \in [bucket : Buckets \cup {Nothing}, prefix : {v.prefix}, page : {v.page},
                  history : {v.history}]
    BY DEF BrowserInv, ViewOK
  <2> HIDE DEF v
  <2> QED BY <2>1, <2>2, LoadKeeps DEF BrowserInv, OrganizationFirst
<1>5. CASE PreviousPage
  <2> DEFINE v == [view EXCEPT !.page = view.history[Len(view.history)],
                               !.history = SubSeq(view.history, 1, Len(view.history) - 1)]
  <2>1. LoadListing(v) /\ UNCHANGED Dashboard BY <1>5 DEF PreviousPage, BrowserInv, ViewOK
  <2>2. /\ v.bucket = view.bucket
        /\ v \in [bucket : Buckets \cup {Nothing}, prefix : {v.prefix}, page : {v.page},
                  history : {v.history}]
    BY DEF BrowserInv, ViewOK
  <2> HIDE DEF v
  <2> QED BY <2>1, <2>2, LoadKeeps DEF BrowserInv, OrganizationFirst
<1>6. ASSUME NEW b \in Buckets \cup {Nothing}, SelectBucket(b) PROVE BrowserInv'
  <2>1. LoadListing(Top(b)) /\ UNCHANGED Dashboard BY <1>6 DEF SelectBucket
  <2>2. tenant = Nothing => b = Nothing
    BY <1>6, NothingOffered DEF SelectBucket, BrowserInv, OrganizationFirst
  <2>3. /\ Top(b).bucket = b
        /\ Top(b) \in [bucket : Buckets \cup {Nothing}, prefix : {Top(b).prefix}, page : {Top(b).page},
                       history : {Top(b).history}]
    BY DEF Top
  <2> QED BY <2>1, <2>2, <2>3, LoadKeeps
<1>7. ASSUME NEW p \in Prefixes, OpenPrefix(p) PROVE BrowserInv'
  <2> DEFINE v == [Top(view.bucket) EXCEPT !.prefix = p]
  <2>1. LoadListing(v) /\ UNCHANGED Dashboard BY <1>7 DEF OpenPrefix
  <2>2. /\ v.bucket = view.bucket
        /\ v \in [bucket : Buckets \cup {Nothing}, prefix : {v.prefix}, page : {v.page},
                  history : {v.history}]
    BY DEF BrowserInv, ViewOK, Top
  <2> HIDE DEF v
  <2> QED BY <2>1, <2>2, LoadKeeps DEF BrowserInv, OrganizationFirst
<1>8. ASSUME NEW a \in asked, Listed(a) PROVE BrowserInv'
  <2>1. /\ asked' \subseteq asked /\ UNCHANGED <<tenant, shownOf, wanted, view, requestId>>
        /\ listing' = listing \/ (a.id = requestId /\ listing' \in ListBucketObjects(a.what))
    BY <1>8 DEF Listed, Latest, Dashboard
  <2>2. ViewOK' /\ OrganizationFirst' /\ AskedInOrder'
    BY <2>1 DEF BrowserInv, ViewOK, OrganizationFirst, AskedInOrder, Selected
  <2>3. CASE listing' = listing BY <2>1, <2>2, <2>3 DEF BrowserInv, ShownIsSelected
  <2>4. CASE a.id = requestId /\ listing' \in ListBucketObjects(a.what) /\ view.bucket # Nothing
    <3>1. a.what = Selected BY <2>4 DEF BrowserInv, AskedInOrder
    <3>2. listing' = Nothing \/ (listing' = Selected /\ TenantOf[Selected.bucket] = Selected.of)
      BY <2>4, <3>1 DEF ListBucketObjects
    <3>3. ShownIsSelected' BY <2>1, <3>2 DEF ShownIsSelected, Selected
    <3> QED BY <2>2, <3>3 DEF BrowserInv
  <2>5. CASE view.bucket = Nothing BY <2>1, <2>2, <2>5 DEF BrowserInv, ShownIsSelected
  <2> QED BY <2>1, <2>3, <2>4, <2>5
<1>9. CASE UNCHANGED browser
  BY <1>9 DEF browser, BrowserInv, ViewOK, OrganizationFirst, AskedInOrder, ShownIsSelected, Selected
<1> QED BY <1>1, <1>2, <1>3, <1>4, <1>5, <1>6, <1>7, <1>8, <1>9 DEF BucketBrowserNext

\* In whatever order the answers of listings and snapshots come, the listing shown
\* is the page selected, of the bucket and the organization selected.
THEOREM ShownListingIsSelected == BucketBrowserSpec => []ShownIsSelected
<1>1. BrowserInv => ShownIsSelected BY DEF BrowserInv
<1> QED BY <1>1, BrowserStart, BrowserKeeps, PTL DEF BucketBrowserSpec

\* What a step of the browser leaves has its type.
Views == [bucket : Buckets \cup {Nothing}, prefix : Prefixes, page : 0 .. MaxPage,
          history : Seq(0 .. MaxPage)]

LEMMA TopIsView == ASSUME NEW b \in Buckets \cup {Nothing} PROVE Top(b) \in Views
<1>1. 0 \in 0 .. MaxPage /\ NoPrefix \in Prefixes BY BucketBrowserAssumption
<1>2. <<>> \in Seq(0 .. MaxPage) OBVIOUS
<1> QED BY <1>1, <1>2 DEF Top, Views

LEMMA LastOfHistory ==
  ASSUME NEW S, NEW h \in Seq(S), h # <<>>
  PROVE  h[Len(h)] \in S /\ SubSeq(h, 1, Len(h) - 1) \in Seq(S)
<1>1. Len(h) \in Nat \ {0} BY EmptySeq
<1>2. \A i \in 1 .. Len(h) : h[i] \in S BY ElementOfSeq
<1>3. Len(h) \in 1 .. Len(h) /\ 1 .. Len(h) - 1 \subseteq 1 .. Len(h) BY <1>1
<1>4. 1 \in Int /\ Len(h) - 1 \in Int BY <1>1
<1> QED BY <1>2, <1>3, <1>4, SubSeqProperties

LEMMA LoadTyped ==
  ASSUME BucketBrowserOK, NEW v \in Views, LoadListing(v), UNCHANGED Dashboard
  PROVE  BucketBrowserOK'
<1>1. CASE UNCHANGED <<listing, requestId, busy, asked>>
  BY <1>1 DEF BucketBrowserOK, LoadListing, Dashboard, Views
<1>2. CASE v.bucket # Nothing /\ tenant # Nothing
  <2> DEFINE what == [of |-> tenant, bucket |-> v.bucket, prefix |-> v.prefix, page |-> v.page]
  <2>1. what \in Listings BY <1>2 DEF BucketBrowserOK, Listings, Views
  <2>2. /\ requestId' = requestId + 1 /\ listing' = Nothing /\ busy' = TRUE /\ view' = v
        /\ asked' = asked \cup {[id |-> requestId + 1, what |-> what]}
    BY <1>2 DEF LoadListing
  <2> HIDE DEF what
  <2>3. requestId \in Nat /\ \A a \in asked : a.id \in 1 .. requestId /\ a.what \in Listings
    BY DEF BucketBrowserOK
  <2>4. \A a \in asked' : a.id \in 1 .. requestId' /\ a.what \in Listings
    BY <2>1, <2>2, <2>3
  <2> QED BY <2>2, <2>3, <2>4 DEF BucketBrowserOK, Dashboard, Views
<1> QED BY <1>1, <1>2 DEF LoadListing

LEMMA ResetTyped ==
  ASSUME BucketBrowserOK, Reset, {tenant', shownOf'} \subseteq Tenants \cup {Nothing}, wanted' \subseteq Tenants
  PROVE  BucketBrowserOK'
<1>0. requestId \in Nat /\ \A a \in asked : a.id \in 1 .. requestId /\ a.what \in Listings
  BY DEF BucketBrowserOK
<1>1. PICK b \in Buckets \cup {Nothing} :
        /\ view' = Top(b) /\ listing' = Nothing
        /\ \/ requestId' = requestId + 1 /\ UNCHANGED <<busy, asked>>
           \/ /\ b # Nothing /\ busy' = TRUE /\ requestId' = requestId + 2
              /\ asked' = asked \cup {[id |-> requestId + 2,
                   what |-> [of |-> tenant', bucket |-> b, prefix |-> NoPrefix, page |-> 0]]}
  BY DEF Reset, ActiveBuckets, BucketBrowserOK
<1>2. Top(b) \in Views BY TopIsView
<1>3. CASE requestId' = requestId + 1 /\ UNCHANGED <<busy, asked>>
  <2>1. \A a \in asked : a.id \in 1 .. requestId' BY <1>0, <1>3
  <2> QED BY <1>0, <1>1, <1>2, <1>3, <2>1 DEF BucketBrowserOK, Views
<1>4. CASE b # Nothing /\ busy' = TRUE /\ requestId' = requestId + 2
           /\ asked' = asked \cup {[id |-> requestId + 2,
                what |-> [of |-> tenant', bucket |-> b, prefix |-> NoPrefix, page |-> 0]]}
  <2> DEFINE what == [of |-> tenant', bucket |-> b, prefix |-> NoPrefix, page |-> 0]
  <2>1. what \in Listings BY <1>4, BucketBrowserAssumption DEF Listings
  <2>2. asked' = asked \cup {[id |-> requestId + 2, what |-> what]} BY <1>4
  <2> HIDE DEF what
  <2>3. \A a \in asked' : a.id \in 1 .. requestId' /\ a.what \in Listings BY <1>0, <1>4, <2>1, <2>2
  <2>4. view' \in Views /\ listing' = Nothing BY <1>1, <1>2, Zenon
  <2>6. requestId' \in Nat BY <1>0, <1>4
  <2>5. busy' \in BOOLEAN BY <1>4, Zenon
  <2> QED BY <2>3, <2>4, <2>5, <2>6 DEF BucketBrowserOK, Views
<1> QED BY <1>1, <1>3, <1>4

LEMMA BrowserTyped == BucketBrowserSpec => []BucketBrowserOK
<1>1. BucketBrowserInit => BucketBrowserOK
  <2>1. Top(Nothing) \in Views BY TopIsView
  <2>2. BucketBrowserInit => busy \in BOOLEAN BY Zenon DEF BucketBrowserInit
  <2> QED BY <2>1, <2>2 DEF BucketBrowserInit, BucketBrowserOK, Views
<1>2. ASSUME BucketBrowserOK, [BucketBrowserNext]_browser PROVE BucketBrowserOK'
  <2>0. /\ view \in Views /\ listing \in Listings \cup {Nothing} /\ MaxPage \in Nat
        /\ tenant \in Tenants \cup {Nothing} /\ shownOf \in Tenants \cup {Nothing} /\ wanted \subseteq Tenants
    BY <1>2, BucketBrowserAssumption DEF BucketBrowserOK, Views
  <2>1. ASSUME NEW o \in Tenants, HandleOrganizationChange(o) \/ LoadSnapshot(o)
        PROVE  BucketBrowserOK'
    <3>1. Reset /\ {tenant', shownOf'} \subseteq Tenants \cup {Nothing} /\ wanted' \subseteq Tenants
      BY <2>0, <2>1 DEF HandleOrganizationChange, LoadSnapshot
    <3> QED BY <1>2, <3>1, ResetTyped
  <2>2. CASE RefreshDashboard BY <1>2, <2>2 DEF RefreshDashboard, BucketBrowserOK
  <2>3. CASE Reload BY <1>2, <2>0, <2>3, LoadTyped DEF Reload
  <2>4. CASE NextPage
    <3> DEFINE v == [view EXCEPT !.page = listing.page + 1, !.history = Append(view.history, view.page)]
    <3>1. listing.page + 1 \in 0 .. MaxPage BY <2>0, <2>4 DEF NextPage, Listings
    <3>2. Append(view.history, view.page) \in Seq(0 .. MaxPage) BY <2>0 DEF Views
    <3>3. v \in Views BY <2>0, <3>1, <3>2 DEF Views
    <3>4. LoadListing(v) /\ UNCHANGED Dashboard BY <2>0, <2>4 DEF NextPage, Views
    <3> HIDE DEF v
    <3> QED BY <1>2, <3>3, <3>4, LoadTyped
  <2>5. CASE PreviousPage
    <3> DEFINE v == [view EXCEPT !.page = view.history[Len(view.history)],
                                 !.history = SubSeq(view.history, 1, Len(view.history) - 1)]
    <3>0. view.history \in Seq(0 .. MaxPage) /\ view.history # <<>> BY <2>0, <2>5 DEF PreviousPage, Views
    <3>1. /\ view.history[Len(view.history)] \in 0 .. MaxPage
          /\ SubSeq(view.history, 1, Len(view.history) - 1) \in Seq(0 .. MaxPage)
      BY <3>0, LastOfHistory
    <3>3. v \in Views BY <2>0, <3>1 DEF Views
    <3>4. LoadListing(v) /\ UNCHANGED Dashboard BY <2>0, <2>5 DEF PreviousPage, Views
    <3> HIDE DEF v
    <3> QED BY <1>2, <3>3, <3>4, LoadTyped
  <2>6. ASSUME NEW b \in Buckets \cup {Nothing}, SelectBucket(b) PROVE BucketBrowserOK'
    BY <1>2, <2>6, TopIsView, LoadTyped DEF SelectBucket
  <2>7. ASSUME NEW p \in Prefixes, OpenPrefix(p) PROVE BucketBrowserOK'
    <3> DEFINE v == [Top(view.bucket) EXCEPT !.prefix = p]
    <3>1. Top(view.bucket) \in Views BY <2>0, TopIsView DEF Views
    <3>2. v \in Views BY <3>1 DEF Views
    <3> HIDE DEF v
    <3> QED BY <1>2, <2>7, <3>2, LoadTyped DEF OpenPrefix, v
  <2>8. ASSUME NEW a \in asked, Listed(a) PROVE BucketBrowserOK'
    <3>1. a.what \in Listings BY <1>2 DEF BucketBrowserOK
    <3>2. listing' \in Listings \cup {Nothing} /\ busy' \in BOOLEAN
      BY <1>2, <2>0, <2>8, <3>1 DEF Listed, ListBucketObjects, BucketBrowserOK
    <3> QED BY <1>2, <2>8, <3>2 DEF Listed, Dashboard, BucketBrowserOK
  <2>9. CASE UNCHANGED browser BY <1>2, <2>9 DEF browser, BucketBrowserOK
  <2> QED BY <1>2, <2>1, <2>2, <2>3, <2>4, <2>5, <2>6, <2>7, <2>8, <2>9 DEF BucketBrowserNext
<1> QED BY <1>1, <1>2, PTL DEF BucketBrowserSpec

-----------------------------------------------------------------------------
(* Updates of the platform's settings *)

\* What a request still has to write comes after what it has written, in the
\* order of the schema.
InSchemaOrder ==
  \A u \in Updates :
    /\ update[u].at \in {"find", "write"} => DOMAIN update[u].todo # {}
    /\ \A k \in DOMAIN update[u].todo : update[u].todo[k] = Place(k)
    /\ \A k \in SettingKeys, other \in DOMAIN update[u].todo :
         update[u].wrote[k] > 0 => Place(k) < Place(other)

SettingsInv == SettingsOK /\ InSchemaOrder

LEMMA PlaceOfKey ==
  ASSUME NEW k \in SettingKeys
  PROVE  Place(k) \in DOMAIN SettingOrder /\ SettingOrder[Place(k)] = k
BY DEF SettingKeys, Place

LEMMA PlacesAreNumbers == DOMAIN SettingOrder \subseteq Nat
BY PlatformSettingsAssumption

LEMMA TodosAre ==
  ASSUME NEW todo \in Todos
  PROVE  DOMAIN todo \subseteq SettingKeys /\ todo \in [DOMAIN todo -> DOMAIN SettingOrder]
BY DEF Todos

LEMMA TodosHave ==
  ASSUME NEW keys \in SUBSET SettingKeys, NEW todo \in [keys -> DOMAIN SettingOrder]
  PROVE  todo \in Todos
BY DEF Todos

LEMMA FirstIsLeast ==
  ASSUME SettingsInv, NEW u \in Updates, DOMAIN update[u].todo # {}
  PROVE  /\ FirstKey(u) \in DOMAIN update[u].todo /\ FirstKey(u) \in SettingKeys
         /\ \A other \in DOMAIN update[u].todo : Place(FirstKey(u)) <= Place(other)
<1> DEFINE todo == update[u].todo
           places == {todo[k] : k \in DOMAIN todo}
<1>1. todo \in Todos BY DEF SettingsInv, SettingsOK
<1>2. DOMAIN todo \subseteq SettingKeys /\ \A k \in DOMAIN todo : todo[k] \in Nat
  BY <1>1, TodosAre, PlacesAreNumbers
<1>3. PICK n \in places : \A m \in places : n <= m BY <1>2, LeastNumber
<1>4. \E k \in DOMAIN todo : \A other \in DOMAIN todo : todo[k] <= todo[other] BY <1>3
<1>5. /\ FirstKey(u) \in DOMAIN todo
      /\ \A other \in DOMAIN todo : todo[FirstKey(u)] <= todo[other]
  BY <1>4 DEF FirstKey
<1> QED BY <1>2, <1>5 DEF SettingsInv, InSchemaOrder

LEMMA SettingsStart == SettingsInit => SettingsInv
<1> SUFFICES ASSUME SettingsInit PROVE SettingsInv OBVIOUS
<1> DEFINE none == <<>>
<1>1. DOMAIN none = {} OBVIOUS
<1>2. none \in [{} -> DOMAIN SettingOrder] OBVIOUS
<1>3. none \in Todos BY <1>2, TodosHave
<1>4. \A u \in Updates : update[u] = NewUpdate BY DEF SettingsInit
<1>5. SettingsOK BY <1>3 DEF SettingsInit, SettingsOK, NewUpdate, UpdateSteps
<1>6. InSchemaOrder BY <1>1, <1>4 DEF InSchemaOrder, NewUpdate
<1> QED BY <1>5, <1>6 DEF SettingsInv

LEMMA SettingsKeep == ASSUME SettingsInv, [SettingsNext]_settings PROVE SettingsInv'
<1>0. /\ setting \in [SettingKeys -> Nat]
      /\ update \in [Updates -> [at : UpdateSteps, todo : Todos,
                                  expects : [SettingKeys -> Nat \cup {NoUpdate}], seen : Nat,
                                  wrote : [SettingKeys -> Nat]]]
  BY DEF SettingsInv, SettingsOK
<1>1. ASSUME NEW u \in Updates, NEW body \in Bodies, NEW expects \in Expectations,
             PutSettings(u, body, expects)
      PROVE  SettingsInv'
  <2> DEFINE row == [NewUpdate EXCEPT !.at = "find", !.todo = Parsed(body), !.expects = expects]
  <2>1. body \in Todos /\ DOMAIN body # {} BY DEF Bodies
  <2>2. DOMAIN body \subseteq SettingKeys BY <2>1, TodosAre
  <2>3. Parsed(body) \in [DOMAIN body -> DOMAIN SettingOrder] BY <2>2, PlaceOfKey DEF Parsed
  <2>4. Parsed(body) \in Todos BY <2>2, <2>3, TodosHave
  <2>5. expects \in [SettingKeys -> Nat \cup {NoUpdate}] BY PlatformSettingsAssumption
  <2>6. /\ row.at = "find" /\ row.todo = Parsed(body) /\ row.wrote = [k \in SettingKeys |-> 0]
        /\ row \in [at : UpdateSteps, todo : Todos, expects : [SettingKeys -> Nat \cup {NoUpdate}],
                    seen : Nat, wrote : [SettingKeys -> Nat]]
    BY <2>4, <2>5 DEF NewUpdate, UpdateSteps
  <2>7. update' = [update EXCEPT ![u] = row] /\ setting' = setting BY <1>1 DEF PutSettings
  <2> HIDE DEF row
  <2>8. SettingsOK' BY <1>0, <2>6, <2>7 DEF SettingsOK
  <2>9. \A k \in DOMAIN row.todo : row.todo[k] = Place(k) BY <2>6 DEF Parsed
  <2>10. DOMAIN row.todo # {} BY <2>1, <2>6 DEF Parsed
  <2>11. InSchemaOrder' BY <1>0, <2>6, <2>7, <2>9, <2>10 DEF SettingsInv, InSchemaOrder
  <2> QED BY <2>8, <2>11 DEF SettingsInv
<1>2. ASSUME NEW u \in Updates, RollBack(u) PROVE SettingsInv'
  <2>1. SettingsOK' BY <1>0, <1>2 DEF RollBack, SettingsOK, UpdateSteps
  <2>2. InSchemaOrder' BY <1>0, <1>2 DEF RollBack, SettingsInv, InSchemaOrder
  <2> QED BY <2>1, <2>2 DEF SettingsInv
<1>3. ASSUME NEW u \in Updates, FindSetting(u) PROVE SettingsInv'
  <2>1. CASE RollBack(u) BY <1>2, <2>1
  <2>2. CASE /\ UNCHANGED setting
             /\ update' = [update EXCEPT ![u].at = "write", ![u].seen = setting[FirstKey(u)]]
    <3>1. DOMAIN update[u].todo # {} BY <1>3 DEF FindSetting, UpdateAt, SettingsInv, InSchemaOrder
    <3>2. setting[FirstKey(u)] \in Nat BY <1>0, <3>1, FirstIsLeast
    <3>3. SettingsOK'
      <4> DEFINE row == [update[u] EXCEPT !.at = "write", !.seen = setting[FirstKey(u)]]
      <4>1. row \in [at : UpdateSteps, todo : Todos, expects : [SettingKeys -> Nat \cup {NoUpdate}],
                     seen : Nat, wrote : [SettingKeys -> Nat]]
        BY <1>0, <3>2 DEF UpdateSteps
      <4>2. update' = [update EXCEPT ![u] = row] BY <2>2
      <4> HIDE DEF row
      <4> QED BY <1>0, <2>2, <4>1, <4>2 DEF SettingsOK
    <3>4. InSchemaOrder' BY <1>0, <2>2, <3>1 DEF SettingsInv, InSchemaOrder
    <3> QED BY <3>3, <3>4 DEF SettingsInv
  <2> QED BY <1>3, <2>1, <2>2 DEF FindSetting
<1>4. ASSUME NEW u \in Updates, WriteSetting(u) PROVE SettingsInv'
  <2> DEFINE k == FirstKey(u)
             todo == update[u].todo
             to == IF DOMAIN Written(u) = {} THEN "commit" ELSE "find"
  <2>1. CASE RollBack(u) BY <1>2, <2>1
  <2>2. CASE /\ UNCHANGED setting
             /\ update' = [update EXCEPT ![u].at = to, ![u].todo = Written(u),
                                         ![u].wrote[k] = update[u].seen + 1]
    <3>1. DOMAIN todo # {} BY <1>4 DEF WriteSetting, UpdateAt, SettingsInv, InSchemaOrder
    <3>2. /\ k \in DOMAIN todo /\ k \in SettingKeys
          /\ \A other \in DOMAIN todo : Place(k) <= Place(other)
      BY <3>1, FirstIsLeast
    <3>3. DOMAIN todo \subseteq SettingKeys /\ todo \in [DOMAIN todo -> DOMAIN SettingOrder]
      BY <1>0, TodosAre
    <3>4. /\ DOMAIN Written(u) = DOMAIN todo \ {k}
          /\ \A j \in DOMAIN Written(u) : Written(u)[j] = todo[j]
      BY DEF Written
    <3>5. Written(u) \in [DOMAIN todo \ {k} -> DOMAIN SettingOrder] BY <3>3 DEF Written
    <3>6. Written(u) \in Todos BY <3>3, <3>5, TodosHave
    <3>7. update[u].seen + 1 \in Nat /\ to \in UpdateSteps BY <1>0 DEF UpdateSteps
    <3> HIDE DEF k, to
    <3>8. /\ update'[u].at = to /\ update'[u].todo = Written(u)
          /\ update'[u].wrote = [update[u].wrote EXCEPT ![k] = update[u].seen + 1]
          /\ update'[u].expects = update[u].expects /\ update'[u].seen = update[u].seen
          /\ \A v \in Updates : v # u => update'[v] = update[v]
          /\ update' \in [Updates -> [at : UpdateSteps, todo : Todos,
                               expects : [SettingKeys -> Nat \cup {NoUpdate}], seen : Nat,
                               wrote : [SettingKeys -> Nat]]]
      <4> DEFINE new == [update[u] EXCEPT !.at = to, !.todo = Written(u),
                                          !.wrote = [@ EXCEPT ![k] = update[u].seen + 1]]
      <4>1. /\ new.at = to /\ new.todo = Written(u)
            /\ new.wrote = [update[u].wrote EXCEPT ![k] = update[u].seen + 1]
            /\ new.expects = update[u].expects /\ new.seen = update[u].seen
        BY <1>0
      <4>2. new.wrote \in [SettingKeys -> Nat] BY <1>0, <3>2, <3>7, <4>1
      <4>3. new \in [at : UpdateSteps, todo : Todos, expects : [SettingKeys -> Nat \cup {NoUpdate}],
                     seen : Nat, wrote : [SettingKeys -> Nat]]
        BY <1>0, <3>6, <3>7, <4>1, <4>2
      <4>4. update' = [update EXCEPT ![u] = new] BY <2>2
      <4> HIDE DEF new
      <4> QED BY <1>0, <4>1, <4>3, <4>4
    <3>9. SettingsOK' BY <1>0, <2>2, <3>8 DEF SettingsOK
    <3>10. to = "find" => DOMAIN Written(u) # {} BY DEF to
    <3>11. to \in {"find", "commit"} BY DEF to
    <3>12. \A j \in DOMAIN Written(u) : Written(u)[j] = Place(j)
      BY <3>4 DEF SettingsInv, InSchemaOrder
    <3>13. ASSUME NEW j \in SettingKeys, NEW other \in DOMAIN Written(u),
                  update'[u].wrote[j] > 0
           PROVE  Place(j) < Place(other)
      <4>1. CASE j = k
        <5>1. other \in SettingKeys /\ other # k BY <3>3, <3>4
        <5>2. Place(k) # Place(other) BY <3>2, <5>1, PlaceOfKey
        <5>3. Place(k) \in Nat /\ Place(other) \in Nat
          BY <3>2, <5>1, PlaceOfKey, PlacesAreNumbers
        <5>4. Place(k) <= Place(other) BY <3>2, <3>4
        <5> QED BY <4>1, <5>2, <5>3, <5>4
      <4>2. CASE j # k
        <5>1. update[u].wrote[j] > 0 BY <1>0, <3>8, <3>13, <4>2
        <5> QED BY <3>4, <5>1 DEF SettingsInv, InSchemaOrder
      <4> QED BY <4>1, <4>2
    <3>14. ASSUME NEW v \in Updates, v # u, NEW j \in SettingKeys,
                  NEW other \in DOMAIN update[v].todo, update[v].wrote[j] > 0
           PROVE  Place(j) < Place(other)
      BY <3>14 DEF SettingsInv, InSchemaOrder
    <3>15. (\A v \in Updates : update[v].at \in {"find", "write"} => DOMAIN update[v].todo # {})'
      BY <3>8, <3>10, <3>11 DEF SettingsInv, InSchemaOrder
    <3>16. (\A v \in Updates : \A j \in DOMAIN update[v].todo : update[v].todo[j] = Place(j))'
      BY <3>8, <3>12 DEF SettingsInv, InSchemaOrder
    <3>17. (\A v \in Updates : \A j \in SettingKeys, other \in DOMAIN update[v].todo :
              update[v].wrote[j] > 0 => Place(j) < Place(other))'
      BY <3>8, <3>13, <3>14
    <3>18. InSchemaOrder' BY <3>15, <3>16, <3>17 DEF InSchemaOrder
    <3> QED BY <3>9, <3>18 DEF SettingsInv
  <2> QED BY <1>4, <2>1, <2>2 DEF WriteSetting
<1>5. ASSUME NEW u \in Updates, CommitSettings(u) PROVE SettingsInv'
  <2>1. setting' \in [SettingKeys -> Nat] BY <1>0, <1>5 DEF CommitSettings
  <2>2. SettingsOK' BY <1>0, <1>5, <2>1 DEF CommitSettings, SettingsOK, UpdateSteps
  <2>3. InSchemaOrder' BY <1>0, <1>5 DEF CommitSettings, SettingsInv, InSchemaOrder
  <2> QED BY <2>2, <2>3 DEF SettingsInv
<1>6. CASE UNCHANGED settings
  BY <1>6 DEF settings, SettingsInv, SettingsOK, InSchemaOrder
<1> QED BY <1>1, <1>2, <1>3, <1>4, <1>5, <1>6 DEF SettingsNext

LEMMA SettingsInvariant == SettingsSpec => []SettingsInv
BY SettingsStart, SettingsKeep, PTL DEF SettingsSpec

LEMMA SettingsTyped == SettingsSpec => []SettingsOK
<1>1. SettingsInv => SettingsOK BY DEF SettingsInv
<1> QED BY SettingsInvariant, <1>1, PTL

\* Updates never wait for each other in a circle: the one that waits for the last
\* key in the order of the schema waits for one that waits for none.
THEOREM NoUpdatesDeadlock == SettingsSpec => []NoCircularWait
<1>1. ASSUME SettingsInv PROVE NoCircularWait
  <2> SUFFICES ASSUME NEW some \in SUBSET Updates, some # {},
                      \A u \in some : \E v \in some : WaitsFor(u, v)
               PROVE  FALSE
    BY <1>1 DEF NoCircularWait
  <2> DEFINE awaited(u) == Place(FirstKey(u))
             left == {Len(SettingOrder) - awaited(u) : u \in some}
  <2>1. ASSUME NEW u \in some
        PROVE  /\ DOMAIN update[u].todo # {} /\ FirstKey(u) \in SettingKeys
               /\ awaited(u) \in 1 .. Len(SettingOrder) /\ awaited(u) \in Nat
    <3>1. DOMAIN update[u].todo # {}
      BY <1>1, <2>1 DEF WaitsFor, UpdateAt, SettingsInv, InSchemaOrder
    <3>2. FirstKey(u) \in SettingKeys BY <1>1, <3>1, FirstIsLeast
    <3>3. awaited(u) \in 1 .. Len(SettingOrder) /\ awaited(u) \in Nat
      BY <3>2, PlaceOfKey, PlatformSettingsAssumption
    <3> QED BY <3>1, <3>2, <3>3
  <2>2. left \subseteq Nat /\ left # {}
    <3>1. Len(SettingOrder) \in Nat BY PlatformSettingsAssumption
    <3>2. \A u \in some : Len(SettingOrder) - awaited(u) \in Nat
      <4> HIDE DEF awaited
      <4> QED BY <2>1, <3>1
    <3> HIDE DEF awaited
    <3> QED BY <3>2
  <2>3. PICK n \in left : \A m \in left : n <= m BY <2>2, LeastNumber
  <2>4. PICK u \in some : n = Len(SettingOrder) - awaited(u) BY <2>3
  <2>5. PICK v \in some : WaitsFor(u, v) OBVIOUS
  <2>6. FirstKey(v) \in DOMAIN update[v].todo BY <1>1, <2>1, FirstIsLeast
  <2>7. update[v].wrote[FirstKey(u)] > 0 BY <2>5 DEF WaitsFor, Holds
  <2>8. awaited(u) < awaited(v) BY <1>1, <2>1, <2>6, <2>7 DEF SettingsInv, InSchemaOrder
  <2>9. n <= Len(SettingOrder) - awaited(v) BY <2>3
  <2>10. Len(SettingOrder) \in Nat BY PlatformSettingsAssumption
  <2> HIDE DEF awaited
  <2>11. awaited(u) \in Nat /\ awaited(v) \in Nat BY <2>1
  <2> QED BY <2>4, <2>8, <2>9, <2>10, <2>11
<1> QED BY <1>1, SettingsInvariant, PTL
=============================================================================

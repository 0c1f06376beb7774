----------------------------- MODULE WorkerLoop -----------------------------
(***************************************************************************)
(* The worker's process: passes that a timer starts, each of which runs    *)
(* the three reconciliations one after the other and stops at the first    *)
(* that throws, and the shutdown that waits for the pass in flight.        *)
(***************************************************************************)
EXTENDS Naturals

CONSTANT Ticks   \* bound on the timer

ASSUME WorkerLoopAssumption == Ticks \in Nat

VARIABLES
  ticks,     \* how often the timer has fired
  pass,      \* passes that have begun: the step of each, or that it has ended
  running,   \* reconciliationRunning, and activeReconciliation with it
  worker     \* the process

workerLoop == <<ticks, pass, running, worker>>

PassSteps == {"uploads", "migrations", "health", "ended"}
WorkerOK ==
  /\ ticks \in 0 .. Ticks /\ pass \in [0 .. Ticks -> PassSteps \cup {"none"}]
  /\ running \in BOOLEAN /\ worker \in {"up", "draining", "timed out", "stopped"}

InPass == {n \in 0 .. Ticks : pass[n] \notin {"none", "ended"}}

\* The first pass is started before the timer is.
WorkerInit ==
  /\ ticks = 0 /\ pass = [n \in 0 .. Ticks |-> IF n = 0 THEN "uploads" ELSE "none"]
  /\ running = TRUE /\ worker = "up"

\* A tick that finds a pass running, or the shutdown begun, starts none.  (The first
\* form looks at neither.)
AlwaysStarts == TRUE
MayStart == ~running /\ worker = "up"
Timer ==
  /\ pass[0] = "ended" /\ ticks < Ticks /\ worker = "up" /\ ticks' = ticks + 1
  /\ \/ /\ MayStart /\ pass' = [pass EXCEPT ![ticks'] = "uploads"] /\ running' = TRUE
     \/ ~MayStart /\ UNCHANGED <<pass, running>>
  /\ UNCHANGED worker

After == [uploads |-> "migrations", migrations |-> "health", health |-> "ended"]
Step(n, step) ==
  /\ pass' = [pass EXCEPT ![n] = step] /\ running' = (step # "ended")
  /\ UNCHANGED <<ticks, worker>>
Reconcile(n) == n \in InPass /\ Step(n, After[pass[n]])
Throws(n) == n \in InPass /\ Step(n, "ended")

\* The signals are handled once the first pass is over: the timer is cleared, the
\* pass in flight is waited for, for 30 seconds, and the database disconnected.
Stop ==
  /\ pass[0] = "ended" /\ worker = "up" /\ worker' = IF running THEN "draining" ELSE "stopped"
  /\ UNCHANGED <<ticks, pass, running>>
Drained ==
  /\ worker = "draining" /\ (worker' = "timed out" \/ (worker' = "stopped" /\ ~running))
  /\ UNCHANGED <<ticks, pass, running>>

WorkerNext == Timer \/ Stop \/ Drained \/ \E n \in 0 .. Ticks : Reconcile(n) \/ Throws(n)

WorkerSpec == WorkerInit /\ [][WorkerNext]_workerLoop

-----------------------------------------------------------------------------
\* Passes never overlap, however long one takes, and a worker that stopped without
\* a timeout left none unfinished.
OnePass ==
  /\ \A m, n \in InPass : m = n
  /\ worker = "stopped" => InPass = {}
=============================================================================

----------------------------- MODULE Migration -----------------------------
(***************************************************************************)
(* Migration runs: an operator copies every object of a namespace from one *)
(* bucket to another.  The API creates and controls the run; the worker    *)
(* copies the objects and moves each record to its copy.                   *)
(*                                                                         *)
(* A run has one item per object.  An item is named by the location it     *)
(* creates: the copy u of RunOf[u], whose random physical key is chosen    *)
(* when the run is created.  It is as large as the object it was made for, *)
(* so there is a name for each size.  failedItems, attempts and lastError  *)
(* are shown and never read, and are left out.                             *)
(***************************************************************************)
EXTENDS StorageTables

CONSTANTS
  Copies,         \* the locations that migration items create
  Runs,           \* migration runs
  RunOf,          \* the run of a copy
  Buckets, BucketOf,  \* where each location is
  SourceOf,       \* the source bucket of a run
  MaxConcurrent   \* MOSP_MIGRATION_MAX_CONCURRENT_PER_PROVIDER

ASSUME MigrationAssumption ==
  /\ Copies \subseteq Uploads
  /\ RunOf \in [Copies -> Runs]
  /\ BucketOf \in [Uploads -> Buckets] /\ SourceOf \in [Runs -> Buckets]
  /\ \A u \in Copies : BucketOf[u] # SourceOf[RunOf[u]]
  /\ \A u, v \in Copies :
       RunOf[u] = RunOf[v] /\ KeyOf[u] = KeyOf[v] /\ SizeOf[u] = SizeOf[v] => u = v
  /\ MaxConcurrent \in Nat \ {0}

VARIABLES
  run,    \* MigrationRun: its state, totalItems and completedItems
  item,   \* MigrationItem: its state and source location
  task,   \* what the worker does next for an item
  pass,   \* where the worker's migration pass is
  wave,   \* the items the pass waits for
  sweep   \* what the pass does next for an item of a cancelled run

migration == <<run, item, task, pass, wave, sweep>>
rest == <<tables, provider, signed>>

Active == {"CREATED", "RUNNING", "PAUSED"}
RunStates == {"absent", "drafted", "COMPLETED", "CANCELLED"} \cup Active
Unfinished == {"PENDING", "COPYING", "FAILED"}
ItemStates == {"absent", "drafted", "COMPLETED", "SKIPPED"} \cup Unfinished
Copying == {"get", "put", "verify", "switch", "switching", "discard", "undo", "fail"}
TaskSteps == {"none", "listed", "queued"} \cup Copying
SweepSteps == {"none", "erase", "skip"}
Passes == {"idle", "claiming", "copying", "cancelled"}

MigrationOK ==
  /\ run \in [Runs -> [state : RunStates, total : Nat, done : Nat]]
  /\ item \in [Copies -> [state : ItemStates, from : Uploads \cup {NoUpload}]]
  /\ task \in [Copies -> TaskSteps]
  /\ pass \in Passes
  /\ wave \subseteq Copies
  /\ sweep \in [Copies -> SweepSteps]

\* The other runs ended before.
MigrationInit(coming) ==
  /\ run = [r \in Runs |-> [state |-> IF r \in coming THEN "absent" ELSE "COMPLETED",
                            total |-> 0, done |-> 0]]
  /\ item = [u \in Copies |-> [state |-> "absent", from |-> NoUpload]]
  /\ task = [u \in Copies |-> "none"]
  /\ pass = "idle" /\ wave = {} /\ sweep = [u \in Copies |-> "none"]

Items(r) == {u \in Copies : RunOf[u] = r /\ item[u].state # "absent"}
ItemsIn(S) == {u \in Copies : item[u].state \in S}
Tasked(S) == {u \in Copies : task[u] \in S}
Running(u) == run[RunOf[u]].state = "RUNNING"

ItemBecomes(u, state) == item' = [item EXCEPT ![u].state = state]
TaskBecomes(u, step) == task' = [task EXCEPT ![u] = step] /\ UNCHANGED <<pass, wave, sweep>>
SweepBecomes(u, step) == sweep' = [sweep EXCEPT ![u] = step] /\ UNCHANGED <<task, pass, wave>>

\* The pass ends: what it had listed is dropped, the copies under way (except S)
\* go on without it.
PassEnds(S) ==
  /\ task' = [v \in Copies |-> IF v \in S \cup Tasked({"listed", "queued"}) THEN "none" ELSE task[v]]
  /\ pass' = "idle" /\ wave' = {} /\ sweep' = [v \in Copies |-> "none"]

\* One more item of u's run is finished.
CountedDown(u) == run' = [run EXCEPT ![RunOf[u]].done = @ - 1]
Counted(u) == run' = [run EXCEPT ![RunOf[u]].done = @ + 1]

\* A transaction that also writes the migration's rows.
RunTransaction(commit, ok, failed) ==
  /\ \/ commit /\ ok
     \/ commit /\ "database" \in LostAnswers /\ failed
     \/ UNCHANGED <<tables, run, item>> /\ failed
  /\ UNCHANGED <<provider, signed>>

-----------------------------------------------------------------------------
(* The API: create, start, pause, cancel *)

\* The objects whose active location is in the source bucket.
Movable(r) ==
  {k \in Keys : /\ record[k].state = "AVAILABLE"
                /\ location[record[k].at] = "ACTIVE"
                /\ BucketOf[record[k].at] = SourceOf[r]}

\* The item of an object takes its key and its sizeBytes.
Fits(u, r) ==
  /\ RunOf[u] = r /\ KeyOf[u] \in Movable(r)
  /\ SizeOf[u] = SizeOf[record[KeyOf[u]].at]

\* Bound: every object found has a name for its item.
Named(r) == \A k \in Movable(r) : \E u \in Copies : Fits(u, r) /\ KeyOf[u] = k

\* create reads the namespace's runs and its objects ...
CreateRead(r) ==
  /\ run[r].state = "absent" /\ Named(r)
  /\ \A q \in Runs : run[q].state \notin Active
  /\ run' = [run EXCEPT ![r].state = "drafted"]
  /\ item' = [u \in Copies |->
                IF Fits(u, r)
                THEN [state |-> "drafted", from |-> record[KeyOf[u]].at] ELSE item[u]]
  /\ UNCHANGED <<rest, task, pass, wave, sweep>>

\* ... and then inserts what it read; the unique index on a namespace's active
\* runs decides between two requests.
CreateCommit(r) ==
  /\ run[r].state = "drafted"
  /\ \A q \in Runs : run[q].state \notin Active
  /\ run' = [run EXCEPT ![r] = [state |-> "CREATED", total |-> Cardinality(Items(r)), done |-> 0]]
  /\ item' = [u \in Copies |-> IF u \in Items(r) THEN [item[u] EXCEPT !.state = "PENDING"]
                                                 ELSE item[u]]
  /\ UNCHANGED <<rest, task, pass, wave, sweep>>

Control(r, from, to) ==
  /\ run[r].state \in from
  /\ run' = [run EXCEPT ![r].state = to]
  /\ UNCHANGED <<rest, item, task, pass, wave, sweep>>
Start(r) == Control(r, {"CREATED", "PAUSED"}, "RUNNING")
Pause(r) == Control(r, {"RUNNING"}, "PAUSED")
Cancel(r) == Control(r, Active, "CANCELLED")

-----------------------------------------------------------------------------
(* The worker: claim *)

\* Items to copy, oldest first up to the batch size: new ones, failed ones whose
\* retry is due, and COPYING ones older than STALE_COPYING_MS, which a crashed
\* pass left.  (A copy in progress is taken to be younger than that.)
RunnableOnce == {u \in ItemsIn({"PENDING", "FAILED"}) : Running(u) /\ task[u] = "none"}
Runnable == {u \in ItemsIn(Unfinished) : Running(u) /\ task[u] = "none"}

List ==
  /\ pass = "idle"
  /\ \E some \in SUBSET Runnable :
       /\ ItemsIn({"PENDING"}) \cap Runnable \subseteq some
       /\ task' = [u \in Copies |-> IF u \in some THEN "listed" ELSE task[u]]
  /\ pass' = "claiming"
  /\ UNCHANGED <<rest, run, item, wave, sweep>>

\* The claim is guarded by the run's state, not only by the item's.
Claim(u) ==
  /\ pass = "claiming" /\ task[u] = "listed"
  /\ \/ Running(u) /\ ItemBecomes(u, "COPYING") /\ TaskBecomes(u, "queued")
     \/ ~Running(u) /\ TaskBecomes(u, "none") /\ UNCHANGED item
  /\ UNCHANGED <<rest, run>>

\* Queued items run in waves: all items of a run use the same two providers.
WaveDone == Tasked({"listed"}) = {} /\ wave \cap Tasked(Copying) = {}
StartWave ==
  /\ pass \in {"claiming", "copying"} /\ WaveDone
  /\ wave' \in SUBSET Tasked({"queued"}) \ {{}}
  /\ Cardinality(wave') <= MaxConcurrent
  /\ Cardinality(wave') = MaxConcurrent \/ wave' = Tasked({"queued"})
  /\ task' = [u \in Copies |-> IF u \in wave' THEN "get" ELSE task[u]]
  /\ pass' = "copying"
  /\ UNCHANGED <<rest, run, item, sweep>>

-----------------------------------------------------------------------------
(* The worker: copy one item *)

\* A read of the provider: answered, or an error.
Asked(u, step, answer, onError) ==
  /\ task[u] = step
  /\ \/ answer
     \/ TaskBecomes(u, onError)
  /\ UNCHANGED <<rest, run, item>>

\* assertSourceFingerprint and assertSameSourceVersion: the object is there and
\* is the one the item was made for.
SourceUnchanged(u) == blob[item[u].from] = "good"

\* getObject, and the fingerprint of what it returns.
GetSource(u) ==
  Asked(u, "get", SourceUnchanged(u) /\ TaskBecomes(u, "put"), "fail")

Written(u) == blob' = [blob EXCEPT ![u] = "good"] /\ UNCHANGED parts

\* (The first form takes a failed transfer for one that was made before.)
PutCopyTrusted(u) ==
  /\ task[u] = "put"
  /\ Call(Written(u), TaskBecomes(u, "verify"), TaskBecomes(u, "switch"))
  /\ UNCHANGED <<run, item>>
PutCopy(u) ==
  /\ task[u] = "put"
  /\ Call(Written(u), TaskBecomes(u, "verify"), TaskBecomes(u, "fail"))
  /\ UNCHANGED <<run, item>>

\* Both objects are looked at again.
Verify(u) ==
  Asked(u, "verify",
        SourceUnchanged(u) /\ blob[u] = "good" /\ TaskBecomes(u, "switch"), "undo")

\* deleteObject on the copy, after a refused switch and after an error.
DropCopy(u) ==
  /\ task[u] \in {"discard", "undo"}
  /\ LET next == IF task[u] = "undo" THEN "fail" ELSE "none"
     IN  Call(Erased(u), TaskBecomes(u, next), TaskBecomes(u, next))
  /\ UNCHANGED <<run, item>>

\* markFailed.  If it fails too, the pass that waits for it ends while its other
\* copies go on.
FailTxCounted(u) ==
  /\ item' = [item EXCEPT ![u].state = IF @ = "COPYING" THEN "FAILED" ELSE @]
  /\ Counted(u) /\ UNCHANGED tables
FailTx(u) ==
  /\ item' = [item EXCEPT ![u].state = IF @ = "COPYING" THEN "FAILED" ELSE @]
  /\ UNCHANGED <<tables, run>>
MarkFailed(u) ==
  /\ task[u] = "fail"
  /\ RunTransaction(FailTx(u), TaskBecomes(u, "none"),
                    IF u \in wave THEN PassEnds({u}) ELSE TaskBecomes(u, "none"))

-----------------------------------------------------------------------------
(* The worker: switchLocation, one transaction whose checks and writes other  *)
(* transactions can come between                                              *)

Serves(u) == record[KeyOf[u]] = [state |-> "AVAILABLE", at |-> item[u].from]

\* SKIPPED, and counted or not: a run that was not RUNNING does not count it.
SkippedTx(u) ==
  /\ item' = [item EXCEPT ![u].state = IF @ = "COPYING" THEN "SKIPPED" ELSE @]
  /\ UNCHANGED tables
SkipUnstartedTx(u) == ~Running(u) /\ SkippedTx(u) /\ UNCHANGED run
SkipChangedTx(u) == Running(u) /\ ~Serves(u) /\ SkippedTx(u) /\ Counted(u)

SwitchRead(u) ==
  /\ task[u] = "switch"
  /\ \/ RunTransaction(SkipUnstartedTx(u) \/ SkipChangedTx(u),
                       TaskBecomes(u, "discard"), TaskBecomes(u, "undo"))
     \/ /\ Running(u) /\ Serves(u)
        /\ TaskBecomes(u, "switching") /\ UNCHANGED <<rest, run, item>>

Unmoved == UNCHANGED <<session, due, finalized, counters>>

\* The copy becomes ACTIVE and the source RETAINED before the record is looked
\* at again.
Relocated(u, copy) ==
  location' = [v \in Uploads |->
    IF v = u THEN copy
    ELSE IF v = item[u].from /\ location[v] = "ACTIVE" THEN "RETAINED" ELSE location[v]]

Held(u) == item[u].state = "COPYING"
Completed(u) ==
  \/ Held(u) /\ ItemBecomes(u, "COMPLETED") /\ Counted(u)
  \/ ~Held(u) /\ UNCHANGED <<run, item>>

\* The record is moved to the copy and the item completed; the move is committed
\* also when the item is no longer COPYING ...
MoveTxUnguarded(u) ==
  /\ Relocated(u, "ACTIVE")
  /\ record' = [record EXCEPT ![KeyOf[u]] = [state |-> "AVAILABLE", at |-> u]]
  /\ Completed(u) /\ Unmoved
MoveTx(u) ==
  /\ Serves(u)
  /\ Relocated(u, "ACTIVE")
  /\ record' = [record EXCEPT ![KeyOf[u]].at = u]
  /\ Completed(u) /\ Unmoved

\* ... unless a delete or an overwrite came first.
LateTxLeftActive(u) ==
  /\ ~Serves(u)
  /\ Relocated(u, "ACTIVE") /\ UNCHANGED record
  /\ item' = [item EXCEPT ![u].state = IF @ = "COPYING" THEN "SKIPPED" ELSE @]
  /\ Counted(u) /\ Unmoved
LateTx(u) ==
  /\ ~Serves(u)
  /\ Relocated(u, "RETAINED") /\ UNCHANGED record
  /\ item' = [item EXCEPT ![u].state = IF @ = "COPYING" THEN "SKIPPED" ELSE @]
  /\ Counted(u) /\ Unmoved

SwitchCommit(u) ==
  /\ task[u] = "switching"
  /\ \/ RunTransaction(MoveTx(u), TaskBecomes(u, IF Held(u) THEN "none" ELSE "discard"),
                       TaskBecomes(u, "undo"))
     \/ RunTransaction(LateTx(u), TaskBecomes(u, "discard"), TaskBecomes(u, "undo"))

-----------------------------------------------------------------------------
(* The worker: cancelled runs, and runs that are done *)

\* When nothing is left to copy, items of cancelled runs are cleaned up, also one
\* that an earlier pass is still copying.
Copied == pass \in {"claiming", "copying"} /\ WaveDone /\ Tasked({"queued"}) = {}
ListCancelled ==
  /\ Copied
  /\ sweep' = [u \in Copies |->
                 IF item[u].state \in Unfinished /\ run[RunOf[u]].state = "CANCELLED"
                 THEN "erase" ELSE "none"]
  /\ pass' = "cancelled" /\ wave' = {}
  /\ UNCHANGED <<rest, run, item, task>>

EraseCancelled(u) ==
  /\ sweep[u] = "erase"
  /\ Call(Erased(u), SweepBecomes(u, "skip"), SweepBecomes(u, "none"))
  /\ UNCHANGED <<run, item>>

SkipCancelledTx(u) ==
  /\ item[u].state \in Unfinished /\ ItemBecomes(u, "SKIPPED") /\ Counted(u)
  /\ UNCHANGED tables
SkipCancelled(u) ==
  /\ sweep[u] = "skip"
  /\ RunTransaction(SkipCancelledTx(u), SweepBecomes(u, "none"), SweepBecomes(u, "none"))

\* completeEmptyRuns, and the end of the pass.
Swept == pass = "cancelled" /\ \A u \in Copies : sweep[u] = "none"
CompleteRuns ==
  /\ Swept
  /\ run' = [r \in Runs |->
               IF run[r].state = "RUNNING" /\ run[r].done = run[r].total
               THEN [run[r] EXCEPT !.state = "COMPLETED"] ELSE run[r]]
  /\ pass' = "idle"
  /\ UNCHANGED <<rest, item, task, wave, sweep>>

\* A query between the copies fails: nothing catches it, and the pass ends.
PassFails ==
  /\ pass = "claiming" \/ Copied \/ Swept
  /\ PassEnds({}) /\ UNCHANGED <<rest, run, item>>

ControlNext ==
  \E r \in Runs : CreateRead(r) \/ CreateCommit(r) \/ Start(r) \/ Pause(r) \/ Cancel(r)

CopyStep(u) ==
  \/ Claim(u) \/ GetSource(u) \/ PutCopy(u) \/ Verify(u) \/ DropCopy(u) \/ MarkFailed(u)
  \/ SwitchRead(u) \/ SwitchCommit(u)

PassStep ==
  \/ StartWave \/ ListCancelled \/ CompleteRuns
  \/ \E u \in Copies : CopyStep(u) \/ EraseCancelled(u) \/ SkipCancelled(u)
=============================================================================

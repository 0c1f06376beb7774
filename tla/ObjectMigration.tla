--------------------------- MODULE ObjectMigration ---------------------------
(***************************************************************************)
(* Migration runs while objects are deleted and overwritten, and while the *)
(* worker's upload pass finishes deletes and removes retained locations.   *)
(* The worker process runs the two passes in turn.                         *)
(***************************************************************************)
EXTENDS Migration, ObjectDeletion, UploadReconciliation, FiniteSetsExt

CONSTANTS
  Starts,    \* what a namespace may hold when the model starts: the published
             \* attempts, those about to be published, and the runs to come
  Deletable  \* the keys that clients delete

\* A history variable: the locations left ACTIVE when the worker closed their
\* record on a stale list (CloseUnlocated).
VARIABLE strayed

ASSUME StartAssumption ==
  /\ \A s \in Starts :
       /\ s.published \cup s.pending \subseteq Uploads \ Copies
       /\ s.runs \subseteq Runs
       /\ \A u, v \in s.published : KeyOf[u] = KeyOf[v] => u = v
  /\ Deletable \subseteq Keys

vars == <<tables, provider, signed, actors, migration, strayed>>

Bytes(S) == MapThenSumSet(LAMBDA u : SizeOf[u], S)

\* Sessions of published attempts were pruned, other runs had nothing to move.
StartAt(s) ==
  /\ session = [u \in Uploads |-> IF u \in s.published THEN "pruned"
                                  ELSE IF u \in s.pending THEN "INITIATED" ELSE "absent"]
  /\ due = {} /\ finalized = {} /\ parts = {} /\ signed = {}
  /\ usedBytes = Bytes(s.published) /\ objectCount = Cardinality(s.published)
  /\ reservedBytes = Bytes(s.pending) /\ activeUploadCount = Cardinality(s.pending)
  /\ record = [k \in Keys |->
                 IF \E u \in s.published : KeyOf[u] = k
                 THEN [state |-> "AVAILABLE", at |-> CHOOSE u \in s.published : KeyOf[u] = k]
                 ELSE [state |-> "absent", at |-> NoUpload]]
  /\ location = [u \in Uploads |-> IF u \in s.published THEN "ACTIVE" ELSE "absent"]
  /\ blob = [u \in Uploads |-> IF u \in s.published \cup s.pending THEN "good" ELSE "absent"]
  /\ MigrationInit(s.runs)

Init ==
  /\ \E s \in Starts : StartAt(s)
  /\ req = <<>> /\ DeletesInit /\ WorkerInit /\ strayed = {}

\* An upload publishes what it verified (UploadService.complete).
Publish(u) ==
  /\ u \notin Copies /\ PublishTx(u)
  /\ UNCHANGED <<provider, signed, actors, migration, strayed>>

DeleteRequest ==
  /\ DeleteNext /\ UNCHANGED <<migration, strayed>>
  /\ \A d \in Deleters : del'[d] # NoDelete => KeyOf[del'[d].on] \in Deletable

\* The locations of the records that this step closes although they are ACTIVE
\* by now: the records were DELETING and unlocated when listed.
Stale(k) == record[k].state = "DELETING" /\ ~Unlocated(k)
NowStrayed ==
  {record[k].at : k \in {k \in worker.bare : Stale(k) /\ record'[k].state = "DELETED"}}

UploadPass ==
  /\ pass = "idle" /\ WorkerStep /\ UNCHANGED migration
  /\ strayed' = strayed \cup NowStrayed
others == <<actors, strayed>>
BeginPass == worker = Resting /\ List /\ UNCHANGED others
MigrationPass == PassStep /\ UNCHANGED others

\* A pass is broken off, and the copies under way go on.
PassBroken ==
  \/ pass = "idle" /\ WorkerRestart /\ UNCHANGED <<migration, strayed>>
  \/ PassFails /\ UNCHANGED others

\* The worker stops and starts again; what it was copying stays COPYING.
Restart ==
  /\ worker # Resting \/ pass # "idle" \/ Tasked({"none"}) # Copies
  /\ worker' = Resting /\ PassEnds(Copies)
  /\ UNCHANGED <<rest, req, del, run, item, strayed>>

Next ==
  \/ ControlNext /\ UNCHANGED others
  \/ DeleteRequest
  \/ \E u \in Uploads : Publish(u)
  \/ UploadPass \/ BeginPass \/ MigrationPass \/ PassBroken \/ Restart

Spec == Init /\ [][Next]_vars

\* The worker runs on a timer, both passes in turn, and a copy goes on
\* even when the pass that started it has ended.
Fairness ==
  /\ WF_vars(UploadPass) /\ SF_vars(BeginPass) /\ WF_vars(MigrationPass)
  /\ \A u \in Copies : WF_vars(CopyStep(u) /\ UNCHANGED others)

\* A step that no failure and no restart disturbs, at a time when every retry is
\* due.  (An object that is gone is not a failure of the provider.)
Undisturbed ==
  /\ Restart \/ PassBroken => UploadPass \/ CompleteRuns
  /\ BeginPass => {u \in Copies : task'[u] = "listed"} = Runnable
  /\ \A u \in Copies :
       /\ task[u] = "get" /\ blob[item[u].from] = "good" => task'[u] # "fail"
       /\ task[u] = "verify" /\ blob[item[u].from] = "good" => task'[u] # "undo"
       /\ task[u] = "put" => task'[u] # "fail"
       /\ task[u] \in {"switch", "switching"} => task'[u] # "undo"
       /\ task[u] = "fail" /\ task'[u] # "fail" => item'[u].state # "COPYING"

\* In the end failures stop and what was failed becomes due.
FairSpec == Spec /\ Fairness /\ <>[][Undisturbed]_vars

-----------------------------------------------------------------------------
Shown == {record[k].at : k \in {k \in Keys : record[k].state \in {"AVAILABLE", "DELETING"}}}

\* Every variable has its type.
TypeOK == TablesOK /\ DeletesOK /\ WorkerOK /\ MigrationOK

\* No location is left ACTIVE that its record does not show, whatever deletes and
\* overwrites come between the two halves of a switch, unless the worker closed
\* the record on a list that was stale by then.
ActiveIsShown ==
  \A u \in Uploads \ strayed : location[u] = "ACTIVE" => record[KeyOf[u]].at = u

\* A run that is COMPLETED has no item left to copy, although items are counted
\* one by one, by different transactions, over crashes and retries.
CompletedRunIsDone ==
  \A r \in Runs : run[r].state = "COMPLETED" =>
    \A u \in Items(r) : item[u].state \in {"COMPLETED", "SKIPPED"}

\* A migration never brings a deleted object back: a record that is gone is only
\* made again by an upload.
NothingResurrected ==
  [][\A k \in Keys : record[k].state # "AVAILABLE" /\ record'[k].state = "AVAILABLE" =>
       record'[k].at \notin Copies \/ record[k] = [record'[k] EXCEPT !.state = "DELETING"]]_vars

\* Usage is never given back twice, and a copy adds none: what the index shows
\* is always charged.
ShownIsCharged == usedBytes >= Bytes(Shown)

\* A copy only becomes ACTIVE with its verified bytes in place, whatever crashes,
\* broken passes and retries did to them before, unless its run was cancelled
\* during its switch: the cleanup of cancelled runs may have erased them.
LiveCopiesStored ==
  [][\A u \in Copies : location[u] # "ACTIVE" /\ location'[u] = "ACTIVE" =>
       blob[u] = "good" \/ run[RunOf[u]].state = "CANCELLED"]_vars

-----------------------------------------------------------------------------
(* What the repository says and the code does not keep *)

\* A location is switched only to a copy that was verified and is there.
SwitchedIsStored ==
  [][\A u \in Copies : location[u] # "ACTIVE" /\ location'[u] = "ACTIVE" => blob[u] = "good"]_vars

-----------------------------------------------------------------------------
(* Liveness *)

\* A run that keeps running ends, unless an item was skipped without being
\* counted (it was being switched while the run was paused) or the object to be
\* copied is gone (it was deleted, or replaced, after the run was created).
Stuck(r) ==
  LET open == {u \in Items(r) : item[u].state \in Unfinished}
  IN  \/ run[r].done + Cardinality(open) < run[r].total
      \/ \E u \in open : blob[item[u].from] # "good"
RunsSettle ==
  \A r \in Runs : run[r].state = "RUNNING" ~> run[r].state # "RUNNING" \/ Stuck(r)

=============================================================================

------------------------ MODULE UploadReconciliation ------------------------
(***************************************************************************)
(* The worker's reconcile pass.  It lists expired sessions and takes them  *)
(* one by one, then DELETING records, then RETAINED locations, and prunes  *)
(* old sessions.  A list is read once per pass and may be stale by the     *)
(* time an entry is reached.  One pass runs at a time.                     *)
(***************************************************************************)
EXTENDS StorageTables

Phases == {"idle", "uploads", "deleting", "retained"}

\* todo: entries of the phase's list still to take; fin: those listed with
\* providerUploadFinalized; bare: records listed without an ACTIVE location, still
\* to close; on, at: the entry being worked on and its next call.
WorkerOK ==
  worker \in [phase : Phases, todo : SUBSET Uploads, fin : SUBSET Uploads, bare : SUBSET Keys,
              at : {"next", "abort", "erase", "commit"}, on : Uploads \cup {NoUpload}]

Resting == [phase |-> "idle", todo |-> {}, fin |-> {}, bare |-> {}, at |-> "next", on |-> NoUpload]

WorkerInit == worker = Resting

In(phase) == worker.phase = phase
WorkerBecomes(control) == worker' = control /\ UNCHANGED <<req, del>>
Listed(phase, list, unlocated) ==
  WorkerBecomes([phase |-> phase, todo |-> list, fin |-> finalized \cap list,
                 bare |-> unlocated, at |-> "next", on |-> NoUpload])
Work(todo, step, u) ==
  WorkerBecomes([worker EXCEPT !.todo = todo, !.at = step, !.on = u])
Take(u, step) == worker.at = "next" /\ u \in worker.todo /\ Work(worker.todo \ {u}, step, u)
Skip(u) ==
  worker.at = "next" /\ u \in worker.todo /\ Work(worker.todo \ {u}, "next", NoUpload)
Then(step) == Work(worker.todo, step, worker.on)
NextEntry == Work(worker.todo, "next", NoUpload)
ListDone == worker.at = "next" /\ worker.todo = {} /\ worker.bare = {}

untouched == <<tables, provider, signed>>

-----------------------------------------------------------------------------
(* Expired upload sessions *)

ListExpired ==
  /\ In("idle")
  /\ Listed("uploads", Open \cap due, {})
  /\ UNCHANGED untouched

\* An unfinalised multipart session is looked up first: an assembled object is
\* deleted, otherwise its parts are aborted.
\* (The first form aborts without the lookup.)
TakeExpiredUnseen(u) ==
  /\ In("uploads")
  /\ Take(u, IF Multipart(u) /\ u \notin worker.fin THEN "abort" ELSE "erase")
  /\ UNCHANGED untouched
TakeExpired(u) ==
  /\ In("uploads")
  /\ \/ ~(Multipart(u) /\ u \notin worker.fin) /\ Take(u, "erase")
     \/ /\ Multipart(u) /\ u \notin worker.fin
        /\ Take(u, IF blob[u] # "absent" THEN "erase" ELSE "abort")
     \/ Multipart(u) /\ u \notin worker.fin /\ Skip(u)     \* the lookup failed
  /\ UNCHANGED untouched

AbortExpired ==
  /\ In("uploads") /\ worker.at = "abort"
  /\ Call(PartsAborted(worker.on), Then("commit"), NextEntry)

EraseListed ==
  /\ worker.at = "erase"
  /\ Call(Erased(worker.on), Then("commit"), NextEntry)

\* markExpired; a session that is no longer INITIATED is left alone.
MarkExpired ==
  /\ In("uploads") /\ worker.at = "commit"
  /\ Transaction(CloseTx(worker.on, "EXPIRED"), NextEntry, NextEntry)

-----------------------------------------------------------------------------
(* DELETING records *)

ListDeleting ==
  LET bare == {k \in Keys : Unlocated(k)}
      located == {k \in Keys : record[k].state = "DELETING"} \ bare
  IN  /\ In("uploads") /\ ListDone
      /\ Listed("deleting", {record[k].at : k \in located}, bare)
      /\ UNCHANGED untouched

\* A record listed without an ACTIVE location is closed for its state alone, as
\* it is by then.  No catch surrounds this update: an error ends the pass.
CloseUnlocated(k) ==
  /\ In("deleting") /\ worker.at = "next" /\ k \in worker.bare
  /\ Transaction(CloseUnlocatedTx(k),
       WorkerBecomes([worker EXCEPT !.bare = @ \ {k}]), WorkerBecomes(Resting))

\* (The first form leaves the record to the request that claimed it.)
TakeDeletingLeft(u) == In("deleting") /\ Skip(u) /\ UNCHANGED untouched
TakeDeleting(u) == In("deleting") /\ Take(u, "erase") /\ UNCHANGED untouched

\* One entry of the list, whichever it is.
NextDeleting ==
  /\ In("deleting") /\ worker.at = "next"
  /\ (\E u \in Uploads : TakeDeleting(u)) \/ (\E k \in Keys : CloseUnlocated(k))

FinalizeDeleted ==
  /\ In("deleting") /\ worker.at = "commit"
  /\ Transaction(FinalizeTx(worker.on), NextEntry, NextEntry)

-----------------------------------------------------------------------------
(* RETAINED locations and old sessions *)

ListRetained ==
  /\ In("deleting") /\ ListDone
  /\ Listed("retained", {u \in Uploads : location[u] = "RETAINED"}, {})
  /\ UNCHANGED untouched

TakeRetained(u) == In("retained") /\ Take(u, "erase") /\ UNCHANGED untouched

CloseRetained ==
  /\ In("retained") /\ worker.at = "commit"
  /\ Transaction(CloseRetainedTx(worker.on), NextEntry, NextEntry)

\* pruneTerminalSessions, any set of those closed for a day; the pass ends.
Prune ==
  /\ In("retained") /\ ListDone
  /\ \E old \in SUBSET {u \in Uploads : session[u] \in {"COMPLETED", "ABORTED", "EXPIRED"}} :
       PruneTx(old)
  /\ WorkerBecomes(Resting)
  /\ UNCHANGED <<provider, signed>>

\* The worker process stops and starts again, or a query outside a catch fails
\* and ends the pass.
WorkerRestart == worker # Resting /\ WorkerBecomes(Resting) /\ UNCHANGED untouched

WorkerStep ==
  \/ ListExpired \/ AbortExpired \/ EraseListed \/ MarkExpired
  \/ ListDeleting \/ FinalizeDeleted \/ ListRetained \/ CloseRetained \/ Prune
  \/ NextDeleting
  \/ \E u \in Uploads : TakeExpired(u) \/ TakeRetained(u)

WorkerNext == WorkerStep \/ WorkerRestart
=============================================================================

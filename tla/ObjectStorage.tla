---------------------------- MODULE ObjectStorage ----------------------------
(***************************************************************************)
(* The storage gateway, object deletion and the worker over the same       *)
(* tables and the same provider, and what they must keep true together.    *)
(***************************************************************************)
EXTENDS UploadService, ObjectDeletion, UploadReconciliation, FiniteSetsExt

vars == <<tables, provider, signed, actors>>

Init == TablesInit /\ RequestsInit /\ DeletesInit /\ WorkerInit

Next == UploadNext \/ DeleteNext \/ WorkerNext

Spec == Init /\ [][Next]_vars

\* The worker runs on a timer and repeats what failed, so none of its steps
\* fails, or is cut off by a restart, every time it is tried.
WorkerFairness ==
  /\ WF_vars(WorkerStep)
  /\ SF_vars(ListDeleting) /\ SF_vars(ListRetained)
  /\ \A u \in Uploads :
       /\ SF_vars((TakeExpired(u) \/ TakeDeleting(u) \/ TakeRetained(u)) /\ worker'.on = u)
       /\ SF_vars((AbortExpired \/ EraseListed) /\ worker.on = u /\ worker'.at = "commit")
       /\ SF_vars(MarkExpired /\ worker.on = u /\ session'[u] = "EXPIRED")
       /\ SF_vars((FinalizeDeleted \/ CloseRetained) /\ worker.on = u /\ location'[u] = "DELETED")

FairSpec == Spec /\ WorkerFairness

-----------------------------------------------------------------------------
(* Vocabulary *)

Bytes(S) == MapThenSumSet(LAMBDA u : SizeOf[u], S)

\* The locations the object index serves or is deleting.
Indexed == {k \in Keys : record[k].state \in {"AVAILABLE", "DELETING"}}
Stored == {record[k].at : k \in Indexed}

-----------------------------------------------------------------------------
(* Safety *)

\* Every variable has its type, and no counter is negative.
TypeOK == TablesOK /\ RequestsOK /\ DeletesOK /\ WorkerOK

\* No slot of the namespace's upload limit outlives its session: the counter
\* never exceeds the sessions still INITIATED, however completions, aborts,
\* expiry by a request, expiry by the worker and crashes interleave.
ActiveUploadsOwned == activeUploadCount <= Cardinality(Open)

\* No reserved byte outlives its session: whatever the quota still holds back
\* will be given back when the open sessions end.
ReservedBytesOwned == reservedBytes <= Bytes(Open)

\* The counters never promise more than the quota, although the reservation,
\* the publication and the overwrite read and move them in different
\* transactions.
WithinQuota == usedBytes + reservedBytes <= Quota

\* An attempt with a published location is never INITIATED again, so the
\* worker cannot list it as expired and no second completion can claim it.
PublishedSessionClosed ==
  \A u \in Uploads : location[u] # "absent" => session[u] \notin {"absent", "INITIATED"}

\* Two sessions never share an idempotency key, although a retried initiate
\* looks for the first one in a statement of its own.
OneSessionPerToken ==
  \A u, v \in Uploads :
    Exists(u) /\ Exists(v) /\ TokenOf[u] = TokenOf[v] => u = v

\* objectCount counts the objects of the index, those being deleted included,
\* whichever of the request and the worker finalises a delete.
ObjectCountExact == objectCount = Cardinality(Indexed)

\* usedBytes is the size of what the index holds: each publication, overwrite
\* and finalised delete is charged once.
UsedBytesExact == usedBytes = Bytes(Stored)

\* A record shows an object exactly while it is AVAILABLE or DELETING, that
\* object was stored for its key, and the ACTIVE locations are those shown.
IndexAgreesWithLocations ==
  /\ \A k \in Keys :
       IF k \in Indexed
       THEN record[k].at \in Uploads /\ KeyOf[record[k].at] = k
       ELSE record[k].at = NoUpload
  /\ {u \in Uploads : location[u] = "ACTIVE"} = Stored

\* A finalised delete leaves nothing under the physical key, unless the client
\* still holds a url or a proxied transfer that can write it again.
DeletedIsGone ==
  \A u \in Uploads :
    location[u] = "DELETED" => blob[u] = "absent" \/ u \in signed \/ ModeOf[u] = "PROXIED"

-----------------------------------------------------------------------------
(* The contract: every step is a step of ObjectLibrary or changes nothing    *)
(* its clients see.                                                          *)

Fate(u) ==
  IF location[u] # "absent" THEN "kept"
  ELSE IF session[u] = "absent" THEN "new"
  ELSE IF session[u] = "INITIATED" THEN "open"
  ELSE "dropped"

Library == INSTANCE ObjectLibrary WITH
  fate <- [u \in Uploads |-> Fate(u)],
  shelf <- [k \in Keys |-> record[k].at],
  leaving <- {k \in Keys : record[k].state = "DELETING"}

\* An attempt whose reservation was released is never published, a published
\* one is never dropped, and a key a delete holds is not replaced.
ImplementsLibrary == Library!Spec

-----------------------------------------------------------------------------
(* Liveness, when the worker runs and its retries succeed in the end *)

\* A record claimed by a delete is finalised or given back, even if the request
\* that claimed it is lost.
DeletionsSettle ==
  \A k \in Keys : record[k].state = "DELETING" ~> record[k].state # "DELETING"

\* An expired session is closed, whatever the requests on it were doing, unless
\* its multipart upload was aborted before: then the worker finds no object,
\* aborts, and is refused in every pass.  (And unless a reservation was released
\* twice: then the counters' CHECK constraint refuses the rightful release.)
Stranded(u) == Multipart(u) /\ u \notin finalized /\ blob[u] = "absent" /\ u \notin parts
Overdue(u) == session[u] = "INITIATED" /\ u \in due
ReservedExact == reservedBytes = Bytes(Open) /\ activeUploadCount = Cardinality(Open)
ExpiredSessionsClose ==
  []ReservedExact => \A u \in Uploads : Overdue(u) ~> ~Overdue(u) \/ Stranded(u)

-----------------------------------------------------------------------------
(* What the repository says and the code does not keep *)

\* Concurrent uploads cannot cross the quota: what is stored and what open
\* sessions may still store fits in it.
QuotaCoversUploads == Bytes(Stored) + Bytes(Open) <= Quota

\* An available object can be read: its verified data is at the provider.
AvailableIsStored ==
  \A k \in Keys : record[k].state = "AVAILABLE" => blob[record[k].at] = "good"

\* A deleted key can be uploaded again: an open session may publish onto the
\* tombstone.
TombstoneReusable ==
  \A u \in Uploads :
    session[u] = "INITIATED" /\ record[KeyOf[u]].state = "DELETED" => MayPublish(u)

\* Expiry releases the reservation of every session.
ExpiryReleases ==
  []ReservedExact => \A u \in Uploads : Overdue(u) ~> ~Overdue(u)
=============================================================================

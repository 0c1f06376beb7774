--------------------------- MODULE StorageTables ---------------------------
(***************************************************************************)
(* The metadata of one namespace and the objects it owns at the provider,  *)
(* with every database transaction of the upload, delete and cleanup paths *)
(* as an operator.  The actors that run these transactions are in          *)
(* UploadService, ObjectDeletion and UploadReconciliation.                  *)
(*                                                                         *)
(* PostgreSQL runs at READ COMMITTED.  A transaction whose first statement *)
(* is a guarded updateMany holds the row's lock until it commits, so it is *)
(* one step.  Nothing here joins two transactions into one.                *)
(***************************************************************************)
EXTENDS Integers, FiniteSets

CONSTANTS
  Uploads,           \* upload attempts: each has a random id and physical key
  Keys,              \* logical keys
  Credentials,       \* API credentials
  Tokens,            \* client-chosen idempotency keys
  NoUpload,          \* the null location pointer
  KeyOf, SizeOf, ModeOf, TokenOf, CredentialOf,  \* the request of an attempt
  Overwrites,        \* the attempts sent with overwrite: true
  Quota,             \* namespace.quotaBytes
  MaxActive,         \* MAX_ACTIVE_UPLOADS_PER_NAMESPACE
  MaxPerCredential,  \* MAX_ACTIVE_UPLOADS_PER_CREDENTIAL
  DeferredPointer,   \* is the foreign key of a record's location checked at commit?
                     \* FALSE in the migrations
  LostAnswers        \* the services whose answer to a call that took effect can be lost

Modes == {"DIRECT", "MULTIPART", "PROXIED"}

ASSUME RequestAssumption ==
  /\ IsFiniteSet(Uploads) /\ IsFiniteSet(Keys) /\ NoUpload \notin Uploads
  /\ KeyOf \in [Uploads -> Keys]
  /\ SizeOf \in [Uploads -> Nat]
  /\ ModeOf \in [Uploads -> Modes]
  /\ TokenOf \in [Uploads -> Tokens]
  /\ CredentialOf \in [Uploads -> Credentials]
  /\ Overwrites \subseteq Uploads

ASSUME LimitAssumption ==
  /\ Quota \in Nat /\ MaxActive \in Nat /\ MaxPerCredential \in Nat
  /\ DeferredPointer \in BOOLEAN
  /\ LostAnswers \subseteq {"provider", "database"}

VARIABLES
  session,            \* UploadSession.state of each attempt
  due,                \* attempts whose expiresAt has passed
  finalized,          \* attempts with providerUploadFinalized
  usedBytes, reservedBytes, objectCount, activeUploadCount,  \* the UsageCounter row
  record,             \* ObjectRecord of each key: its state and active location
  location,           \* ObjectLocation.state, named by the attempt that stored it
  blob,               \* the object at the provider under each physical key
  parts,              \* attempts with an open multipart upload at the provider
  signed,             \* attempts whose client holds a presigned PUT url
  req, del, worker    \* what upload requests, delete requests and the worker do next

counters == <<usedBytes, reservedBytes, objectCount, activeUploadCount>>
tables == <<session, due, finalized, counters, record, location>>
provider == <<blob, parts>>
actors == <<req, del, worker>>

SessionStates == {"absent", "INITIATED", "COMPLETED", "ABORTED", "EXPIRED", "pruned"}
RecordStates == {"absent", "AVAILABLE", "DELETING", "DELETED"}
LocationStates == {"absent", "ACTIVE", "RETAINED", "DELETED"}

RowsOK ==
  /\ session \in [Uploads -> SessionStates]
  /\ due \subseteq Uploads /\ finalized \subseteq Uploads
  /\ usedBytes \in Nat /\ reservedBytes \in Nat
  /\ objectCount \in Nat /\ activeUploadCount \in Nat
  /\ record \in [Keys -> [state : RecordStates, at : Uploads \cup {NoUpload}]]
  /\ location \in [Uploads -> LocationStates]

ProviderOK ==
  /\ blob \in [Uploads -> {"absent", "good", "bad"}]
  /\ parts \subseteq Uploads /\ signed \subseteq Uploads

TablesOK == RowsOK /\ ProviderOK

TablesInit ==
  /\ session = [u \in Uploads |-> "absent"]
  /\ due = {} /\ finalized = {}
  /\ usedBytes = 0 /\ reservedBytes = 0 /\ objectCount = 0 /\ activeUploadCount = 0
  /\ record = [k \in Keys |-> [state |-> "absent", at |-> NoUpload]]
  /\ location = [u \in Uploads |-> "absent"]
  /\ blob = [u \in Uploads |-> "absent"]
  /\ parts = {} /\ signed = {}

Exists(u) == session[u] \notin {"absent", "pruned"}
Open == {u \in Uploads : session[u] = "INITIATED"}
OpenOf(c) == {u \in Open : CredentialOf[u] = c}
Multipart(u) == ModeOf[u] = "MULTIPART"

-----------------------------------------------------------------------------
(* Calls that can be lost. *)

\* A provider call: it takes effect or not, and an effect may be reported as
\* an error (the answer timed out).
Call(effect, ok, failed) ==
  /\ \/ effect /\ ok
     \/ effect /\ "provider" \in LostAnswers /\ failed
     \/ UNCHANGED provider /\ failed
  /\ UNCHANGED <<tables, signed>>

\* A database transaction: it commits or rolls back, and a commit may be
\* reported as an error (the connection broke).
Transaction(commit, ok, failed) ==
  /\ \/ commit /\ ok
     \/ commit /\ "database" \in LostAnswers /\ failed
     \/ UNCHANGED tables /\ failed
  /\ UNCHANGED <<provider, signed>>

\* deleteObject
Erased(u) == blob' = [blob EXCEPT ![u] = "absent"] /\ UNCHANGED parts

\* abortMultipartUpload: there is nothing to abort once the upload was completed
\* or aborted, and the provider says so (NoSuchUpload).
PartsAborted(u) == u \in parts /\ parts' = parts \ {u} /\ UNCHANGED blob

-----------------------------------------------------------------------------
(* The transactions.  A definition whose name says what it gets wrong         *)
(* (Unchecked, OffByOne, ...) is a wrong form of the one below it, kept to    *)
(* show that the properties notice; nothing uses it.                         *)

\* The update of the locked UsageCounter row; its CHECK constraint aborts a
\* transaction that would make a counter negative.
AccountUnchecked(used, reserved, objects, active) ==
  /\ usedBytes' = usedBytes + used
  /\ reservedBytes' = reservedBytes + reserved
  /\ objectCount' = objectCount + objects
  /\ activeUploadCount' = activeUploadCount + active
Account(used, reserved, objects, active) ==
  /\ usedBytes + used >= 0 /\ reservedBytes + reserved >= 0
  /\ objectCount + objects >= 0 /\ activeUploadCount + active >= 0
  /\ usedBytes' = usedBytes + used
  /\ reservedBytes' = reservedBytes + reserved
  /\ objectCount' = objectCount + objects
  /\ activeUploadCount' = activeUploadCount + active

\* The unique index on (organization, namespace, idempotency key).
FreshTokenUnchecked(u) == TRUE
FreshToken(u) == \A v \in Uploads : TokenOf[v] = TokenOf[u] => ~Exists(v)

\* The slots of the namespace and of the credential.
UnderLimits(u) ==
  activeUploadCount < MaxActive /\ Cardinality(OpenOf(CredentialOf[u])) < MaxPerCredential

FitsQuotaUnreserved(u) == usedBytes + SizeOf[u] <= Quota
FitsQuota(u) == usedBytes + reservedBytes + SizeOf[u] <= Quota

\* UploadService.initiate: limits and quota under the counter's lock, then the
\* reservation and the session row, unique per idempotency key.
ReserveTx(u) ==
  /\ session[u] = "absent"
  /\ UnderLimits(u) /\ FitsQuota(u) /\ FreshToken(u)
  /\ Account(0, SizeOf[u], 0, 1)
  /\ session' = [session EXCEPT ![u] = "INITIATED"]
  /\ UNCHANGED <<due, finalized, record, location>>

\* UploadService.complete: providerUploadFinalized, while still INITIATED.
MarkFinalizedTx(u) ==
  /\ session[u] = "INITIATED"
  /\ finalized' = finalized \cup {u}
  /\ UNCHANGED <<session, due, counters, record, location>>

\* The row of an existing record is pointed at the new location before that
\* location is inserted.
PointerHolds(u) == DeferredPointer \/ location[u] # "absent"

\* The session is claimed, and the locked record is one it may replace.
MayPublishOverDelete(u) ==
  LET old == record[KeyOf[u]]
  IN  /\ session[u] = "INITIATED"
      /\ old.state # "absent" => PointerHolds(u)
      /\ old.state = "AVAILABLE" => u \in Overwrites
MayPublishUnclaimed(u) ==
  LET old == record[KeyOf[u]]
  IN  /\ old.state \in {"absent", "AVAILABLE", "DELETED"}
      /\ old.state # "absent" => PointerHolds(u)
      /\ old.state = "AVAILABLE" => u \in Overwrites
MayPublish(u) ==
  LET old == record[KeyOf[u]]
  IN  /\ session[u] = "INITIATED"
      /\ old.state \in {"absent", "AVAILABLE", "DELETED"}
      /\ old.state # "absent" => PointerHolds(u)
      /\ old.state = "AVAILABLE" => u \in Overwrites

\* usageDelta: an overwrite is charged the difference of the sizes.
UsageDeltaWhole(u, old) == SizeOf[u]
UsageDelta(u, old) ==
  IF old.state = "AVAILABLE" THEN SizeOf[u] - SizeOf[old.at] ELSE SizeOf[u]

\* The new location is ACTIVE, a replaced one RETAINED.
LocatedBoth(u, old) == [location EXCEPT ![u] = "ACTIVE"]
Located(u, old) ==
  [v \in Uploads |->
     IF v = u THEN "ACTIVE"
     ELSE IF old.state = "AVAILABLE" /\ v = old.at /\ location[v] = "ACTIVE" THEN "RETAINED"
     ELSE location[v]]

\* UploadService.complete: claim the session, publish the location, move the
\* reservation into usage and close the session.
PublishTx(u) ==
  LET old == record[KeyOf[u]]
  IN  /\ MayPublish(u)
      /\ Account(UsageDelta(u, old), -SizeOf[u], IF old.state = "AVAILABLE" THEN 0 ELSE 1, -1)
      /\ location' = Located(u, old)
      /\ record' = [record EXCEPT ![KeyOf[u]] = [state |-> "AVAILABLE", at |-> u]]
      /\ session' = [session EXCEPT ![u] = "COMPLETED"]
      /\ UNCHANGED <<due, finalized>>

\* UploadService.releaseReservation and expire: the update is by id only, its
\* guard was read by an earlier statement.
ReleaseTxSlotOnly(u, outcome) ==
  /\ Exists(u)
  /\ Account(0, 0, 0, -1)
  /\ session' = [session EXCEPT ![u] = outcome]
  /\ UNCHANGED <<due, finalized, record, location>>
ReleaseTxBytesOnly(u, outcome) ==
  /\ Exists(u)
  /\ Account(0, -SizeOf[u], 0, 0)
  /\ session' = [session EXCEPT ![u] = outcome]
  /\ UNCHANGED <<due, finalized, record, location>>
ReleaseTx(u, outcome) ==
  /\ Exists(u)
  /\ Account(0, -SizeOf[u], 0, -1)
  /\ session' = [session EXCEPT ![u] = outcome]
  /\ UNCHANGED <<due, finalized, record, location>>

\* UploadService.abort and the worker's markExpired: the same release, guarded
\* by the update itself.
CloseTx(u, outcome) == session[u] = "INITIATED" /\ ReleaseTx(u, outcome)

\* Delete, first transaction: claim the record that was read.
ClaimTx(u) ==
  /\ record[KeyOf[u]] = [state |-> "AVAILABLE", at |-> u]
  /\ record' = [record EXCEPT ![KeyOf[u]] = [state |-> "DELETING", at |-> u]]
  /\ UNCHANGED <<session, due, finalized, counters, location>>

\* Delete, after a provider failure: whoever claimed the record, and whatever
\* happened to it since.
RevertTxUnguarded(u) ==
  /\ record' = [record EXCEPT ![KeyOf[u]] = [state |-> "AVAILABLE", at |-> @.at]]
  /\ UNCHANGED <<session, due, finalized, counters, location>>
RevertTx(u) ==
  /\ record' = [record EXCEPT ![KeyOf[u]] =
                  IF @.state = "DELETING" THEN [state |-> "AVAILABLE", at |-> @.at] ELSE @]
  /\ UNCHANGED <<session, due, finalized, counters, location>>

\* Delete, last transaction, run by the request or by the worker.
FinalizeTx(u) ==
  /\ record[KeyOf[u]] = [state |-> "DELETING", at |-> u]
  /\ Account(-SizeOf[u], 0, -1, 0)
  /\ record' = [record EXCEPT ![KeyOf[u]] = [state |-> "DELETED", at |-> NoUpload]]
  /\ location' = [location EXCEPT ![u] = IF @ = "ACTIVE" THEN "DELETED" ELSE @]
  /\ UNCHANGED <<session, due, finalized>>

\* The worker's cleanup: a DELETING record that was listed without an ACTIVE
\* location is closed, its usage kept, with no second look at the location; a
\* RETAINED location whose object is gone is closed; and sessions closed for a
\* day are removed.
Unlocated(k) ==
  /\ record[k].state = "DELETING"
  /\ record[k].at = NoUpload \/ location[record[k].at] # "ACTIVE"

CloseUnlocatedTx(k) ==
  /\ record' = [record EXCEPT ![k] =
                  IF @.state = "DELETING" THEN [state |-> "DELETED", at |-> NoUpload] ELSE @]
  /\ UNCHANGED <<session, due, finalized, counters, location>>

CloseRetainedTx(u) ==
  /\ location[u] = "RETAINED"
  /\ location' = [location EXCEPT ![u] = "DELETED"]
  /\ UNCHANGED <<session, due, finalized, counters, record>>

PruneTx(old) ==
  /\ session' = [u \in Uploads |-> IF u \in old THEN "pruned" ELSE session[u]]
  /\ UNCHANGED <<due, finalized, counters, record, location>>

\* A session's expiresAt passes.
PassTx(u) ==
  /\ session[u] = "INITIATED" /\ u \notin due
  /\ due' = due \cup {u}
  /\ UNCHANGED <<session, finalized, counters, record, location>>
=============================================================================

------------------------ MODULE ObjectStorageProofs ------------------------
(***************************************************************************)
(* What holds of the storage core for every number of uploads, keys,       *)
(* requests and deleters.                                                  *)
(***************************************************************************)
EXTENDS ObjectStorage, SumTheorems

\* Whoever is at work is at work on an attempt, and the worker never lists a
\* DELETING record without an ACTIVE location: while nothing is migrated, the
\* branch that closes one and keeps its usage is dead.
OnUploads ==
  /\ \A r \in Requests : req[r].at # "idle" => req[r].on \in Uploads
  /\ \A d \in Deleters : del[d].at # "idle" => del[d].on \in Uploads
  /\ worker.at # "next" => worker.on \in Uploads
  /\ worker.bare = {}

\* What a step can do to the tables: one transaction, or nothing.
TableStep ==
  \/ UNCHANGED tables
  \/ \E u \in Uploads :
       \/ ReserveTx(u) \/ MarkFinalizedTx(u) \/ PublishTx(u)
       \/ ReleaseTx(u, "ABORTED") \/ ReleaseTx(u, "EXPIRED")
       \/ ClaimTx(u) \/ RevertTx(u) \/ FinalizeTx(u)
       \/ CloseRetainedTx(u) \/ PassTx(u)
  \/ \E old \in SUBSET {u \in Uploads : session[u] \in {"COMPLETED", "ABORTED", "EXPIRED"}} :
       PruneTx(old)

-----------------------------------------------------------------------------

LEMMA UploadTables == ASSUME OnUploads, UploadNext PROVE TableStep
<1>1. ASSUME NEW r \in Requests, NEW u \in Uploads,
             \/ Initiate(r, u) \/ ProxyUpload(r, u) \/ PresignPart(r, u)
             \/ Complete(r, u) \/ Abort(r, u)
      PROVE  UNCHANGED tables
  BY <1>1 DEF Initiate, ProxyUpload, PresignPart, Complete, ReadSession, Abort, store
<1>2. ASSUME NEW r \in Requests,
             \/ CreateMultipart(r) \/ AbortUnreserved(r) \/ Presign(r) \/ PutProxied(r)
             \/ CompleteProxied(r) \/ Assemble(r) \/ Head(r) \/ DeleteReplaced(r)
             \/ CleanupFailed(r) \/ CleanupFinalized(r) \/ AbortErase(r)
             \/ ReleaseRead(r) \/ RequestLost(r)
      PROVE  UNCHANGED tables
  BY <1>2 DEF CreateMultipart, AbortUnreserved, Presign, PutProxied, CompleteProxied,
       ReadSession, Assemble, Head, DeleteReplaced, CleanupFailed, CleanupFinalized,
       AbortErase, ReleaseRead, RequestLost, Call, store
<1>3. ASSUME NEW r \in Requests,
             Reserve(r) \/ MarkFinalized(r) \/ Publish(r) \/ AbortCommit(r) \/ ReleaseCommit(r)
      PROVE  TableStep
  <2>1. req[r].on \in Uploads
    BY <1>3 DEF OnUploads, Reserve, MarkFinalized, Publish, AbortCommit, ReleaseCommit, At
  <2>2. CASE Reserve(r)       BY <2>1, <2>2 DEF Reserve, Transaction, TableStep
  <2>3. CASE MarkFinalized(r) BY <2>1, <2>3 DEF MarkFinalized, Transaction, TableStep
  <2>4. CASE Publish(r)       BY <2>1, <2>4 DEF Publish, Transaction, TableStep
  <2>5. CASE AbortCommit(r)   BY <2>1, <2>5 DEF AbortCommit, Transaction, CloseTx, TableStep
  <2>6. CASE ReleaseCommit(r) BY <2>1, <2>6 DEF ReleaseCommit, Transaction, TableStep
  <2> QED BY <1>3, <2>2, <2>3, <2>4, <2>5, <2>6
<1>4. ASSUME NEW u \in Uploads, InitiateAgain(u) \/ ClientPut(u) \/ Expires(u)
      PROVE  TableStep
  BY <1>4 DEF InitiateAgain, ClientPut, Expires, TableStep
<1> QED BY <1>1, <1>2, <1>3, <1>4 DEF UploadNext, TableStep

LEMMA DeleteTables == ASSUME OnUploads, DeleteNext PROVE TableStep
<1>1. ASSUME NEW d \in Deleters, NEW k \in Keys, Delete(d, k) PROVE UNCHANGED tables
  BY <1>1 DEF Delete
<1>2. ASSUME NEW d \in Deleters, DeleteErase(d) \/ DeleteLost(d) PROVE UNCHANGED tables
  BY <1>2 DEF DeleteErase, DeleteLost, Call
<1>3. ASSUME NEW d \in Deleters, DeleteClaim(d) \/ DeleteRevert(d) \/ DeleteFinalize(d)
      PROVE  TableStep
  <2>1. del[d].on \in Uploads
    BY <1>3 DEF OnUploads, DeleteClaim, DeleteRevert, DeleteFinalize, DeleteAt
  <2>2. CASE DeleteClaim(d)    BY <2>1, <2>2 DEF DeleteClaim, Transaction, TableStep
  <2>3. CASE DeleteRevert(d)   BY <2>1, <2>3 DEF DeleteRevert, Transaction, TableStep
  <2>4. CASE DeleteFinalize(d) BY <2>1, <2>4 DEF DeleteFinalize, Transaction, TableStep
  <2> QED BY <1>3, <2>2, <2>3, <2>4
<1> QED BY <1>1, <1>2, <1>3 DEF DeleteNext, TableStep

LEMMA WorkerTables == ASSUME OnUploads, WorkerNext PROVE TableStep
<1>1. ASSUME NEW u \in Uploads, TakeExpired(u) \/ TakeDeleting(u) \/ TakeRetained(u)
      PROVE  UNCHANGED tables
  BY <1>1 DEF TakeExpired, TakeDeleting, TakeRetained, untouched
<1>2. ASSUME \/ ListExpired \/ ListDeleting \/ ListRetained \/ AbortExpired \/ EraseListed
             \/ WorkerRestart
      PROVE  UNCHANGED tables
  BY <1>2 DEF ListExpired, ListDeleting, ListRetained, AbortExpired, EraseListed,
       WorkerRestart, Call, untouched
<1>3. ASSUME MarkExpired \/ FinalizeDeleted \/ CloseRetained PROVE TableStep
  <2>1. worker.on \in Uploads
    BY <1>3 DEF OnUploads, MarkExpired, FinalizeDeleted, CloseRetained
  <2>2. CASE MarkExpired     BY <2>1, <2>2 DEF MarkExpired, Transaction, CloseTx, TableStep
  <2>3. CASE FinalizeDeleted BY <2>1, <2>3 DEF FinalizeDeleted, Transaction, TableStep
  <2>4. CASE CloseRetained   BY <2>1, <2>4 DEF CloseRetained, Transaction, TableStep
  <2> QED BY <1>3, <2>2, <2>3, <2>4
<1>4. \A k \in Keys : ~CloseUnlocated(k) BY DEF OnUploads, CloseUnlocated
<1>5. CASE Prune BY <1>5 DEF Prune, TableStep
<1> QED BY <1>1, <1>2, <1>3, <1>4, <1>5 DEF WorkerNext, WorkerStep, NextDeleting, TableStep

\* A step of the system is one transaction on the tables, or leaves them alone.
LEMMA NextTables == ASSUME OnUploads, [Next]_vars PROVE TableStep
BY UploadTables, DeleteTables, WorkerTables DEF Next, vars, TableStep

-----------------------------------------------------------------------------
(* The tables' invariants, one transaction at a time. *)

LEMMA RowsStep == ASSUME RowsOK, IndexAgreesWithLocations, TableStep PROVE RowsOK'
<1> USE RequestAssumption, LimitAssumption DEF counters
<1>1. CASE UNCHANGED tables BY <1>1 DEF tables, RowsOK
<1>2. ASSUME NEW u \in Uploads, ReserveTx(u) PROVE RowsOK'
  BY <1>2 DEF ReserveTx, Account, RowsOK, SessionStates
<1>3. ASSUME NEW u \in Uploads, MarkFinalizedTx(u) PROVE RowsOK'
  BY <1>3 DEF MarkFinalizedTx, RowsOK
<1>4. ASSUME NEW u \in Uploads, PublishTx(u) PROVE RowsOK'
  <2> DEFINE old == record[KeyOf[u]]
  <2>1. KeyOf[u] \in Keys OBVIOUS
  <2>2. old.state = "AVAILABLE" => old.at \in Uploads
    BY <2>1 DEF IndexAgreesWithLocations, Indexed
  <2>3. /\ usedBytes' \in Nat /\ reservedBytes' \in Nat
        /\ objectCount' \in Nat /\ activeUploadCount' \in Nat
    BY <1>4, <2>2 DEF PublishTx, UsageDelta, Account, RowsOK
  <2>4. location' \in [Uploads -> LocationStates]
    BY <1>4 DEF PublishTx, Located, RowsOK, LocationStates
  <2>5. record' \in [Keys -> [state : RecordStates, at : Uploads \cup {NoUpload}]]
    BY <1>4 DEF PublishTx, RowsOK, RecordStates
  <2>6. session' \in [Uploads -> SessionStates]
    BY <1>4 DEF PublishTx, RowsOK, SessionStates
  <2> QED BY <1>4, <2>3, <2>4, <2>5, <2>6 DEF PublishTx, RowsOK
<1>5. ASSUME NEW u \in Uploads, ReleaseTx(u, "ABORTED") \/ ReleaseTx(u, "EXPIRED")
      PROVE  RowsOK'
  BY <1>5 DEF ReleaseTx, Account, RowsOK, SessionStates
<1>6. ASSUME NEW u \in Uploads, ClaimTx(u) \/ RevertTx(u) PROVE RowsOK'
  <2>1. record' \in [Keys -> [state : RecordStates, at : Uploads \cup {NoUpload}]]
    BY <1>6 DEF ClaimTx, RevertTx, RowsOK, RecordStates
  <2> QED BY <1>6, <2>1 DEF ClaimTx, RevertTx, RowsOK
<1>7. ASSUME NEW u \in Uploads, FinalizeTx(u) PROVE RowsOK'
  <2>1. record' \in [Keys -> [state : RecordStates, at : Uploads \cup {NoUpload}]]
    BY <1>7 DEF FinalizeTx, RowsOK, RecordStates
  <2>2. location' \in [Uploads -> LocationStates]
    BY <1>7 DEF FinalizeTx, RowsOK, LocationStates
  <2> QED BY <1>7, <2>1, <2>2 DEF FinalizeTx, Account, RowsOK
<1>8. ASSUME NEW u \in Uploads, CloseRetainedTx(u) \/ PassTx(u) PROVE RowsOK'
  BY <1>8 DEF CloseRetainedTx, PassTx, RowsOK, LocationStates
<1>9. ASSUME NEW old, PruneTx(old) PROVE RowsOK'
  BY <1>9 DEF PruneTx, RowsOK, SessionStates
<1> QED BY <1>1, <1>2, <1>3, <1>4, <1>5, <1>6, <1>7, <1>8, <1>9 DEF TableStep

LEMMA PublishedStep ==
  ASSUME RowsOK, PublishedSessionClosed, TableStep PROVE PublishedSessionClosed'
<1> USE RequestAssumption DEF counters, RowsOK, PublishedSessionClosed
<1>1. CASE UNCHANGED tables BY <1>1 DEF tables
<1>2. ASSUME NEW u \in Uploads, ReserveTx(u) PROVE PublishedSessionClosed'
  BY <1>2 DEF ReserveTx
<1>3. ASSUME NEW u \in Uploads, MarkFinalizedTx(u) \/ PassTx(u) \/ ClaimTx(u) \/ RevertTx(u)
      PROVE  PublishedSessionClosed'
  BY <1>3 DEF MarkFinalizedTx, PassTx, ClaimTx, RevertTx
<1>4. ASSUME NEW u \in Uploads, PublishTx(u) PROVE PublishedSessionClosed'
  <2>1. \A v \in Uploads : location'[v] # "absent" => v = u \/ location[v] # "absent"
    BY <1>4 DEF PublishTx, Located
  <2> QED BY <1>4, <2>1 DEF PublishTx
<1>5. ASSUME NEW u \in Uploads, ReleaseTx(u, "ABORTED") \/ ReleaseTx(u, "EXPIRED")
      PROVE  PublishedSessionClosed'
  BY <1>5 DEF ReleaseTx
<1>6. ASSUME NEW u \in Uploads, FinalizeTx(u) \/ CloseRetainedTx(u)
      PROVE  PublishedSessionClosed'
  BY <1>6 DEF FinalizeTx, CloseRetainedTx
<1>7. ASSUME NEW old, PruneTx(old) PROVE PublishedSessionClosed'
  BY <1>7 DEF PruneTx
<1> QED BY <1>1, <1>2, <1>3, <1>4, <1>5, <1>6, <1>7 DEF TableStep

\* The same agreement, one attempt at a time: an attempt is ACTIVE exactly when
\* the record of its key shows it.
Shown(u) == KeyOf[u] \in Indexed /\ record[KeyOf[u]].at = u

LEMMA IndexByAttempt ==
  ASSUME RowsOK
  PROVE  IndexAgreesWithLocations <=>
           /\ \A k \in Keys :
                IF k \in Indexed
                THEN record[k].at \in Uploads /\ KeyOf[record[k].at] = k
                ELSE record[k].at = NoUpload
           /\ \A u \in Uploads : location[u] = "ACTIVE" <=> Shown(u)
BY RequestAssumption DEF IndexAgreesWithLocations, Shown, Stored, Indexed

\* While the index agrees with the locations, no DELETING record lacks one.
LEMMA NoneUnlocated ==
  ASSUME RowsOK, IndexAgreesWithLocations
  PROVE  \A k \in Keys : ~Unlocated(k)
BY IndexByAttempt, RequestAssumption DEF Unlocated, Indexed, Shown

LEMMA IndexStep ==
  ASSUME RowsOK, RowsOK', PublishedSessionClosed, IndexAgreesWithLocations, TableStep
  PROVE  IndexAgreesWithLocations'
<1> DEFINE Pointers == \A k \in Keys :
             IF k \in Indexed
             THEN record[k].at \in Uploads /\ KeyOf[record[k].at] = k
             ELSE record[k].at = NoUpload
           Shows == \A u \in Uploads : location[u] = "ACTIVE" <=> Shown(u)
<1>0. Pointers /\ Shows
  BY IndexByAttempt
<1>a. SUFFICES Pointers' /\ Shows'
  <2>1. IndexAgreesWithLocations' <=> Pointers' /\ Shows'
    BY IndexByAttempt, PTL
  <2> QED BY <2>1
<1>1. ASSUME UNCHANGED <<record, location>> PROVE Pointers' /\ Shows'
  BY <1>0, <1>1 DEF Indexed, Shown
<1>2. ASSUME NEW u \in Uploads,
             \/ ReserveTx(u) \/ MarkFinalizedTx(u) \/ PassTx(u)
             \/ ReleaseTx(u, "ABORTED") \/ ReleaseTx(u, "EXPIRED")
      PROVE  UNCHANGED <<record, location>>
  BY <1>2 DEF ReserveTx, MarkFinalizedTx, PassTx, ReleaseTx
<1>3. ASSUME NEW u \in Uploads, PublishTx(u) PROVE Pointers' /\ Shows'
  <2>1. location[u] = "absent" /\ KeyOf[u] \in Keys
    BY <1>3, RequestAssumption DEF PublishTx, MayPublish, PublishedSessionClosed
  <2>2. record'[KeyOf[u]] = [state |-> "AVAILABLE", at |-> u]
    BY <1>3, <2>1 DEF PublishTx, RowsOK
  <2>3. \A k \in Keys : k # KeyOf[u] => record'[k] = record[k]
    BY <1>3, <2>1 DEF PublishTx, RowsOK
  <2>4. Pointers'
    BY <1>0, <2>1, <2>2, <2>3 DEF Indexed
  <2>5. record[KeyOf[u]].state # "DELETING"
    BY <1>3 DEF PublishTx, MayPublish
  <2>6. ASSUME NEW v \in Uploads PROVE location'[v] = "ACTIVE" <=> Shown(v)'
    <3>0. location'[u] = "ACTIVE" BY <1>3 DEF PublishTx, Located
    <3>1. CASE v = u BY <3>0, <3>1, <2>1, <2>2 DEF Indexed, Shown
    <3>2. CASE v # u /\ KeyOf[v] # KeyOf[u]
      <4>1. Shown(v)' <=> Shown(v)
        BY <3>2, <2>3, RequestAssumption DEF Shown, Indexed
      <4>2. record[KeyOf[u]].state = "AVAILABLE" => record[KeyOf[u]].at # v
        BY <1>0, <3>2, <2>1 DEF Indexed
      <4>3. location'[v] = location[v] BY <1>3, <3>2, <4>2 DEF PublishTx, Located
      <4> QED BY <1>0, <4>1, <4>3
    <3>3. CASE v # u /\ KeyOf[v] = KeyOf[u]
      <4>1. ~Shown(v)' BY <3>3, <2>2 DEF Shown
      <4>2. location[v] = "ACTIVE" =>
              record[KeyOf[u]].state = "AVAILABLE" /\ record[KeyOf[u]].at = v
        BY <1>0, <3>3, <2>5 DEF Shown, Indexed
      <4>3. location'[v] # "ACTIVE" BY <1>3, <3>3, <4>2 DEF PublishTx, Located
      <4> QED BY <4>1, <4>3
    <3> QED BY <3>1, <3>2, <3>3
  <2> QED BY <2>4, <2>6
<1>4. ASSUME NEW u \in Uploads, ClaimTx(u) \/ RevertTx(u) PROVE Pointers' /\ Shows'
  <2>1. /\ location' = location
        /\ \A k \in Keys : record'[k].at = record[k].at
    BY <1>4 DEF ClaimTx, RevertTx, RowsOK
  <2>2. \A k \in Keys : record[k].state \in {"AVAILABLE", "DELETING"}
                        <=> record'[k].state \in {"AVAILABLE", "DELETING"}
    BY <1>4 DEF ClaimTx, RevertTx, RowsOK
  <2>3. Indexed' = Indexed BY <2>2 DEF Indexed
  <2> QED BY <1>0, <2>1, <2>3, RequestAssumption DEF Shown
<1>5. ASSUME NEW u \in Uploads, FinalizeTx(u) PROVE Pointers' /\ Shows'
  <2>1. KeyOf[u] \in Keys /\ Shown(u) /\ location[u] = "ACTIVE"
    BY <1>0, <1>5, RequestAssumption DEF FinalizeTx, Shown, Indexed
  <2>2. record'[KeyOf[u]] = [state |-> "DELETED", at |-> NoUpload]
    BY <1>5, <2>1 DEF FinalizeTx, RowsOK
  <2>3. \A k \in Keys : k # KeyOf[u] => record'[k] = record[k]
    BY <1>5 DEF FinalizeTx, RowsOK
  <2>4. location' = [location EXCEPT ![u] = "DELETED"]
    BY <1>5, <2>1 DEF FinalizeTx
  <2>5. Pointers' BY <1>0, <2>2, <2>3 DEF Indexed
  <2>6. ASSUME NEW v \in Uploads PROVE location'[v] = "ACTIVE" <=> Shown(v)'
    <3>1. CASE KeyOf[v] = KeyOf[u]
      <4>1. ~Shown(v)' BY <3>1, <2>2 DEF Shown, Indexed
      <4>2. v # u => location[v] # "ACTIVE" BY <1>0, <2>1, <3>1 DEF Shown
      <4>3. location'[v] # "ACTIVE" BY <2>4, <4>2 DEF RowsOK
      <4> QED BY <4>1, <4>3
    <3>2. CASE KeyOf[v] # KeyOf[u]
      <4>1. Shown(v)' <=> Shown(v) BY <3>2, <2>3, RequestAssumption DEF Shown, Indexed
      <4>2. location'[v] = location[v] BY <2>4, <3>2 DEF RowsOK
      <4> QED BY <1>0, <4>1, <4>2
    <3> QED BY <3>1, <3>2
  <2> QED BY <2>5, <2>6
<1>6. ASSUME NEW u \in Uploads, CloseRetainedTx(u) PROVE Pointers' /\ Shows'
  <2>1. record' = record BY <1>6 DEF CloseRetainedTx
  <2>2. \A v \in Uploads : location'[v] = "ACTIVE" <=> location[v] = "ACTIVE"
    BY <1>6 DEF CloseRetainedTx, RowsOK
  <2> QED BY <1>0, <2>1, <2>2 DEF Shown, Indexed
<1>7. ASSUME NEW old, PruneTx(old) PROVE UNCHANGED <<record, location>>
  BY <1>7 DEF PruneTx
<1>8. CASE UNCHANGED tables BY <1>1, <1>8 DEF tables
<1> QED BY <1>1, <1>2, <1>3, <1>4, <1>5, <1>6, <1>7, <1>8 DEF TableStep

-----------------------------------------------------------------------------
(* The actors: what they are doing stays typed, and stays on an attempt. *)

ControlsOK == RequestsOK /\ DeletesOK /\ WorkerOK /\ OnUploads

LEMMA ServeOK ==
  ASSUME ControlsOK, NEW r \in Requests, NEW step \in Steps, NEW u \in Uploads,
         NEW fin \in BOOLEAN, NEW proxied \in BOOLEAN, Serve(r, step, u, fin, proxied)
  PROVE  ControlsOK'
<1>1. /\ req' = [req EXCEPT ![r] = [at |-> step, on |-> u, fin |-> fin, proxied |-> proxied]]
      /\ del' = del /\ worker' = worker
  BY DEF Serve, Becomes
<1>2. RequestsOK'
  BY <1>1 DEF ControlsOK, RequestsOK
<1> QED BY <1>1, <1>2 DEF ControlsOK, RequestsOK, DeletesOK, WorkerOK, OnUploads

LEMMA AnswerOK ==
  ASSUME ControlsOK, NEW r \in Requests, Answer(r) PROVE ControlsOK'
<1>1. /\ req' = [req EXCEPT ![r] = Idle]
      /\ del' = del /\ worker' = worker
  BY DEF Answer, Becomes
<1>2. RequestsOK'
  BY <1>1 DEF ControlsOK, RequestsOK, Idle, Steps
<1> QED BY <1>1, <1>2 DEF ControlsOK, RequestsOK, DeletesOK, WorkerOK, OnUploads, Idle

LEMMA ThrowOK ==
  ASSUME ControlsOK, NEW r \in Requests, ~At(r, "idle"), Throw(r) PROVE ControlsOK'
<1>1. req[r].on \in Uploads BY DEF ControlsOK, OnUploads, At
<1>2. CASE Answer(r) BY <1>2, AnswerOK
<1>3. CASE Serve(r, "reject", req[r].on, FALSE, FALSE)
  BY <1>1, <1>3, ServeOK DEF Steps
<1> QED BY <1>2, <1>3 DEF Throw

LEMMA GotoOK ==
  ASSUME ControlsOK, NEW r \in Requests, ~At(r, "idle"), NEW step \in Steps, Goto(r, step)
  PROVE  ControlsOK'
<1>1. req[r].on \in Uploads /\ req[r].fin \in BOOLEAN /\ req[r].proxied \in BOOLEAN
  BY DEF ControlsOK, OnUploads, At, RequestsOK
<1> QED BY <1>1, ServeOK DEF Goto

LEMMA BeginOK ==
  ASSUME ControlsOK, NEW r \in Requests, NEW step \in Steps, NEW u \in Uploads,
         NEW proxied \in BOOLEAN, Begin(r, u, step, proxied)
  PROVE  ControlsOK'
<1> DEFINE fin == u \in finalized
<1>1. fin \in BOOLEAN /\ Serve(r, step, u, fin, proxied) BY DEF Begin
<1> HIDE DEF fin
<1> QED BY <1>1, ServeOK

LEMMA UploadControls ==
  ASSUME ControlsOK, IndexAgreesWithLocations, UploadNext PROVE ControlsOK'
<1>1. ASSUME NEW r \in Requests, NEW u \in Uploads,
             \/ Initiate(r, u) \/ ProxyUpload(r, u) \/ PresignPart(r, u)
             \/ Complete(r, u) \/ Abort(r, u)
      PROVE  ControlsOK'
  <2>1. ASSUME NEW step \in Steps, NEW proxied \in BOOLEAN, Begin(r, u, step, proxied)
        PROVE  ControlsOK'
    BY <2>1, BeginOK
  <2>2. CASE Initiate(r, u)    BY <2>1, <2>2 DEF Initiate, Steps
  <2>3. CASE ProxyUpload(r, u) BY <2>1, <2>3 DEF ProxyUpload, Steps
  <2>4. CASE PresignPart(r, u) BY <2>1, <2>4 DEF PresignPart, Steps
  <2>5. CASE Complete(r, u)    BY <2>1, <2>5 DEF Complete, ReadSession, Steps
  <2>6. CASE Abort(r, u)       BY <2>1, <2>6 DEF Abort, Steps
  <2> QED BY <1>1, <2>2, <2>3, <2>4, <2>5, <2>6
<1>2. ASSUME NEW r \in Requests,
             \/ CreateMultipart(r) \/ Reserve(r) \/ AbortUnreserved(r) \/ Presign(r)
             \/ PutProxied(r) \/ Assemble(r) \/ Head(r) \/ DeleteReplaced(r)
             \/ CleanupFailed(r) \/ CleanupFinalized(r) \/ AbortErase(r) \/ AbortCommit(r)
             \/ ReleaseRead(r) \/ ReleaseCommit(r) \/ RequestLost(r)
      PROVE  ControlsOK'
  <2>1. ~At(r, "idle")
    BY <1>2 DEF CreateMultipart, Reserve, AbortUnreserved, Presign, PutProxied, Assemble,
         Head, DeleteReplaced, CleanupFailed, CleanupFinalized, AbortErase, AbortCommit,
         ReleaseRead, ReleaseCommit, RequestLost, At
  <2>2. Answer(r) => ControlsOK' BY AnswerOK
  <2>3. Throw(r) => ControlsOK' BY <2>1, ThrowOK
  <2>4. \A step \in Steps : Goto(r, step) => ControlsOK' BY <2>1, GotoOK
  <2> QED
    BY <1>2, <2>2, <2>3, <2>4
    DEF CreateMultipart, Reserve, AbortUnreserved, Presign, PutProxied, Assemble, Head,
        DeleteReplaced, CleanupFailed, CleanupFinalized, AbortErase, AbortCommit,
        ReleaseRead, ReleaseCommit, RequestLost, Call, Transaction, Steps
<1>3. ASSUME NEW r \in Requests, CompleteProxied(r) PROVE ControlsOK'
  <2>1. ~At(r, "idle") /\ req[r].on \in Uploads
    BY <1>3 DEF CompleteProxied, At, ControlsOK, OnUploads
  <2>2. Answer(r) => ControlsOK' BY AnswerOK
  <2>3. Throw(r) => ControlsOK' BY <2>1, ThrowOK
  <2>4. \A step \in Steps : Begin(r, req[r].on, step, TRUE) => ControlsOK'
    BY <2>1, BeginOK
  <2> QED BY <1>3, <2>2, <2>3, <2>4 DEF CompleteProxied, ReadSession, Steps
<1>4. ASSUME NEW r \in Requests, MarkFinalized(r) PROVE ControlsOK'
  <2>1. ~At(r, "idle") /\ req[r].on \in Uploads /\ req[r].proxied \in BOOLEAN
    BY <1>4 DEF MarkFinalized, At, ControlsOK, OnUploads, RequestsOK
  <2>2. Throw(r) => ControlsOK' BY <2>1, ThrowOK
  <2>3. Serve(r, "head", req[r].on, TRUE, req[r].proxied) => ControlsOK'
    BY <2>1, ServeOK DEF Steps
  <2> QED BY <1>4, <2>2, <2>3 DEF MarkFinalized, Transaction
<1>5. ASSUME NEW r \in Requests, Publish(r) PROVE ControlsOK'
  <2> DEFINE old == record[KeyOf[req[r].on]]
  <2>1. ~At(r, "idle") /\ req[r].on \in Uploads
    BY <1>5 DEF Publish, At, ControlsOK, OnUploads
  <2>2. old.state = "AVAILABLE" => old.at \in Uploads
    BY <2>1, RequestAssumption DEF IndexAgreesWithLocations, Indexed
  <2>3. Answer(r) => ControlsOK' BY AnswerOK
  <2>4. Throw(r) => ControlsOK' BY <2>1, ThrowOK
  <2>5. Goto(r, "discard") => ControlsOK' BY <2>1, GotoOK DEF Steps
  <2>6. old.state = "AVAILABLE" /\ Serve(r, "retire", old.at, FALSE, FALSE) => ControlsOK'
    BY <2>2, ServeOK DEF Steps
  <2> QED BY <1>5, <2>3, <2>4, <2>5, <2>6 DEF Publish, Transaction
<1>6. ASSUME NEW u \in Uploads, InitiateAgain(u) \/ ClientPut(u) \/ Expires(u)
      PROVE  ControlsOK'
  BY <1>6 DEF InitiateAgain, ClientPut, Expires, actors, ControlsOK, RequestsOK, DeletesOK,
       WorkerOK, OnUploads
<1> QED BY <1>1, <1>2, <1>3, <1>4, <1>5, <1>6 DEF UploadNext

LEMMA DeleteControls ==
  ASSUME ControlsOK, IndexAgreesWithLocations, DeleteNext PROVE ControlsOK'
<1>1. ASSUME NEW d \in Deleters, NEW step \in DeleteSteps,
             NEW u \in Uploads \cup {NoUpload}, step = "idle" \/ u \in Uploads,
             DeleteBecomes(d, step, u)
      PROVE  ControlsOK'
  <2>1. /\ del' = [del EXCEPT ![d] = [at |-> step, on |-> u]]
        /\ req' = req /\ worker' = worker
    BY <1>1 DEF DeleteBecomes
  <2>2. DeletesOK' BY <1>1, <2>1 DEF ControlsOK, DeletesOK
  <2> QED BY <1>1, <2>1, <2>2 DEF ControlsOK, RequestsOK, DeletesOK, WorkerOK, OnUploads
<1>2. ASSUME NEW d \in Deleters, DeleteAnswer(d) PROVE ControlsOK'
  BY <1>1, <1>2 DEF DeleteAnswer, DeleteSteps
<1>3. ASSUME NEW d \in Deleters, NEW step \in DeleteSteps, ~DeleteAt(d, "idle"),
             DeleteGoto(d, step)
      PROVE  ControlsOK'
  <2>1. del[d].on \in Uploads BY <1>3 DEF ControlsOK, OnUploads, DeleteAt
  <2> QED BY <1>1, <1>3, <2>1 DEF DeleteGoto
<1>4. ASSUME NEW d \in Deleters, NEW k \in Keys, Delete(d, k) PROVE ControlsOK'
  <2>1. record[k].at \in Uploads
    BY <1>4 DEF Delete, IndexAgreesWithLocations, Indexed
  <2> QED BY <1>1, <1>4, <2>1 DEF Delete, DeleteSteps
<1>5. ASSUME NEW d \in Deleters,
             \/ DeleteClaim(d) \/ DeleteErase(d) \/ DeleteRevert(d)
             \/ DeleteFinalize(d) \/ DeleteLost(d)
      PROVE  ControlsOK'
  <2>1. ~DeleteAt(d, "idle")
    BY <1>5 DEF DeleteClaim, DeleteErase, DeleteRevert, DeleteFinalize, DeleteLost, DeleteAt
  <2>2. DeleteAnswer(d) => ControlsOK' BY <1>2
  <2>3. \A step \in DeleteSteps : DeleteGoto(d, step) => ControlsOK' BY <2>1, <1>3
  <2> QED BY <1>5, <2>2, <2>3
          DEF DeleteClaim, DeleteErase, DeleteRevert, DeleteFinalize, DeleteLost, Call,
              Transaction, DeleteSteps
<1> QED BY <1>4, <1>5 DEF DeleteNext

LEMMA WorkerControls ==
  ASSUME ControlsOK, RowsOK, IndexAgreesWithLocations, WorkerNext PROVE ControlsOK'
<1>1. ASSUME NEW phase \in Phases, NEW list \in SUBSET Uploads, Listed(phase, list, {})
      PROVE  ControlsOK'
  BY <1>1 DEF Listed, WorkerBecomes, ControlsOK, RequestsOK, DeletesOK, WorkerOK, OnUploads
<1>2. ASSUME NEW todo \in SUBSET Uploads, NEW step \in {"next", "abort", "erase", "commit"},
             NEW u \in Uploads \cup {NoUpload}, step = "next" \/ u \in Uploads,
             Work(todo, step, u)
      PROVE  ControlsOK'
  BY <1>2 DEF Work, WorkerBecomes, ControlsOK, RequestsOK, DeletesOK, WorkerOK, OnUploads
<1>3. worker.todo \in SUBSET Uploads /\ (worker.at # "next" => worker.on \in Uploads)
  BY DEF ControlsOK, WorkerOK, OnUploads
<1>4. NextEntry => ControlsOK' BY <1>2, <1>3 DEF NextEntry
<1>5. worker.at # "next" /\ Then("commit") => ControlsOK' BY <1>2, <1>3 DEF Then
<1>6. ASSUME NEW u \in Uploads, TakeExpired(u) \/ TakeDeleting(u) \/ TakeRetained(u)
      PROVE  ControlsOK'
  <2>1. worker.todo \ {u} \in SUBSET Uploads BY <1>3
  <2>2. ASSUME NEW step \in {"abort", "erase"}, Take(u, step) PROVE ControlsOK'
    BY <1>2, <2>1, <2>2 DEF Take
  <2>3. Skip(u) => ControlsOK' BY <1>2, <2>1 DEF Skip
  <2> QED BY <1>6, <2>2, <2>3 DEF TakeExpired, TakeDeleting, TakeRetained
<1>7. ASSUME AbortExpired \/ EraseListed \/ MarkExpired \/ FinalizeDeleted \/ CloseRetained
      PROVE  ControlsOK'
  BY <1>4, <1>5, <1>7 DEF AbortExpired, EraseListed, MarkExpired, FinalizeDeleted,
     CloseRetained, Call, Transaction
<1>8. CASE ListExpired \/ ListRetained
  <2>1. Open \cap due \in SUBSET Uploads
        /\ {u \in Uploads : location[u] = "RETAINED"} \in SUBSET Uploads
    BY DEF Open
  <2> QED BY <1>1, <1>8, <2>1 DEF ListExpired, ListRetained, Phases
<1>9. CASE ListDeleting
  <2> DEFINE bare == {k \in Keys : Unlocated(k)}
             located == {k \in Keys : record[k].state = "DELETING"} \ bare
  <2>1. {record[k].at : k \in located} \in SUBSET Uploads
    BY DEF IndexAgreesWithLocations, Indexed
  <2>2. bare = {} BY NoneUnlocated
  <2>3. Listed("deleting", {record[k].at : k \in located}, bare) BY <1>9 DEF ListDeleting
  <2> HIDE DEF bare, located
  <2> QED BY <1>1, <2>1, <2>2, <2>3 DEF Phases
<1>10. CASE Prune \/ WorkerRestart
  BY <1>10 DEF Prune, WorkerRestart, Resting, WorkerBecomes, ControlsOK, RequestsOK,
     DeletesOK, WorkerOK, OnUploads, Phases
<1>11. \A k \in Keys : ~CloseUnlocated(k) BY DEF ControlsOK, OnUploads, CloseUnlocated
<1> QED BY <1>6, <1>7, <1>8, <1>9, <1>10, <1>11 DEF WorkerNext, WorkerStep, NextDeleting

LEMMA ControlsStep ==
  ASSUME ControlsOK, RowsOK, IndexAgreesWithLocations, [Next]_vars PROVE ControlsOK'
<1>1. CASE UNCHANGED vars
  BY <1>1 DEF vars, actors, ControlsOK, RequestsOK, DeletesOK, WorkerOK, OnUploads
<1> QED BY <1>1, UploadControls, DeleteControls, WorkerControls DEF Next

\* The provider's side: every call leaves each physical key with an object or
\* none, and the open multipart uploads and signed urls with the attempts.
LEMMA ProviderStep ==
  ASSUME ProviderOK, ControlsOK, [Next]_vars PROVE ProviderOK'
<1> USE DEF provider
<1>1. CASE UNCHANGED vars BY <1>1 DEF vars, ProviderOK
<1>2. ASSUME NEW u, Erased(u), signed' = signed PROVE ProviderOK'
  BY <1>2 DEF Erased, ProviderOK
<1>3. ASSUME NEW u, PartsAborted(u), signed' = signed PROVE ProviderOK'
  BY <1>3 DEF PartsAborted, ProviderOK
<1>4. ASSUME UNCHANGED <<provider, signed>> PROVE ProviderOK'
  BY <1>4 DEF ProviderOK
<1>5. CASE UploadNext
  <2>1. ASSUME NEW r \in Requests, NEW u \in Uploads,
               \/ Initiate(r, u) \/ ProxyUpload(r, u) \/ PresignPart(r, u)
               \/ Complete(r, u) \/ Abort(r, u)
        PROVE  ProviderOK'
    BY <1>4, <2>1 DEF Initiate, ProxyUpload, PresignPart, Complete, ReadSession, Abort, store
  <2>2. ASSUME NEW r \in Requests,
               \/ Reserve(r) \/ CompleteProxied(r) \/ MarkFinalized(r) \/ Head(r) \/ Publish(r)
               \/ AbortCommit(r) \/ ReleaseRead(r) \/ ReleaseCommit(r) \/ RequestLost(r)
        PROVE  ProviderOK'
    BY <1>4, <2>2 DEF Reserve, CompleteProxied, MarkFinalized, Head, Publish, AbortCommit,
       ReleaseRead, ReleaseCommit, RequestLost, ReadSession, Transaction, store
  <2>3. ASSUME NEW r \in Requests,
               \/ AbortUnreserved(r) \/ DeleteReplaced(r) \/ CleanupFailed(r)
               \/ CleanupFinalized(r) \/ AbortErase(r)
        PROVE  ProviderOK'
    BY <1>2, <1>3, <1>4, <2>3 DEF AbortUnreserved, DeleteReplaced, CleanupFailed,
       CleanupFinalized, AbortErase, Call
  <2>4. ASSUME NEW r \in Requests, CreateMultipart(r) \/ Presign(r) \/ PutProxied(r) \/ Assemble(r)
        PROVE  ProviderOK'
    <3>1. req[r].on \in Uploads
      BY <2>4 DEF CreateMultipart, Presign, PutProxied, Assemble, At, ControlsOK, OnUploads
    <3>2. CASE CreateMultipart(r) BY <3>1, <3>2, <1>4 DEF CreateMultipart, Call, ProviderOK
    <3>3. CASE Presign(r)         BY <3>1, <3>3, <1>4 DEF Presign, ProviderOK
    <3>4. CASE PutProxied(r)      BY <3>1, <3>4, <1>4 DEF PutProxied, Call, ProviderOK
    <3>5. CASE Assemble(r)        BY <3>1, <3>5, <1>4 DEF Assemble, Call, ProviderOK
    <3> QED BY <2>4, <3>2, <3>3, <3>4, <3>5
  <2>5. ASSUME NEW u \in Uploads, InitiateAgain(u) \/ ClientPut(u) \/ Expires(u)
        PROVE  ProviderOK'
    BY <2>5 DEF InitiateAgain, ClientPut, Expires, ProviderOK
  <2> QED BY <1>5, <2>1, <2>2, <2>3, <2>4, <2>5 DEF UploadNext
<1>6. CASE DeleteNext
  BY <1>2, <1>4, <1>6 DEF DeleteNext, Delete, DeleteClaim, DeleteErase, DeleteRevert,
     DeleteFinalize, DeleteLost, Call, Transaction
<1>7. CASE WorkerNext
  BY <1>2, <1>3, <1>4, <1>7 DEF WorkerNext, WorkerStep, NextDeleting, WorkerRestart, ListExpired,
     TakeExpired, AbortExpired, EraseListed, MarkExpired, ListDeleting, TakeDeleting,
     CloseUnlocated, FinalizeDeleted, ListRetained, TakeRetained, CloseRetained, Prune, Call,
     Transaction, untouched
<1> QED BY <1>1, <1>5, <1>6, <1>7 DEF Next

-----------------------------------------------------------------------------
(* The inductive invariant. *)

IInv == TypeOK /\ OnUploads /\ PublishedSessionClosed /\ IndexAgreesWithLocations

LEMMA InitIInv == Init => IInv
<1> SUFFICES ASSUME Init PROVE IInv OBVIOUS
<1> USE RequestAssumption DEF Init, TablesInit
<1>1. RowsOK /\ ProviderOK
  BY DEF RowsOK, ProviderOK, SessionStates, RecordStates, LocationStates
<1>2. ControlsOK
  BY DEF ControlsOK, RequestsInit, RequestsOK, Idle, Steps, DeletesInit, DeletesOK, NoDelete,
     DeleteSteps, WorkerInit, WorkerOK, Resting, Phases, OnUploads
<1>3. PublishedSessionClosed BY DEF PublishedSessionClosed
<1>4. IndexAgreesWithLocations BY DEF IndexAgreesWithLocations, Indexed, Stored
<1> QED BY <1>1, <1>2, <1>3, <1>4 DEF IInv, TypeOK, TablesOK, ControlsOK

LEMMA NextIInv == IInv /\ [Next]_vars => IInv'
<1> SUFFICES ASSUME IInv, [Next]_vars PROVE IInv' OBVIOUS
<1>0. RowsOK /\ ProviderOK /\ ControlsOK /\ PublishedSessionClosed /\ IndexAgreesWithLocations
  BY DEF IInv, TypeOK, TablesOK, ControlsOK
<1>1. TableStep BY <1>0, NextTables DEF ControlsOK
<1>2. RowsOK' BY <1>0, <1>1, RowsStep
<1>3. ProviderOK' BY <1>0, ProviderStep
<1>4. ControlsOK' BY <1>0, ControlsStep
<1>5. PublishedSessionClosed' BY <1>0, <1>1, PublishedStep
<1>6. IndexAgreesWithLocations' BY <1>0, <1>1, <1>2, IndexStep
<1> QED BY <1>2, <1>3, <1>4, <1>5, <1>6 DEF IInv, TypeOK, TablesOK, ControlsOK

LEMMA Inductive == Spec => []IInv
BY InitIInv, NextIInv, PTL DEF Spec

\* Every variable keeps its type, and no counter goes below zero, for any number
\* of requests, deleters and lost answers.
THEOREM TypeCorrect == Spec => []TypeOK
<1>1. IInv => TypeOK BY DEF IInv
<1> QED BY <1>1, Inductive, PTL

\* A published attempt is never INITIATED again: no worker pass lists it and no
\* second completion claims it.
THEOREM PublishedIsClosed == Spec => []PublishedSessionClosed
<1>1. IInv => PublishedSessionClosed BY DEF IInv
<1> QED BY <1>1, Inductive, PTL

\* The records and the locations agree, whichever of the completions, delete
\* requests and worker passes moved them.
THEOREM IndexAgrees == Spec => []IndexAgreesWithLocations
<1>1. IInv => IndexAgreesWithLocations BY DEF IInv
<1> QED BY <1>1, Inductive, PTL

-----------------------------------------------------------------------------
(* The counters. *)

\* The rows on which each property of the counters depends.
LEMMA StepRows == IInv /\ [Next]_vars => RowsOK /\ RowsOK' /\ TableStep
BY NextIInv, NextTables DEF IInv, TypeOK, TablesOK

LEMMA QuotaStep == IInv /\ WithinQuota /\ [Next]_vars => WithinQuota'
<1> SUFFICES ASSUME IInv, WithinQuota, [Next]_vars PROVE WithinQuota' OBVIOUS
<1> USE RequestAssumption, LimitAssumption DEF counters, WithinQuota
<1>0. RowsOK /\ TableStep /\ IndexAgreesWithLocations BY StepRows DEF IInv
<1>1. ASSUME UNCHANGED counters PROVE WithinQuota' BY <1>1
<1>2. ASSUME NEW u \in Uploads,
             \/ MarkFinalizedTx(u) \/ ClaimTx(u) \/ RevertTx(u) \/ CloseRetainedTx(u)
             \/ PassTx(u)
      PROVE  UNCHANGED counters
  BY <1>2 DEF MarkFinalizedTx, ClaimTx, RevertTx, CloseRetainedTx, PassTx
<1>3. ASSUME NEW u \in Uploads, ReserveTx(u) PROVE WithinQuota'
  BY <1>0, <1>3 DEF ReserveTx, FitsQuota, Account, RowsOK
<1>4. ASSUME NEW u \in Uploads, PublishTx(u) PROVE WithinQuota'
  <2> DEFINE old == record[KeyOf[u]]
  <2>1. old.state = "AVAILABLE" => old.at \in Uploads
    BY <1>0 DEF IndexAgreesWithLocations, Indexed
  <2>2. old.state = "AVAILABLE" => SizeOf[old.at] \in Nat BY <2>1
  <2>3. usedBytes' <= usedBytes + SizeOf[u] /\ reservedBytes' = reservedBytes - SizeOf[u]
    BY <1>0, <1>4, <2>2 DEF PublishTx, UsageDelta, Account, RowsOK
  <2>4. usedBytes' \in Nat /\ reservedBytes' \in Nat BY StepRows DEF RowsOK
  <2> QED BY <1>0, <2>3, <2>4 DEF RowsOK
<1>5. ASSUME NEW u \in Uploads, ReleaseTx(u, "ABORTED") \/ ReleaseTx(u, "EXPIRED")
      PROVE  WithinQuota'
  BY <1>0, <1>5 DEF ReleaseTx, Account, RowsOK
<1>6. ASSUME NEW u \in Uploads, FinalizeTx(u) PROVE WithinQuota'
  BY <1>0, <1>6 DEF FinalizeTx, Account, RowsOK
<1>7. ASSUME NEW old, PruneTx(old) PROVE UNCHANGED counters BY <1>7 DEF PruneTx
<1>8. UNCHANGED tables => UNCHANGED counters BY DEF tables
<1> QED BY <1>0, <1>1, <1>2, <1>3, <1>4, <1>5, <1>6, <1>7, <1>8 DEF TableStep

\* What is used and what is reserved never exceed the quota together, although
\* they are checked and moved by different transactions.
THEOREM QuotaHolds == Spec => []WithinQuota
<1>1. Init => WithinQuota
  BY LimitAssumption DEF Init, TablesInit, WithinQuota
<1> QED BY <1>1, Inductive, QuotaStep, PTL DEF Spec

\* How a step moves the set of open sessions: one opens, with one more slot and its
\* bytes reserved; one closes, giving back its slot and its bytes; or none opens and
\* nothing is given back.
LEMMA OpenStep ==
  ASSUME RowsOK, TableStep
  PROVE  \/ \E u \in Uploads :
              /\ Open' = Open \cup {u} /\ u \notin Open
              /\ activeUploadCount' = activeUploadCount + 1
              /\ reservedBytes' = reservedBytes + SizeOf[u]
         \/ \E u \in Uploads :
              /\ Open' = Open \ {u}
              /\ activeUploadCount' = activeUploadCount - 1
              /\ reservedBytes' = reservedBytes - SizeOf[u]
         \/ Open' = Open /\ activeUploadCount' = activeUploadCount /\ reservedBytes' = reservedBytes
<1> USE RequestAssumption DEF Open, counters
<1>1. ASSUME session' = session, UNCHANGED counters
      PROVE  Open' = Open /\ activeUploadCount' = activeUploadCount /\ reservedBytes' = reservedBytes
  BY <1>1
<1>2. ASSUME NEW u \in Uploads,
             \/ MarkFinalizedTx(u) \/ ClaimTx(u) \/ RevertTx(u) \/ CloseRetainedTx(u)
             \/ PassTx(u)
      PROVE  session' = session /\ UNCHANGED counters
  BY <1>2 DEF MarkFinalizedTx, ClaimTx, RevertTx, CloseRetainedTx, PassTx
<1>3. ASSUME NEW u \in Uploads, ReserveTx(u)
      PROVE  /\ Open' = Open \cup {u} /\ u \notin Open
             /\ activeUploadCount' = activeUploadCount + 1
             /\ reservedBytes' = reservedBytes + SizeOf[u]
  BY <1>3 DEF ReserveTx, Account, RowsOK
<1>4. ASSUME NEW u \in Uploads,
             PublishTx(u) \/ ReleaseTx(u, "ABORTED") \/ ReleaseTx(u, "EXPIRED")
      PROVE  /\ Open' = Open \ {u} /\ activeUploadCount' = activeUploadCount - 1
             /\ reservedBytes' = reservedBytes - SizeOf[u]
  <2>1. Open' = Open \ {u}
    BY <1>4 DEF PublishTx, ReleaseTx, RowsOK
  <2>2. activeUploadCount' = activeUploadCount - 1 /\ reservedBytes' = reservedBytes - SizeOf[u]
    BY <1>4 DEF PublishTx, ReleaseTx, Account, RowsOK
  <2> QED BY <2>1, <2>2
<1>5. ASSUME NEW u \in Uploads, FinalizeTx(u)
      PROVE  Open' = Open /\ activeUploadCount' = activeUploadCount /\ reservedBytes' = reservedBytes
  BY <1>5 DEF FinalizeTx, Account, RowsOK
<1>6. ASSUME NEW old \in SUBSET {u \in Uploads :
                                  session[u] \in {"COMPLETED", "ABORTED", "EXPIRED"}},
             PruneTx(old)
      PROVE  Open' = Open /\ activeUploadCount' = activeUploadCount /\ reservedBytes' = reservedBytes
  BY <1>6 DEF PruneTx, RowsOK
<1>7. CASE UNCHANGED tables BY <1>1, <1>7 DEF tables
<1> QED BY <1>1, <1>2, <1>3, <1>4, <1>5, <1>6, <1>7 DEF TableStep

LEMMA OpenFinite == IsFiniteSet(Open) /\ Cardinality(Open) \in Nat
BY RequestAssumption, FS_Subset, FS_CardinalityType DEF Open

LEMMA OpenFiniteNext == IsFiniteSet(Open') /\ Cardinality(Open') \in Nat
<1>1. Open' \in SUBSET Uploads BY DEF Open
<1> QED BY <1>1, RequestAssumption, FS_Subset, FS_CardinalityType

\* No slot of the namespace's upload limit outlives its session, although a
\* release's second statement does not look at the session again.
THEOREM SlotsOwned == Spec => []ActiveUploadsOwned
<1>1. Init => ActiveUploadsOwned
  BY OpenFinite DEF Init, TablesInit, ActiveUploadsOwned
<1>2. IInv /\ ActiveUploadsOwned /\ [Next]_vars => ActiveUploadsOwned'
  <2> SUFFICES ASSUME IInv, ActiveUploadsOwned, [Next]_vars PROVE ActiveUploadsOwned' OBVIOUS
  <2> USE DEF ActiveUploadsOwned
  <2>0. RowsOK /\ TableStep BY StepRows
  <2>1. activeUploadCount \in Nat /\ Cardinality(Open) \in Nat /\ IsFiniteSet(Open)
    BY <2>0, OpenFinite DEF RowsOK
  <2>2. ASSUME NEW u, Open' = Open \cup {u}, u \notin Open,
               activeUploadCount' = activeUploadCount + 1
        PROVE  ActiveUploadsOwned'
    <3>1. Cardinality(Open') = Cardinality(Open) + 1 BY <2>1, <2>2, FS_AddElement
    <3> QED BY <2>1, <2>2, <3>1
  <2>3. ASSUME NEW u, Open' = Open \ {u}, activeUploadCount' = activeUploadCount - 1
        PROVE  ActiveUploadsOwned'
    <3>1. Cardinality(Open') >= Cardinality(Open) - 1 BY <2>1, <2>3, FS_RemoveElement
    <3> QED BY <2>1, <2>3, <3>1, OpenFiniteNext
  <2> QED BY <2>0, <2>2, <2>3, OpenStep
<1> QED BY <1>1, <1>2, Inductive, PTL DEF Spec

-----------------------------------------------------------------------------
(* The sums. *)

LEMMA BytesIsTotal == \A S : Bytes(S) = Total(SizeOf, S)
BY DEF Bytes, Total

\* Bytes of a set of attempts, and of one attempt more or less.
LEMMA BytesFacts ==
  ASSUME NEW S \in SUBSET Uploads
  PROVE  /\ Bytes(S) \in Nat
         /\ \A u \in Uploads : SizeOf[u] \in Nat
         /\ \A u \in Uploads : u \notin S => Bytes(S \cup {u}) = Bytes(S) + SizeOf[u]
         /\ \A u \in S : Bytes(S) = Bytes(S \ {u}) + SizeOf[u]
BY RequestAssumption, TotalFacts, BytesIsTotal

LEMMA BytesOfNone == Bytes({}) = 0
BY TotalEmpty, BytesIsTotal

\* No reserved byte outlives its session: completions, aborts and expiries that
\* race for one session may give its bytes back twice, but never keep them.
THEOREM ReservationOwned == Spec => []ReservedBytesOwned
<1>1. Init => ReservedBytesOwned
  <2>1. Init => Open = {} BY DEF Init, TablesInit, Open
  <2> QED BY <2>1, BytesOfNone DEF Init, TablesInit, ReservedBytesOwned
<1>2. IInv /\ ReservedBytesOwned /\ [Next]_vars => ReservedBytesOwned'
  <2> SUFFICES ASSUME IInv, ReservedBytesOwned, [Next]_vars
               PROVE  reservedBytes' <= Bytes(Open')
    BY DEF ReservedBytesOwned
  <2>0. RowsOK /\ TableStep BY StepRows
  <2>1. reservedBytes \in Nat /\ Open \in SUBSET Uploads /\ reservedBytes <= Bytes(Open)
    BY <2>0 DEF RowsOK, Open, ReservedBytesOwned
  <2>2. ASSUME NEW u \in Uploads, Open' = Open \cup {u}, u \notin Open,
               reservedBytes' = reservedBytes + SizeOf[u]
        PROVE  reservedBytes' <= Bytes(Open')
    <3>1. Bytes(Open') = Bytes(Open) + SizeOf[u] BY <2>1, <2>2, BytesFacts
    <3> QED BY <2>1, <2>2, <3>1, BytesFacts
  <2>3. ASSUME NEW u \in Uploads, Open' = Open \ {u}, reservedBytes' = reservedBytes - SizeOf[u]
        PROVE  reservedBytes' <= Bytes(Open')
    <3>0. Bytes(Open) \in Nat /\ Bytes(Open') \in Nat /\ SizeOf[u] \in Nat BY <2>1, <2>3, BytesFacts
    <3>1. CASE u \in Open
      <4>1. Bytes(Open) = Bytes(Open') + SizeOf[u] BY <2>1, <2>3, <3>1, BytesFacts
      <4> QED BY <2>1, <2>3, <3>0, <4>1
    <3>2. CASE u \notin Open
      <4>1. Open' = Open BY <2>3, <3>2
      <4> QED BY <2>1, <2>3, <3>0, <4>1
    <3> QED BY <3>1, <3>2
  <2> QED BY <2>0, <2>1, <2>2, <2>3, OpenStep
<1> QED BY <1>1, <1>2, Inductive, PTL DEF Spec

\* How a step moves what the index holds: an attempt enters it, perhaps in place of
\* another, and is charged the difference; one leaves it and is given back; or
\* nothing of this moves.
Replaced(u) == IF record[KeyOf[u]].state = "AVAILABLE" THEN {record[KeyOf[u]].at} ELSE {}

LEMMA StoredStep ==
  ASSUME IInv, IInv', TableStep
  PROVE  \/ \E u \in Uploads :
              /\ u \notin Stored /\ Replaced(u) \subseteq Stored
              /\ Stored' = (Stored \ Replaced(u)) \cup {u}
              /\ usedBytes' = usedBytes + UsageDelta(u, record[KeyOf[u]])
         \/ \E u \in Uploads : /\ u \in Stored /\ Stored' = Stored \ {u}
                               /\ usedBytes' = usedBytes - SizeOf[u]
         \/ Stored' = Stored /\ usedBytes' = usedBytes
<1> DEFINE ActiveNow == {u \in Uploads : location[u] = "ACTIVE"}
<1>0. /\ RowsOK /\ RowsOK' /\ IndexAgreesWithLocations
      /\ Stored = ActiveNow /\ Stored' = {u \in Uploads : location'[u] = "ACTIVE"}
  BY DEF IInv, TypeOK, TablesOK, IndexAgreesWithLocations
<1> USE RequestAssumption DEF counters
<1>1. ASSUME location' = location, usedBytes' = usedBytes
      PROVE  Stored' = Stored /\ usedBytes' = usedBytes
  BY <1>0, <1>1
<1>2. ASSUME NEW u \in Uploads,
             \/ MarkFinalizedTx(u) \/ ClaimTx(u) \/ RevertTx(u) \/ PassTx(u)
             \/ ReserveTx(u) \/ ReleaseTx(u, "ABORTED") \/ ReleaseTx(u, "EXPIRED")
      PROVE  location' = location /\ usedBytes' = usedBytes
  BY <1>0, <1>2 DEF MarkFinalizedTx, ClaimTx, RevertTx, PassTx, ReserveTx, ReleaseTx, Account, RowsOK
<1>3. ASSUME NEW u \in Uploads, CloseRetainedTx(u)
      PROVE  Stored' = Stored /\ usedBytes' = usedBytes
  <2>1. usedBytes' = usedBytes BY <1>3 DEF CloseRetainedTx
  <2>2. \A v \in Uploads : location'[v] = "ACTIVE" <=> location[v] = "ACTIVE"
    BY <1>0, <1>3 DEF CloseRetainedTx, RowsOK
  <2> QED BY <1>0, <2>1, <2>2
<1>4. ASSUME NEW u \in Uploads, PublishTx(u)
      PROVE  /\ u \notin Stored /\ Replaced(u) \subseteq Stored
             /\ Stored' = (Stored \ Replaced(u)) \cup {u}
             /\ usedBytes' = usedBytes + UsageDelta(u, record[KeyOf[u]])
  <2>1. u \notin Stored
    BY <1>0, <1>4 DEF PublishTx, MayPublish, IInv, PublishedSessionClosed
  <2>2. Replaced(u) \subseteq Stored BY DEF Replaced, Stored, Indexed
  <2>3. \A v \in Uploads : location'[v] = "ACTIVE" <=>
            v = u \/ (location[v] = "ACTIVE" /\ v \notin Replaced(u))
    BY <1>4 DEF PublishTx, Located, Replaced
  <2>4. usedBytes' = usedBytes + UsageDelta(u, record[KeyOf[u]])
    BY <1>4 DEF PublishTx, Account
  <2> QED BY <1>0, <2>1, <2>2, <2>3, <2>4
<1>5. ASSUME NEW u \in Uploads, FinalizeTx(u)
      PROVE  u \in Stored /\ Stored' = Stored \ {u} /\ usedBytes' = usedBytes - SizeOf[u]
  <2>1. KeyOf[u] \in Indexed /\ record[KeyOf[u]].at = u BY <1>5 DEF FinalizeTx, Indexed
  <2>2. u \in Stored BY <2>1 DEF Stored
  <2>3. \A v \in Uploads : location'[v] = "ACTIVE" <=> location[v] = "ACTIVE" /\ v # u
    BY <1>0, <1>5 DEF FinalizeTx, RowsOK
  <2>4. usedBytes' = usedBytes - SizeOf[u] BY <1>0, <1>5 DEF FinalizeTx, Account, RowsOK
  <2> QED BY <1>0, <2>2, <2>3, <2>4
<1>6. ASSUME NEW old, PruneTx(old) PROVE location' = location /\ usedBytes' = usedBytes
  BY <1>6 DEF PruneTx
<1>7. CASE UNCHANGED tables BY <1>1, <1>7 DEF tables
<1> QED BY <1>1, <1>2, <1>3, <1>4, <1>5, <1>6, <1>7 DEF TableStep

\* usedBytes is exactly what the index holds: each publication, overwrite and delete
\* is charged once, whichever of the request and the worker ends it.
THEOREM UsageExact == Spec => []UsedBytesExact
<1>1. Init => UsedBytesExact
  <2>1. Init => Stored = {} BY DEF Init, TablesInit, Stored, Indexed
  <2> QED BY <2>1, BytesOfNone DEF Init, TablesInit, UsedBytesExact
<1>2. IInv /\ UsedBytesExact /\ [Next]_vars => UsedBytesExact'
  <2> SUFFICES ASSUME IInv, UsedBytesExact, [Next]_vars PROVE usedBytes' = Bytes(Stored')
    BY DEF UsedBytesExact
  <2>0. TableStep /\ IInv' BY StepRows, NextIInv
  <2>1. Stored \in SUBSET Uploads /\ usedBytes = Bytes(Stored)
    BY DEF IInv, IndexAgreesWithLocations, UsedBytesExact
  <2>2. ASSUME NEW u \in Uploads, u \notin Stored, Replaced(u) \subseteq Stored,
               Stored' = (Stored \ Replaced(u)) \cup {u},
               usedBytes' = usedBytes + UsageDelta(u, record[KeyOf[u]])
        PROVE  usedBytes' = Bytes(Stored')
    <3> DEFINE kept == Stored \ Replaced(u)
    <3>1. Bytes(kept) \in Nat /\ Bytes(Stored) \in Nat /\ SizeOf[u] \in Nat BY <2>1, BytesFacts
    <3>2. Bytes(Stored') = Bytes(kept) + SizeOf[u] BY <2>1, <2>2, BytesFacts
    <3>3. CASE record[KeyOf[u]].state = "AVAILABLE"
      <4> DEFINE old == record[KeyOf[u]].at
      <4>1. old \in Stored /\ kept = Stored \ {old} BY <2>2, <3>3 DEF Replaced
      <4>2. Bytes(Stored) = Bytes(kept) + SizeOf[old] /\ SizeOf[old] \in Nat
        BY <2>1, <4>1, BytesFacts
      <4>3. usedBytes' = usedBytes + (SizeOf[u] - SizeOf[old]) BY <2>2, <3>3 DEF UsageDelta
      <4> QED BY <2>1, <3>1, <3>2, <4>2, <4>3
    <3>4. CASE record[KeyOf[u]].state # "AVAILABLE"
      <4>1. kept = Stored BY <3>4 DEF Replaced
      <4>2. usedBytes' = usedBytes + SizeOf[u] BY <2>2, <3>4 DEF UsageDelta
      <4> QED BY <2>1, <3>2, <4>1, <4>2
    <3> QED BY <3>3, <3>4
  <2>3. ASSUME NEW u \in Uploads, u \in Stored, Stored' = Stored \ {u},
               usedBytes' = usedBytes - SizeOf[u]
        PROVE  usedBytes' = Bytes(Stored')
    <3>1. Bytes(Stored) = Bytes(Stored') + SizeOf[u] BY <2>1, <2>3, BytesFacts
    <3>2. Bytes(Stored') \in Nat /\ SizeOf[u] \in Nat BY <2>1, <2>3, BytesFacts
    <3> QED BY <2>1, <2>3, <3>1, <3>2
  <2> QED BY <2>0, <2>1, <2>2, <2>3, StoredStep
<1> QED BY <1>1, <1>2, Inductive, PTL DEF Spec

LEMMA IndexedFinite == IsFiniteSet(Indexed) /\ Cardinality(Indexed) \in Nat
<1>1. Indexed \in SUBSET Keys BY DEF Indexed
<1> QED BY <1>1, RequestAssumption, FS_Subset, FS_CardinalityType

\* How a step moves the index: a key enters it, leaves it, or none does.
LEMMA IndexedStep ==
  ASSUME RowsOK, IndexAgreesWithLocations, TableStep
  PROVE  \/ \E k \in Keys : /\ k \notin Indexed /\ Indexed' = Indexed \cup {k}
                            /\ objectCount' = objectCount + 1
         \/ \E k \in Keys : /\ k \in Indexed /\ Indexed' = Indexed \ {k}
                            /\ objectCount' = objectCount - 1
         \/ Indexed' = Indexed /\ objectCount' = objectCount
<1> USE RequestAssumption DEF counters, Indexed
<1>1. ASSUME NEW u \in Uploads,
             \/ MarkFinalizedTx(u) \/ CloseRetainedTx(u) \/ PassTx(u)
      PROVE  Indexed' = Indexed /\ objectCount' = objectCount
  BY <1>1 DEF MarkFinalizedTx, CloseRetainedTx, PassTx
<1>2. ASSUME NEW u \in Uploads,
             ReserveTx(u) \/ ReleaseTx(u, "ABORTED") \/ ReleaseTx(u, "EXPIRED")
      PROVE  Indexed' = Indexed /\ objectCount' = objectCount
  BY <1>2 DEF ReserveTx, ReleaseTx, Account, RowsOK
<1>3. ASSUME NEW u \in Uploads, ClaimTx(u) \/ RevertTx(u)
      PROVE  Indexed' = Indexed /\ objectCount' = objectCount
  <2>1. \A k \in Keys : record[k].state \in {"AVAILABLE", "DELETING"}
                        <=> record'[k].state \in {"AVAILABLE", "DELETING"}
    BY <1>3 DEF ClaimTx, RevertTx, RowsOK
  <2> QED BY <1>3, <2>1 DEF ClaimTx, RevertTx
<1>4. ASSUME NEW u \in Uploads, PublishTx(u)
      PROVE  \/ /\ KeyOf[u] \notin Indexed /\ Indexed' = Indexed \cup {KeyOf[u]}
                /\ objectCount' = objectCount + 1
             \/ Indexed' = Indexed /\ objectCount' = objectCount
  <2>1. KeyOf[u] \in Keys OBVIOUS
  <2>2. \A k \in Keys : k \in Indexed' <=> k = KeyOf[u] \/ k \in Indexed
    BY <1>4, <2>1 DEF PublishTx, RowsOK
  <2>3. Indexed' = Indexed \cup {KeyOf[u]} BY <2>1, <2>2
  <2>4. CASE record[KeyOf[u]].state = "AVAILABLE"
    <3>1. objectCount' = objectCount BY <1>4, <2>4 DEF PublishTx, Account, RowsOK
    <3> QED BY <2>1, <2>3, <2>4, <3>1
  <2>5. CASE record[KeyOf[u]].state # "AVAILABLE"
    <3>1. KeyOf[u] \notin Indexed BY <1>4, <2>5 DEF PublishTx, MayPublish
    <3>2. objectCount' = objectCount + 1 BY <1>4, <2>5 DEF PublishTx, Account, RowsOK
    <3> QED BY <2>3, <3>1, <3>2
  <2> QED BY <2>4, <2>5
<1>5. ASSUME NEW u \in Uploads, FinalizeTx(u)
      PROVE  /\ KeyOf[u] \in Indexed /\ Indexed' = Indexed \ {KeyOf[u]}
             /\ objectCount' = objectCount - 1
  <2>1. KeyOf[u] \in Indexed BY <1>5 DEF FinalizeTx
  <2>2. \A k \in Keys : k \in Indexed' <=> k # KeyOf[u] /\ k \in Indexed
    BY <1>5 DEF FinalizeTx, RowsOK
  <2>3. objectCount' = objectCount - 1 BY <1>5 DEF FinalizeTx, Account, RowsOK
  <2> QED BY <2>1, <2>2, <2>3
<1>6. ASSUME NEW old, PruneTx(old) PROVE Indexed' = Indexed /\ objectCount' = objectCount
  BY <1>6 DEF PruneTx
<1>7. CASE UNCHANGED tables BY <1>7 DEF tables
<1> QED BY <1>1, <1>2, <1>3, <1>4, <1>5, <1>6, <1>7 DEF TableStep

\* The object count is the number of objects in the index, each delete counted
\* once although a request and the worker may both finalise it.
THEOREM ObjectCountHolds == Spec => []ObjectCountExact
<1>1. Init => ObjectCountExact
  <2>1. Init => Indexed = {} BY DEF Init, TablesInit, Indexed
  <2> QED BY <2>1, FS_EmptySet DEF ObjectCountExact, Init, TablesInit
<1>2. IInv /\ ObjectCountExact /\ [Next]_vars => ObjectCountExact'
  <2> SUFFICES ASSUME IInv, ObjectCountExact, [Next]_vars PROVE ObjectCountExact' OBVIOUS
  <2> USE DEF ObjectCountExact
  <2>0. RowsOK /\ TableStep /\ IndexAgreesWithLocations BY StepRows DEF IInv
  <2>1. IsFiniteSet(Indexed) /\ Cardinality(Indexed) \in Nat BY IndexedFinite
  <2>2. ASSUME NEW k, k \notin Indexed, Indexed' = Indexed \cup {k},
               objectCount' = objectCount + 1
        PROVE  ObjectCountExact'
    BY <2>1, <2>2, FS_AddElement
  <2>3. ASSUME NEW k, k \in Indexed, Indexed' = Indexed \ {k},
               objectCount' = objectCount - 1
        PROVE  ObjectCountExact'
    BY <2>1, <2>3, FS_RemoveElement
  <2> QED BY <2>0, <2>2, <2>3, IndexedStep
<1> QED BY <1>1, <1>2, Inductive, PTL DEF Spec

\* No two sessions share an idempotency key, whichever of two initiations with
\* the same key commits first.
THEOREM TokensUnique == Spec => []OneSessionPerToken
<1>1. Init => OneSessionPerToken
  BY DEF Init, TablesInit, OneSessionPerToken, Exists
<1>2. IInv /\ OneSessionPerToken /\ [Next]_vars => OneSessionPerToken'
  <2> SUFFICES ASSUME IInv, OneSessionPerToken, [Next]_vars PROVE OneSessionPerToken' OBVIOUS
  <2>0. RowsOK /\ TableStep BY StepRows
  <2>1. ASSUME \A v \in Uploads : Exists(v)' => Exists(v) PROVE OneSessionPerToken'
    BY <2>1 DEF OneSessionPerToken
  <2>2. ASSUME session' = session PROVE OneSessionPerToken'
    BY <2>1, <2>2 DEF Exists
  <2>3. ASSUME NEW u \in Uploads, ReserveTx(u) PROVE OneSessionPerToken'
    <3>1. \A v \in Uploads : Exists(v)' <=> v = u \/ Exists(v)
      BY <2>0, <2>3 DEF ReserveTx, Exists, RowsOK
    <3>2. \A v \in Uploads : Exists(v) => TokenOf[v] # TokenOf[u]
      BY <2>3 DEF ReserveTx, FreshToken
    <3> QED BY <3>1, <3>2 DEF OneSessionPerToken
  <2>4. ASSUME NEW u \in Uploads,
               PublishTx(u) \/ ReleaseTx(u, "ABORTED") \/ ReleaseTx(u, "EXPIRED")
        PROVE  OneSessionPerToken'
    <3>1. Exists(u) BY <2>4 DEF PublishTx, MayPublish, ReleaseTx, Exists
    <3>2. \A v \in Uploads : v # u => session'[v] = session[v]
      BY <2>0, <2>4 DEF PublishTx, ReleaseTx, RowsOK
    <3> QED BY <2>1, <3>1, <3>2 DEF Exists
  <2>5. ASSUME NEW u \in Uploads,
               \/ MarkFinalizedTx(u) \/ ClaimTx(u) \/ RevertTx(u) \/ FinalizeTx(u)
               \/ CloseRetainedTx(u) \/ PassTx(u)
        PROVE  session' = session
    BY <2>5 DEF MarkFinalizedTx, ClaimTx, RevertTx, FinalizeTx, CloseRetainedTx, PassTx
  <2>6. UNCHANGED tables => session' = session BY DEF tables
  <2>7. ASSUME NEW old, PruneTx(old) PROVE OneSessionPerToken'
    BY <2>0, <2>1, <2>7 DEF PruneTx, Exists, RowsOK
  <2> QED BY <2>0, <2>2, <2>3, <2>4, <2>5, <2>6, <2>7 DEF TableStep
<1> QED BY <1>1, <1>2, Inductive, PTL DEF Spec

-----------------------------------------------------------------------------
(* The implementation of ObjectLibrary. *)

LEMMA LibraryInit == Init => Library!Init
BY RequestAssumption DEF Init, TablesInit, Library!Init, Fate

LEMMA LibraryStep == IInv /\ IInv' /\ [Next]_vars => [Library!Next]_(Library!library)
<1> SUFFICES ASSUME IInv, IInv', [Next]_vars PROVE [Library!Next]_(Library!library) OBVIOUS
<1> DEFINE fate == [u \in Uploads |-> Fate(u)]
           shelf == [k \in Keys |-> record[k].at]
           leaving == {k \in Keys : record[k].state = "DELETING"}
           Stutter == fate' = fate /\ shelf' = shelf /\ leaving' = leaving
<1>0. /\ RowsOK /\ RowsOK' /\ TableStep
      /\ PublishedSessionClosed /\ IndexAgreesWithLocations
  BY StepRows DEF IInv
<1>k. \A u \in Uploads : KeyOf[u] \in Keys BY RequestAssumption
<1>s. Stutter => [Library!Next]_(Library!library)
  BY DEF Library!library
<1>d. \A u \in Uploads : Library!Open(u) \/ Library!Drop(u) \/ Library!Keep(u) => Library!Next
  BY DEF Library!Next
<1>e. \A k \in Keys : Library!Claim(k) \/ Library!Restore(k) \/ Library!Remove(k) => Library!Next
  BY DEF Library!Next
<1>1. ASSUME UNCHANGED <<session, record, location>> PROVE Stutter
  BY <1>1 DEF Fate
<1>2. ASSUME NEW u \in Uploads, MarkFinalizedTx(u) \/ PassTx(u) PROVE Stutter
  BY <1>1, <1>2 DEF MarkFinalizedTx, PassTx
<1>3. ASSUME NEW u \in Uploads, ReserveTx(u) PROVE Library!Open(u)
  <2>1. session' = [session EXCEPT ![u] = "INITIATED"] /\ record' = record /\ location' = location
    BY <1>3 DEF ReserveTx
  <2>2. session[u] = "absent" /\ location[u] = "absent"
    BY <1>0, <1>3 DEF ReserveTx, PublishedSessionClosed
  <2>3. fate[u] = "new" /\ fate' = [fate EXCEPT ![u] = "open"]
    BY <1>0, <2>1, <2>2 DEF Fate, RowsOK
  <2> QED BY <2>1, <2>3 DEF Library!Open, Library!Decide
<1>4. ASSUME NEW u \in Uploads, ReleaseTx(u, "ABORTED") \/ ReleaseTx(u, "EXPIRED")
      PROVE  Library!Drop(u) \/ Stutter
  <2>1. PICK outcome \in {"ABORTED", "EXPIRED"} :
          session' = [session EXCEPT ![u] = outcome] /\ record' = record /\ location' = location
    BY <1>4 DEF ReleaseTx
  <2>2. CASE session[u] = "INITIATED"
    <3>1. location[u] = "absent" BY <1>0, <2>2 DEF PublishedSessionClosed
    <3>2. fate[u] = "open" /\ fate' = [fate EXCEPT ![u] = "dropped"]
      BY <1>0, <2>1, <2>2, <3>1 DEF Fate, RowsOK
    <3> QED BY <2>1, <3>2 DEF Library!Drop, Library!Decide
  <2>3. CASE session[u] # "INITIATED"
    <3>1. session[u] # "absent" BY <1>4 DEF ReleaseTx, Exists
    <3>2. fate' = fate BY <1>0, <2>1, <2>3, <3>1 DEF Fate, RowsOK
    <3> QED BY <2>1, <3>2
  <2> QED BY <2>2, <2>3
<1>5. ASSUME NEW u \in Uploads, PublishTx(u) PROVE Library!Keep(u)
  <2>1. session[u] = "INITIATED" /\ record[KeyOf[u]].state # "DELETING"
    BY <1>5 DEF PublishTx, MayPublish
  <2>2. location[u] = "absent" BY <1>0, <2>1 DEF PublishedSessionClosed
  <2>3. /\ session' = [session EXCEPT ![u] = "COMPLETED"]
        /\ record' = [record EXCEPT ![KeyOf[u]] = [state |-> "AVAILABLE", at |-> u]]
        /\ location'[u] = "ACTIVE"
        /\ \A v \in Uploads : v # u => (location'[v] = "absent" <=> location[v] = "absent")
    BY <1>5 DEF PublishTx, Located
  <2>4. fate[u] = "open" BY <2>1, <2>2 DEF Fate
  <2>5. ASSUME NEW v \in Uploads PROVE Fate(v)' = IF v = u THEN "kept" ELSE Fate(v)
    BY <1>0, <2>3 DEF Fate, RowsOK
  <2>6. fate' = [fate EXCEPT ![u] = "kept"] BY <2>5
  <2>7. shelf' = [shelf EXCEPT ![KeyOf[u]] = u] BY <1>0, <1>k, <2>3 DEF RowsOK
  <2>8. leaving' = leaving BY <1>0, <1>k, <2>1, <2>3 DEF RowsOK
  <2>9. KeyOf[u] \notin leaving BY <2>1
  <2> QED BY <2>4, <2>6, <2>7, <2>8, <2>9 DEF Library!Keep, Library!Decide
<1>6. ASSUME NEW u \in Uploads, ClaimTx(u) PROVE Library!Claim(KeyOf[u])
  <2>1. record[KeyOf[u]].state = "AVAILABLE" /\ record[KeyOf[u]].at = u
    BY <1>6 DEF ClaimTx
  <2>2. \A k \in Keys : record'[k].at = record[k].at
    BY <1>0, <1>6 DEF ClaimTx, RowsOK
  <2>a. \A k \in Keys : k # KeyOf[u] => record'[k] = record[k]
    BY <1>0, <1>6 DEF ClaimTx, RowsOK
  <2>3. record'[KeyOf[u]].state = "DELETING" BY <1>0, <1>k, <1>6 DEF ClaimTx, RowsOK
  <2>4. shelf' = shelf BY <2>2
  <2>5. leaving' = leaving \cup {KeyOf[u]} BY <1>k, <2>a, <2>3
  <2>6. fate' = fate BY <1>6 DEF ClaimTx, Fate
  <2>7. shelf[KeyOf[u]] # NoUpload /\ KeyOf[u] \notin leaving
    BY <1>k, <2>1, RequestAssumption
  <2> QED BY <2>4, <2>5, <2>6, <2>7 DEF Library!Claim
<1>7. ASSUME NEW u \in Uploads, RevertTx(u) PROVE Library!Restore(KeyOf[u]) \/ Stutter
  <2>1. \A k \in Keys : record'[k].at = record[k].at
    BY <1>0, <1>7 DEF RevertTx, RowsOK
  <2>a. \A k \in Keys : k # KeyOf[u] => record'[k] = record[k]
    BY <1>0, <1>7 DEF RevertTx, RowsOK
  <2>2. record'[KeyOf[u]].state =
          IF record[KeyOf[u]].state = "DELETING" THEN "AVAILABLE" ELSE record[KeyOf[u]].state
    BY <1>0, <1>k, <1>7 DEF RevertTx, RowsOK
  <2>3. shelf' = shelf BY <2>1
  <2>4. leaving' = leaving \ {KeyOf[u]} BY <1>k, <2>a, <2>2
  <2>5. fate' = fate BY <1>7 DEF RevertTx, Fate
  <2>6. KeyOf[u] \notin leaving => leaving' = leaving BY <2>4
  <2> QED BY <2>3, <2>4, <2>5, <2>6 DEF Library!Restore
<1>8. ASSUME NEW u \in Uploads, FinalizeTx(u) PROVE Library!Remove(KeyOf[u])
  <2>1. record[KeyOf[u]].state = "DELETING" BY <1>8 DEF FinalizeTx
  <2>2. record' = [record EXCEPT ![KeyOf[u]] = [state |-> "DELETED", at |-> NoUpload]]
    BY <1>8 DEF FinalizeTx
  <2>3. shelf' = [shelf EXCEPT ![KeyOf[u]] = NoUpload] BY <1>0, <1>k, <2>2 DEF RowsOK
  <2>4. leaving' = leaving \ {KeyOf[u]} BY <1>0, <1>k, <2>2 DEF RowsOK
  <2>5. \A v \in Uploads : location'[v] = "absent" <=> location[v] = "absent"
    BY <1>0, <1>8 DEF FinalizeTx, RowsOK
  <2>6. fate' = fate BY <1>8, <2>5 DEF FinalizeTx, Fate
  <2>7. KeyOf[u] \in leaving BY <1>k, <2>1
  <2> QED BY <2>3, <2>4, <2>6, <2>7 DEF Library!Remove
<1>9. ASSUME NEW u \in Uploads, CloseRetainedTx(u) PROVE Stutter
  <2>1. \A v \in Uploads : location'[v] = "absent" <=> location[v] = "absent"
    BY <1>0, <1>9 DEF CloseRetainedTx, RowsOK
  <2> QED BY <1>9, <2>1 DEF CloseRetainedTx, Fate
<1>10. ASSUME UNCHANGED tables PROVE Stutter
  BY <1>0, <1>1, <1>10 DEF tables
<1>11. ASSUME NEW old \in SUBSET {u \in Uploads :
                                   session[u] \in {"COMPLETED", "ABORTED", "EXPIRED"}},
              PruneTx(old)
       PROVE  Stutter
  <2>1. \A v \in Uploads : Fate(v)' = Fate(v)
    BY <1>0, <1>11 DEF PruneTx, Fate, RowsOK
  <2> QED BY <1>11, <2>1 DEF PruneTx
<1> HIDE DEF Stutter
<1> QED BY <1>0, <1>k, <1>s, <1>d, <1>e, <1>2, <1>3, <1>4, <1>5, <1>6, <1>7, <1>8, <1>9, <1>10,
           <1>11 DEF TableStep

\* The storage core implements its contract: an attempt is decided once, a key
\* shows the attempt kept last, and nothing replaces what a delete holds.
THEOREM LibraryImplemented == Spec => ImplementsLibrary
<1> QED BY LibraryInit, LibraryStep, Inductive, PTL DEF Spec, ImplementsLibrary, Library!Spec
-----------------------------------------------------------------------------
(* What a finalised delete leaves at the provider. *)

\* Once an attempt has a location it keeps one, so that what a delete or the
\* worker found is still there when they come to it.
Published(u) == location[u] # "absent"

\* Only a multipart upload can be assembled after its object was deleted: of
\* the other modes DeletedIsGone asks for less.
Unassembled(u) == Multipart(u) => blob[u] = "absent"

\* A request writes in the mode of its attempt, has an attempt of its own while
\* it creates a multipart upload, and publishes none whose upload is open.
Writes(r) ==
  LET u == req[r].on
  IN  /\ At(r, "put") => ModeOf[u] = "PROXIED"
      /\ At(r, "assemble") => Multipart(u)
      /\ At(r, "create") => /\ Multipart(u) /\ session[u] = "absent"
                            /\ blob[u] = "absent" /\ u \notin parts
                            /\ \A q \in Requests \ {r} : req[q].on # u
      /\ At(r, "publish") /\ Multipart(u) => u \notin parts
RequestWrites == \A r \in Requests : Writes(r)

\* Only direct attempts have urls, only an attempt with a url is written without
\* a request, and the parts of an upload are gone once it is stored or shown.
AttemptBytes ==
  \A u \in Uploads :
    /\ u \in signed => ModeOf[u] = "DIRECT"
    /\ ModeOf[u] = "DIRECT" /\ blob[u] # "absent" => u \in signed
    /\ Multipart(u) /\ (Published(u) \/ blob[u] # "absent") => u \notin parts
    /\ location[u] = "DELETED" => Unassembled(u)

\* A delete and the worker's cleanup finalise what they have erased.
DeleteErases ==
  \A d \in Deleters :
    /\ ~DeleteAt(d, "idle") => Published(del[d].on)
    /\ DeleteAt(d, "finalize") => Unassembled(del[d].on)

WorkerErases ==
  In("deleting") \/ In("retained") =>
    /\ \A u \in worker.todo : Published(u)
    /\ worker.at # "next" => Published(worker.on)
    /\ worker.at = "commit" => Unassembled(worker.on)

GoneInv == IInv /\ RequestWrites /\ AttemptBytes /\ DeleteErases /\ WorkerErases

\* What a step can do to the sessions and the locations, and who does it.
RowMove ==
  \/ /\ location' = location
     /\ \A u \in Uploads : session[u] = "absent" => session'[u] = "absent"
  \/ \E r \in Requests : At(r, "reserve") /\ ReserveTx(req[r].on)
  \/ \E r \in Requests : At(r, "publish") /\ PublishTx(req[r].on)
  \/ \E d \in Deleters : DeleteAt(d, "finalize") /\ FinalizeTx(del[d].on)
  \/ worker.at = "commit" /\ In("deleting") /\ FinalizeTx(worker.on)
  \/ worker.at = "commit" /\ In("retained") /\ CloseRetainedTx(worker.on)

LEMMA NextRowMove == ASSUME IInv, [Next]_vars PROVE RowMove
<1>0. RowsOK /\ OnUploads BY DEF IInv, TypeOK, TablesOK
<1>1. UNCHANGED tables => RowMove BY DEF tables, RowMove
<1>2. ASSUME NEW u, NEW o, o # "absent", ReleaseTx(u, o) PROVE RowMove
  BY <1>0, <1>2 DEF ReleaseTx, Exists, RowMove, RowsOK
<1>3. CASE UNCHANGED vars BY <1>1, <1>3 DEF vars
<1>4. CASE UploadNext
  <2>1. ASSUME NEW r \in Requests, NEW u \in Uploads,
               \/ Initiate(r, u) \/ ProxyUpload(r, u) \/ PresignPart(r, u)
               \/ Complete(r, u) \/ Abort(r, u)
        PROVE  RowMove
    BY <1>1, <2>1 DEF Initiate, ProxyUpload, PresignPart, Complete, ReadSession, Abort, store
  <2>2. ASSUME NEW r \in Requests,
               \/ CreateMultipart(r) \/ AbortUnreserved(r) \/ Presign(r) \/ PutProxied(r)
               \/ CompleteProxied(r) \/ Assemble(r) \/ Head(r) \/ DeleteReplaced(r)
               \/ CleanupFailed(r) \/ CleanupFinalized(r) \/ AbortErase(r)
               \/ ReleaseRead(r) \/ RequestLost(r)
        PROVE  RowMove
    BY <1>1, <2>2 DEF CreateMultipart, AbortUnreserved, Presign, PutProxied, CompleteProxied,
         ReadSession, Assemble, Head, DeleteReplaced, CleanupFailed, CleanupFinalized,
         AbortErase, ReleaseRead, RequestLost, Call, store
  <2>3. ASSUME NEW r \in Requests, Reserve(r) PROVE RowMove
    BY <1>1, <2>3 DEF Reserve, Transaction, RowMove
  <2>4. ASSUME NEW r \in Requests, Publish(r) PROVE RowMove
    BY <1>1, <2>4 DEF Publish, Transaction, RowMove
  <2>5. ASSUME NEW r \in Requests, MarkFinalized(r) PROVE RowMove
    BY <1>1, <2>5 DEF MarkFinalized, MarkFinalizedTx, Transaction, RowMove
  <2>6. ASSUME NEW r \in Requests, AbortCommit(r) \/ ReleaseCommit(r) PROVE RowMove
    BY <1>1, <1>2, <2>6 DEF AbortCommit, ReleaseCommit, CloseTx, Transaction
  <2>7. ASSUME NEW u \in Uploads, InitiateAgain(u) \/ ClientPut(u) \/ Expires(u) PROVE RowMove
    BY <1>1, <2>7 DEF InitiateAgain, ClientPut, Expires, PassTx, RowMove
  <2> QED BY <1>4, <2>1, <2>2, <2>3, <2>4, <2>5, <2>6, <2>7 DEF UploadNext
<1>5. CASE DeleteNext
  <2>1. ASSUME NEW d \in Deleters, NEW k \in Keys, Delete(d, k) PROVE RowMove
    BY <1>1, <2>1 DEF Delete
  <2>2. ASSUME NEW d \in Deleters, DeleteErase(d) \/ DeleteLost(d) PROVE RowMove
    BY <1>1, <2>2 DEF DeleteErase, DeleteLost, Call
  <2>3. ASSUME NEW d \in Deleters, DeleteClaim(d) \/ DeleteRevert(d) PROVE RowMove
    BY <1>1, <2>3 DEF DeleteClaim, DeleteRevert, ClaimTx, RevertTx, Transaction, RowMove
  <2>4. ASSUME NEW d \in Deleters, DeleteFinalize(d) PROVE RowMove
    BY <1>1, <2>4 DEF DeleteFinalize, Transaction, RowMove
  <2> QED BY <1>5, <2>1, <2>2, <2>3, <2>4 DEF DeleteNext
<1>6. CASE WorkerNext
  <2>1. ASSUME NEW u \in Uploads, TakeExpired(u) \/ TakeDeleting(u) \/ TakeRetained(u)
        PROVE  RowMove
    BY <1>1, <2>1 DEF TakeExpired, TakeDeleting, TakeRetained, untouched
  <2>2. ASSUME \/ ListExpired \/ ListDeleting \/ ListRetained \/ AbortExpired \/ EraseListed
               \/ WorkerRestart
        PROVE  RowMove
    BY <1>1, <2>2 DEF ListExpired, ListDeleting, ListRetained, AbortExpired, EraseListed,
       WorkerRestart, Call, untouched
  <2>3. CASE MarkExpired BY <1>1, <1>2, <2>3 DEF MarkExpired, CloseTx, Transaction
  <2>4. \A k \in Keys : ~CloseUnlocated(k) BY DEF IInv, OnUploads, CloseUnlocated
  <2>5. CASE FinalizeDeleted BY <1>1, <2>5 DEF FinalizeDeleted, Transaction, RowMove
  <2>6. CASE CloseRetained BY <1>1, <2>6 DEF CloseRetained, Transaction, RowMove
  <2>7. CASE Prune BY <2>7 DEF Prune, PruneTx, RowMove
  <2> QED BY <1>6, <2>1, <2>2, <2>3, <2>4, <2>5, <2>6, <2>7 DEF WorkerNext, WorkerStep, NextDeleting
<1> QED BY <1>3, <1>4, <1>5, <1>6 DEF Next

\* The same, one attempt at a time.
LEMMA RowsOfAttempt ==
  ASSUME IInv, [Next]_vars, NEW u \in Uploads
  PROVE  /\ Published(u) => Published(u)'
         /\ Published(u)' => Published(u)
                             \/ \E r \in Requests : At(r, "publish") /\ req[r].on = u
         /\ session[u] = "absent" =>
              session'[u] = "absent" \/ \E r \in Requests : At(r, "reserve") /\ req[r].on = u
         /\ location'[u] = "DELETED" =>
              \/ location[u] = "DELETED"
              \/ \E d \in Deleters : DeleteAt(d, "finalize") /\ del[d].on = u
              \/ worker.at = "commit" /\ (In("deleting") \/ In("retained")) /\ worker.on = u
<1> USE DEF Published
<1>0. RowMove /\ RowsOK /\ OnUploads BY NextRowMove DEF IInv, TypeOK, TablesOK
<1>1. ASSUME NEW r \in Requests, At(r, "reserve"), ReserveTx(req[r].on)
      PROVE  /\ location' = location
             /\ session[u] = "absent" => session'[u] = "absent" \/ req[r].on = u
  BY <1>0, <1>1 DEF ReserveTx, RowsOK
<1>2. ASSUME NEW r \in Requests, At(r, "publish"), PublishTx(req[r].on)
      PROVE  /\ location'[u] = location[u] \/ req[r].on = u \/ location'[u] = "RETAINED"
             /\ Published(u) => Published(u)'
             /\ location'[u] = "DELETED" => location'[u] = location[u]
             /\ Published(u)' => Published(u) \/ req[r].on = u
             /\ session[u] = "absent" => session'[u] = "absent"
  <2>1. location' = Located(req[r].on, record[KeyOf[req[r].on]])
        /\ session' = [session EXCEPT ![req[r].on] = "COMPLETED"]
        /\ session[req[r].on] = "INITIATED"
    BY <1>2 DEF PublishTx, MayPublish
  <2>2. location'[u] \in {"ACTIVE", "RETAINED", location[u]}
        /\ (req[r].on # u => location'[u] = location[u] \/ location[u] = "ACTIVE")
    BY <2>1 DEF Located
  <2>3. session[u] = "absent" => session'[u] = "absent"
    BY <1>0, <2>1 DEF RowsOK
  <2>4. req[r].on # u => (location'[u] = location[u] \/ location'[u] = "RETAINED")
    BY <2>1 DEF Located
  <2>5. Published(u) => Published(u)' BY <2>2
  <2> QED BY <2>2, <2>3, <2>4, <2>5
<1>3. ASSUME NEW v, FinalizeTx(v) \/ CloseRetainedTx(v)
      PROVE  /\ session' = session
             /\ \/ location'[u] = location[u]
                \/ location'[u] = "DELETED" /\ v = u /\ Published(u)
  <2>1. CASE FinalizeTx(v)
    <3>1. location' = [location EXCEPT ![v] = IF @ = "ACTIVE" THEN "DELETED" ELSE @]
          /\ session' = session
      BY <2>1 DEF FinalizeTx
    <3> QED BY <1>0, <3>1 DEF RowsOK
  <2>2. CASE CloseRetainedTx(v)
    <3>1. location' = [location EXCEPT ![v] = "DELETED"] /\ location[v] = "RETAINED"
          /\ session' = session
      BY <2>2 DEF CloseRetainedTx
    <3> QED BY <1>0, <3>1 DEF RowsOK
  <2> QED BY <1>3, <2>1, <2>2
<1>4. CASE /\ location' = location
           /\ \A v \in Uploads : session[v] = "absent" => session'[v] = "absent"
  BY <1>4
<1>5. CASE \E r \in Requests : At(r, "reserve") /\ ReserveTx(req[r].on)
  BY <1>1, <1>5
<1>6. CASE \E r \in Requests : At(r, "publish") /\ PublishTx(req[r].on)
  <2>1. PICK r \in Requests : At(r, "publish") /\ PublishTx(req[r].on) BY <1>6
  <2> QED BY <1>2, <2>1
<1>7. CASE \E d \in Deleters : DeleteAt(d, "finalize") /\ FinalizeTx(del[d].on)
  <2>1. PICK d \in Deleters : DeleteAt(d, "finalize") /\ FinalizeTx(del[d].on) BY <1>7
  <2>2. \/ location'[u] = location[u]
        \/ location'[u] = "DELETED" /\ del[d].on = u /\ Published(u)
    BY <1>3, <2>1
  <2>3. session' = session BY <1>3, <2>1
  <2> QED BY <2>1, <2>2, <2>3
<1>8. CASE \/ worker.at = "commit" /\ In("deleting") /\ FinalizeTx(worker.on)
           \/ worker.at = "commit" /\ In("retained") /\ CloseRetainedTx(worker.on)
  <2>1. /\ session' = session
        /\ \/ location'[u] = location[u]
           \/ location'[u] = "DELETED" /\ worker.on = u /\ Published(u)
    BY <1>3, <1>8
  <2> QED BY <1>8, <2>1
<1> QED BY <1>0, <1>4, <1>5, <1>6, <1>7, <1>8 DEF RowMove

-----------------------------------------------------------------------------
\* What a step can do to the bytes of an attempt: nothing or a removal, the end
\* of a multipart upload, a client's or a proxied write, or a new upload.
ByteMove(u) ==
  \/ blob'[u] \in {blob[u], "absent"} /\ (u \in parts' => u \in parts)
  \/ Multipart(u) /\ u \in parts /\ u \notin parts'
  \/ ~Multipart(u) /\ (ModeOf[u] = "DIRECT" => u \in signed) /\ (u \in parts' => u \in parts)
  \/ \E r \in Requests : /\ At(r, "create") /\ req[r].on = u /\ req'[r].at # "create"
                         /\ blob' = blob /\ UNCHANGED tables

ByteMoves ==
  /\ \A u \in Uploads : ByteMove(u)
  /\ signed \subseteq signed'
  /\ \A u \in signed' : u \in signed \/ ModeOf[u] = "DIRECT"

LEMMA NextByteMoves ==
  ASSUME IInv, RequestWrites, AttemptBytes, [Next]_vars PROVE ByteMoves
<1>0. ProviderOK /\ OnUploads /\ RequestsOK BY DEF IInv, TypeOK, TablesOK
<1>1. UNCHANGED <<provider, signed>> => ByteMoves
  BY DEF provider, ByteMoves, ByteMove
<1>2. ASSUME NEW u, Erased(u) \/ PartsAborted(u), signed' = signed PROVE ByteMoves
  BY <1>0, <1>2 DEF Erased, PartsAborted, ByteMoves, ByteMove, ProviderOK
<1>3. CASE UNCHANGED vars BY <1>1, <1>3 DEF vars
<1>4. CASE UploadNext
  <2>1. ASSUME NEW r \in Requests, NEW u \in Uploads,
               \/ Initiate(r, u) \/ ProxyUpload(r, u) \/ PresignPart(r, u)
               \/ Complete(r, u) \/ Abort(r, u)
        PROVE  ByteMoves
    BY <1>1, <2>1 DEF Initiate, ProxyUpload, PresignPart, Complete, ReadSession, Abort, store
  <2>2. ASSUME NEW r \in Requests,
               \/ Reserve(r) \/ CompleteProxied(r) \/ MarkFinalized(r) \/ Head(r) \/ Publish(r)
               \/ AbortCommit(r) \/ ReleaseRead(r) \/ ReleaseCommit(r) \/ RequestLost(r)
        PROVE  ByteMoves
    BY <1>1, <2>2 DEF Reserve, CompleteProxied, MarkFinalized, Head, Publish, AbortCommit,
       ReleaseRead, ReleaseCommit, RequestLost, ReadSession, Transaction, store
  <2>3. ASSUME NEW r \in Requests,
               \/ AbortUnreserved(r) \/ DeleteReplaced(r) \/ CleanupFailed(r)
               \/ CleanupFinalized(r) \/ AbortErase(r)
        PROVE  ByteMoves
    BY <1>1, <1>2, <2>3 DEF AbortUnreserved, DeleteReplaced, CleanupFailed,
       CleanupFinalized, AbortErase, Call
  <2>4. ASSUME NEW r \in Requests, CreateMultipart(r) PROVE ByteMoves
    <3>1. CASE UNCHANGED provider BY <1>1, <2>4, <3>1 DEF CreateMultipart, Call
    <3>2. CASE parts' = parts \cup {req[r].on} /\ UNCHANGED blob
      <4>1. req'[r].at # "create"
        BY <1>0, <2>4 DEF CreateMultipart, Call, Goto, Answer, Serve, Becomes, Idle, RequestsOK
      <4> QED BY <2>4, <3>2, <4>1 DEF CreateMultipart, Call, ByteMoves, ByteMove
    <3> QED BY <2>4, <3>1, <3>2 DEF CreateMultipart, Call
  <2>5. ASSUME NEW r \in Requests, Presign(r) PROVE ByteMoves
    BY <2>5 DEF Presign, provider, ByteMoves, ByteMove
  <2>6. ASSUME NEW r \in Requests, PutProxied(r) PROVE ByteMoves
    <3>1. CASE UNCHANGED provider BY <1>1, <2>6, <3>1 DEF PutProxied, Call
    <3>2. ASSUME NEW data, blob' = [blob EXCEPT ![req[r].on] = data], UNCHANGED parts
          PROVE  ByteMoves
      <4>1. ModeOf[req[r].on] = "PROXIED" /\ signed' = signed
        BY <2>6 DEF PutProxied, Call, RequestWrites, Writes
      <4> QED BY <1>0, <3>2, <4>1 DEF ByteMoves, ByteMove, Multipart, ProviderOK
    <3> QED BY <2>6, <3>1, <3>2 DEF PutProxied, Call
  <2>7. ASSUME NEW r \in Requests, Assemble(r) PROVE ByteMoves
    <3>1. CASE UNCHANGED provider BY <1>1, <2>7, <3>1 DEF Assemble, Call
    <3>2. ASSUME NEW data, blob' = [blob EXCEPT ![req[r].on] = data],
                 req[r].on \in parts, parts' = parts \ {req[r].on}
          PROVE  ByteMoves
      <4>1. Multipart(req[r].on) /\ signed' = signed
        BY <2>7 DEF Assemble, Call, RequestWrites, Writes
      <4> QED BY <1>0, <3>2, <4>1 DEF ByteMoves, ByteMove, ProviderOK
    <3> QED BY <2>7, <3>1, <3>2 DEF Assemble, Call
  <2>8. ASSUME NEW u \in Uploads, ClientPut(u) PROVE ByteMoves
    <3>1. ModeOf[u] = "DIRECT" BY <2>8 DEF ClientPut, AttemptBytes
    <3> QED BY <1>0, <2>8, <3>1 DEF ClientPut, ByteMoves, ByteMove, Multipart, ProviderOK
  <2>9. ASSUME NEW u \in Uploads, InitiateAgain(u) \/ Expires(u) PROVE ByteMoves
    BY <2>9 DEF InitiateAgain, Expires, provider, ByteMoves, ByteMove
  <2> QED BY <1>4, <2>1, <2>2, <2>3, <2>4, <2>5, <2>6, <2>7, <2>8, <2>9 DEF UploadNext
<1>5. CASE DeleteNext
  BY <1>1, <1>2, <1>5 DEF DeleteNext, Delete, DeleteClaim, DeleteErase, DeleteRevert,
     DeleteFinalize, DeleteLost, Call, Transaction
<1>6. CASE WorkerNext
  BY <1>1, <1>2, <1>6 DEF WorkerNext, WorkerStep, NextDeleting, WorkerRestart, ListExpired,
     TakeExpired, AbortExpired, EraseListed, MarkExpired, ListDeleting, TakeDeleting,
     CloseUnlocated, FinalizeDeleted, ListRetained, TakeRetained, CloseRetained, Prune, Call,
     Transaction, untouched
<1> QED BY <1>3, <1>4, <1>5, <1>6 DEF Next

\* What a step makes of a request: it goes on with its attempt, with one that
\* has a session, with one that nobody else is on, or with none.
Moved(r, c) ==
  /\ req' = [req EXCEPT ![r] = c]
  /\ \/ c.on \in {req[r].on, NoUpload}
     \/ session[c.on] # "absent"
     \/ \A q \in Requests : req[q].on # c.on
  /\ c.at = "put" => ModeOf[c.on] = "PROXIED"
  /\ c.at = "assemble" => Multipart(c.on)
  /\ c.at = "create" =>
       /\ Multipart(c.on) /\ session[c.on] = "absent"
       /\ blob[c.on] = "absent" /\ c.on \notin parts
       /\ \A q \in Requests : req[q].on # c.on
       /\ UNCHANGED store
  /\ c.at = "publish" => blob[c.on] = "good" /\ UNCHANGED store

RequestMove ==
  \/ req' = req
  \/ \E r \in Requests,
        c \in [at : Steps, on : Uploads \cup {NoUpload}, fin : BOOLEAN, proxied : BOOLEAN] :
       Moved(r, c)

LEMMA NextRequestMove == ASSUME IInv, [Next]_vars PROVE RequestMove
<1> DEFINE Control == [at : Steps, on : Uploads \cup {NoUpload}, fin : BOOLEAN, proxied : BOOLEAN]
<1>0. /\ ControlsOK /\ PublishedSessionClosed /\ IndexAgreesWithLocations
      /\ \A r \in Requests : req[r] \in Control
  BY DEF IInv, TypeOK, ControlsOK, RequestsOK
<1>1. ASSUME NEW r \in Requests, NEW step \in Steps, NEW u \in Uploads \cup {NoUpload},
             NEW fin \in BOOLEAN, NEW proxied \in BOOLEAN,
             \/ u = req[r].on \/ session[u] # "absent" \/ \A q \in Requests : req[q].on # u,
             step = "put" => ModeOf[u] = "PROXIED",
             step = "assemble" => Multipart(u),
             step = "create" => /\ Multipart(u) /\ session[u] = "absent"
                                /\ blob[u] = "absent" /\ u \notin parts
                                /\ \A q \in Requests : req[q].on # u
                                /\ UNCHANGED store,
             step = "publish" => blob[u] = "good" /\ UNCHANGED store,
             Serve(r, step, u, fin, proxied)
      PROVE  RequestMove
  <2> DEFINE c == [at |-> step, on |-> u, fin |-> fin, proxied |-> proxied]
  <2>1. c \in Control OBVIOUS
  <2>2. Moved(r, c) BY <1>1 DEF Moved, Serve, Becomes
  <2> QED BY <2>1, <2>2 DEF RequestMove
<1>2. ASSUME NEW r \in Requests, Answer(r) PROVE RequestMove
  <2>1. Idle \in Control BY DEF Idle, Steps
  <2>2. Moved(r, Idle) BY <1>2 DEF Answer, Becomes, Moved, Idle
  <2> QED BY <2>1, <2>2 DEF RequestMove
<1>3. ASSUME NEW r \in Requests, NEW step \in Steps \ {"put", "assemble", "create", "publish"},
             Goto(r, step)
      PROVE  RequestMove
  BY <1>0, <1>1, <1>3 DEF Goto
<1>4. ASSUME NEW r \in Requests, Throw(r) PROVE RequestMove
  <2>1. CASE Serve(r, "reject", req[r].on, FALSE, FALSE)
    BY <1>0, <1>1, <2>1 DEF Steps
  <2> QED BY <1>2, <1>4, <2>1 DEF Throw
<1>5. ASSUME NEW r \in Requests, NEW u \in Uploads, NEW step \in Steps, NEW proxied \in BOOLEAN,
             session[u] # "absent", step \notin {"create", "publish"},
             step = "put" => ModeOf[u] = "PROXIED", step = "assemble" => Multipart(u),
             Begin(r, u, step, proxied)
      PROVE  RequestMove
  <2> DEFINE fin == u \in finalized
  <2>1. fin \in BOOLEAN /\ Serve(r, step, u, fin, proxied) BY <1>5 DEF Begin
  <2> HIDE DEF fin
  <2> QED BY <1>1, <1>5, <2>1
<1>6. ASSUME NEW r \in Requests, NEW u \in Uploads, NEW proxied \in BOOLEAN,
             ReadSession(r, u, proxied)
      PROVE  RequestMove
  <2>1. CASE Answer(r) \/ Throw(r) BY <1>2, <1>4, <2>1
  <2>2. CASE session[u] = "INITIATED" /\ Begin(r, u, "expire", proxied)
    BY <1>5, <2>2 DEF Steps
  <2>3. CASE session[u] = "INITIATED" /\ Begin(r, u, "head", proxied)
    BY <1>5, <2>3 DEF Steps
  <2>4. CASE session[u] = "INITIATED" /\ Multipart(u) /\ Begin(r, u, "assemble", proxied)
    BY <1>5, <2>4 DEF Steps
  <2> QED BY <1>6, <2>1, <2>2, <2>3, <2>4 DEF ReadSession
<1>7. CASE UploadNext
  <2>1. ASSUME NEW r \in Requests, NEW u \in Uploads, Initiate(r, u) PROVE RequestMove
    <3> DEFINE fin == u \in finalized
               step == IF Multipart(u) THEN "create" ELSE "reserve"
    <3>1. Serve(r, step, u, fin, FALSE) BY <2>1 DEF Initiate, Begin
    <3>0. fin \in BOOLEAN OBVIOUS
    <3>2. /\ step \in Steps /\ (step = "create" => Multipart(u))
          /\ step \notin {"put", "assemble", "publish"}
      BY DEF Steps
    <3>3. /\ session[u] = "absent" /\ blob[u] = "absent" /\ u \notin parts /\ UNCHANGED store
          /\ \A q \in Requests : req[q].on # u
      BY <2>1 DEF Initiate
    <3> HIDE DEF fin, step
    <3> QED BY <1>1, <3>0, <3>1, <3>2, <3>3
  <2>2. ASSUME NEW r \in Requests, NEW u \in Uploads,
               ProxyUpload(r, u) \/ PresignPart(r, u) \/ Abort(r, u)
        PROVE  RequestMove
    <3>1. session[u] # "absent" BY <2>2 DEF ProxyUpload, PresignPart, Abort
    <3>2. CASE Begin(r, u, "expire", FALSE) BY <1>5, <3>1, <3>2 DEF Steps
    <3>3. CASE Begin(r, u, "release", FALSE) BY <1>5, <3>1, <3>3 DEF Steps
    <3>4. CASE Begin(r, u, "put", TRUE) /\ ModeOf[u] = "PROXIED"
      BY <1>5, <3>1, <3>4 DEF Steps
    <3>5. CASE Begin(r, u, "erase", FALSE) BY <1>5, <3>1, <3>5 DEF Steps
    <3> QED BY <2>2, <3>2, <3>3, <3>4, <3>5 DEF ProxyUpload, PresignPart, Abort
  <2>3. ASSUME NEW r \in Requests, NEW u \in Uploads, Complete(r, u) PROVE RequestMove
    BY <1>6, <2>3 DEF Complete
  <2>4. ASSUME NEW r \in Requests, CompleteProxied(r) PROVE RequestMove
    <3>1. req[r].on \in Uploads
      BY <1>0, <2>4 DEF CompleteProxied, At, ControlsOK, OnUploads
    <3> QED BY <1>6, <2>4, <3>1 DEF CompleteProxied
  <2>5. ASSUME NEW r \in Requests,
               \/ CreateMultipart(r) \/ Reserve(r) \/ AbortUnreserved(r) \/ Presign(r)
               \/ PutProxied(r) \/ Assemble(r) \/ DeleteReplaced(r)
               \/ CleanupFailed(r) \/ CleanupFinalized(r) \/ AbortErase(r) \/ AbortCommit(r)
               \/ ReleaseRead(r) \/ ReleaseCommit(r) \/ RequestLost(r)
        PROVE  RequestMove
    <3>1. CASE CreateMultipart(r) \/ Reserve(r)
      BY <1>2, <1>3, <1>4, <3>1 DEF CreateMultipart, Reserve, Call, Transaction, Steps
    <3>5. CASE AbortUnreserved(r) \/ Presign(r)
      BY <1>2, <1>3, <1>4, <3>5 DEF AbortUnreserved, Presign, Call, Transaction, Steps
    <3>2. CASE PutProxied(r) \/ Assemble(r) \/ DeleteReplaced(r)
      BY <1>2, <1>3, <1>4, <3>2 DEF PutProxied, Assemble, DeleteReplaced, Call, Steps
    <3>3. CASE CleanupFailed(r) \/ CleanupFinalized(r) \/ AbortErase(r) \/ AbortCommit(r)
      BY <1>2, <1>3, <1>4, <3>3
      DEF CleanupFailed, CleanupFinalized, AbortErase, AbortCommit, Call, Transaction, Steps
    <3>4. CASE ReleaseRead(r) \/ ReleaseCommit(r) \/ RequestLost(r)
      BY <1>2, <1>3, <1>4, <3>4 DEF ReleaseRead, ReleaseCommit, RequestLost, Transaction, Steps
    <3> QED BY <2>5, <3>1, <3>2, <3>3, <3>4, <3>5
  <2>6. ASSUME NEW r \in Requests, MarkFinalized(r) PROVE RequestMove
    <3>1. CASE Serve(r, "head", req[r].on, TRUE, req[r].proxied)
      <4> DEFINE u == req[r].on
      <4>1. u \in Uploads \cup {NoUpload} /\ req[r].proxied \in BOOLEAN /\ "head" \in Steps
        BY <1>0 DEF Steps
      <4> QED BY <1>1, <3>1, <4>1
    <3> QED BY <1>4, <2>6, <3>1 DEF MarkFinalized, Transaction
  <2>7. ASSUME NEW r \in Requests, Head(r) PROVE RequestMove
    <3>1. CASE blob[req[r].on] = "good" /\ Goto(r, "publish")
      BY <1>0, <1>1, <2>7, <3>1 DEF Head, Goto, Steps
    <3> QED BY <1>3, <1>4, <2>7, <3>1 DEF Head, Steps
  <2>8. ASSUME NEW r \in Requests, Publish(r) PROVE RequestMove
    <3> DEFINE old == record[KeyOf[req[r].on]]
    <3>1. req[r].on \in Uploads BY <1>0, <2>8 DEF Publish, At, ControlsOK, OnUploads
    <3>2. old.state = "AVAILABLE" => old.at \in Uploads /\ session[old.at] # "absent"
      BY <1>0, <3>1, RequestAssumption
      DEF IndexAgreesWithLocations, Indexed, Stored, PublishedSessionClosed
    <3>3. CASE old.state = "AVAILABLE" /\ Serve(r, "retire", old.at, FALSE, FALSE)
      BY <1>1, <3>2, <3>3 DEF Steps
    <3> QED BY <1>2, <1>3, <1>4, <2>8, <3>3 DEF Publish, Transaction, Steps
  <2>9. ASSUME NEW u \in Uploads, InitiateAgain(u) \/ ClientPut(u) \/ Expires(u)
        PROVE  RequestMove
    BY <2>9 DEF InitiateAgain, ClientPut, Expires, actors, RequestMove
  <2> QED BY <1>7, <2>1, <2>2, <2>3, <2>4, <2>5, <2>6, <2>7, <2>8, <2>9 DEF UploadNext
<1>8. CASE DeleteNext
  BY <1>8 DEF DeleteNext, Delete, DeleteClaim, DeleteErase, DeleteRevert, DeleteFinalize,
     DeleteLost, DeleteGoto, DeleteAnswer, DeleteBecomes, Call, Transaction, RequestMove
<1>9. CASE WorkerNext
  BY <1>9 DEF WorkerNext, WorkerStep, NextDeleting, WorkerRestart, ListExpired, TakeExpired, AbortExpired,
     EraseListed, MarkExpired, ListDeleting, TakeDeleting, FinalizeDeleted, ListRetained,
     CloseUnlocated, TakeRetained, CloseRetained, Prune, Listed, Take, Skip, Then,
     NextEntry, Work, WorkerBecomes, Call, Transaction, RequestMove
<1>10. CASE UNCHANGED vars BY <1>10 DEF vars, actors, RequestMove
<1> QED BY <1>7, <1>8, <1>9, <1>10 DEF Next

-----------------------------------------------------------------------------
\* An attempt that was erased after its publication is not written again.
LEMMA StaysUnassembled ==
  ASSUME IInv, AttemptBytes, RequestWrites, [Next]_vars,
         NEW u \in Uploads, Published(u), Unassembled(u)
  PROVE  Published(u)' /\ Unassembled(u)'
<1>1. Published(u)' BY RowsOfAttempt
<1>2. ByteMove(u) BY NextByteMoves DEF ByteMoves
<1>3. Multipart(u) => u \notin parts BY DEF AttemptBytes
<1>4. Unassembled(u)' BY <1>2, <1>3 DEF ByteMove, Unassembled, Multipart
<1> QED BY <1>1, <1>4

LEMMA AttemptBytesStep ==
  ASSUME GoneInv, [Next]_vars PROVE AttemptBytes'
<1>0. /\ IInv /\ RequestWrites /\ AttemptBytes /\ DeleteErases /\ WorkerErases
      /\ ProviderOK /\ OnUploads /\ PublishedSessionClosed
  BY DEF GoneInv, IInv, TypeOK, TablesOK
<1>1. ByteMoves BY <1>0, NextByteMoves
<1> SUFFICES ASSUME NEW u \in Uploads
             PROVE  /\ u \in signed' => ModeOf[u] = "DIRECT"
                    /\ ModeOf[u] = "DIRECT" /\ blob'[u] # "absent" => u \in signed'
                    /\ Multipart(u) /\ (Published(u)' \/ blob'[u] # "absent") => u \notin parts'
                    /\ location'[u] = "DELETED" => Unassembled(u)'
  BY DEF AttemptBytes, Published, Multipart
<1>2. /\ u \in signed => ModeOf[u] = "DIRECT"
      /\ ModeOf[u] = "DIRECT" /\ blob[u] # "absent" => u \in signed
      /\ Multipart(u) /\ (Published(u) \/ blob[u] # "absent") => u \notin parts
      /\ location[u] = "DELETED" => Unassembled(u)
  BY <1>0 DEF AttemptBytes
<1>3. /\ ByteMove(u) /\ signed \subseteq signed'
      /\ u \in signed' => u \in signed \/ ModeOf[u] = "DIRECT"
  BY <1>1 DEF ByteMoves
<1>4. ASSUME NEW r \in Requests, At(r, "create"), req[r].on = u
      PROVE  Multipart(u) /\ blob[u] = "absent" /\ ~Published(u)
  BY <1>0, <1>4 DEF RequestWrites, Writes, PublishedSessionClosed, Published
<1>5. Multipart(u) => ModeOf[u] # "DIRECT" BY DEF Multipart
<1>6. u \in signed' => ModeOf[u] = "DIRECT" BY <1>2, <1>3
<1>7. ASSUME ModeOf[u] = "DIRECT", blob'[u] # "absent" PROVE u \in signed'
  BY <1>2, <1>3, <1>4, <1>5, <1>7 DEF ByteMove
<1>8. ASSUME Multipart(u), Published(u)' \/ blob'[u] # "absent" PROVE u \notin parts'
  <2>1. ASSUME Published(u)', ~Published(u) PROVE u \notin parts
    <3>1. PICK r \in Requests : At(r, "publish") /\ req[r].on = u
      BY <1>0, <2>1, RowsOfAttempt
    <3> QED BY <1>0, <1>8, <3>1 DEF RequestWrites, Writes
  <2>2. CASE blob'[u] \in {blob[u], "absent"} /\ (u \in parts' => u \in parts)
    BY <1>2, <1>8, <2>1, <2>2
  <2>3. CASE \E r \in Requests :
               At(r, "create") /\ req[r].on = u /\ blob' = blob /\ UNCHANGED tables
    <3>1. blob[u] = "absent" /\ ~Published(u) BY <1>4, <2>3
    <3>2. blob'[u] = "absent" /\ ~Published(u)' BY <2>3, <3>1 DEF tables, Published
    <3> QED BY <1>8, <3>2
  <2> QED BY <1>3, <1>8, <2>2, <2>3 DEF ByteMove
<1>9. ASSUME location'[u] = "DELETED" PROVE Unassembled(u)'
  <2>1. Published(u) /\ Unassembled(u)
    <3>1. CASE location[u] = "DELETED" BY <1>2, <3>1 DEF Published
    <3>2. CASE \E d \in Deleters : DeleteAt(d, "finalize") /\ del[d].on = u
      BY <1>0, <3>2 DEF DeleteErases, DeleteAt
    <3>3. CASE worker.at = "commit" /\ (In("deleting") \/ In("retained")) /\ worker.on = u
      BY <1>0, <3>3 DEF WorkerErases
    <3> QED BY <1>0, <1>9, <3>1, <3>2, <3>3, RowsOfAttempt
  <2> QED BY <1>0, <2>1, StaysUnassembled
<1> QED BY <1>6, <1>7, <1>8, <1>9

LEMMA RequestWritesStep ==
  ASSUME GoneInv, [Next]_vars PROVE RequestWrites'
<1>0. /\ IInv /\ RequestWrites /\ AttemptBytes /\ ProviderOK /\ OnUploads /\ RequestsOK
      /\ PublishedSessionClosed
  BY DEF GoneInv, IInv, TypeOK, TablesOK
<1>1. ByteMoves BY <1>0, NextByteMoves
<1>2. RequestMove BY <1>0, NextRequestMove
<1>3. RequestsOK' /\ OnUploads' BY <1>0, NextIInv DEF IInv, TypeOK
\* A request that goes on creating its upload still has it for itself.
<1>4. ASSUME NEW r \in Requests, NEW u, u = req[r].on, At(r, "create"), req'[r] = req[r]
      PROVE  /\ Multipart(u) /\ session'[u] = "absent"
             /\ blob'[u] = "absent" /\ u \notin parts'
             /\ \A q \in Requests \ {r} : req'[q].on # u
  <2>0. u \in Uploads BY <1>0, <1>4 DEF OnUploads, At
  <2>1. /\ Multipart(u) /\ session[u] = "absent" /\ blob[u] = "absent" /\ u \notin parts
        /\ \A q \in Requests \ {r} : req[q].on # u
    BY <1>0, <1>4 DEF RequestWrites, Writes
  <2>2. session'[u] = "absent" BY <1>0, <1>4, <2>0, <2>1, RowsOfAttempt DEF At
  <2>3. ByteMove(u) BY <1>1, <2>0 DEF ByteMoves
  <2>4. blob'[u] = "absent" /\ u \notin parts'
    BY <1>4, <2>1, <2>3 DEF ByteMove, At
  <2>5. ASSUME NEW q \in Requests \ {r} PROVE req'[q].on # u
    <3>1. CASE req'[q] = req[q] BY <2>1, <3>1
    <3>2. ASSUME NEW c, Moved(q, c) PROVE req'[q].on # u
      <4>1. req'[q] = c BY <1>0, <3>2 DEF Moved, RequestsOK
      <4>2. u # NoUpload BY <2>0, RequestAssumption
      <4> QED BY <1>4, <2>1, <3>2, <4>1, <4>2 DEF Moved
    <3>3. ASSUME NEW p \in Requests, NEW c, p # q, Moved(p, c) PROVE req'[q] = req[q]
      BY <1>0, <3>3 DEF Moved, RequestsOK
    <3> QED BY <1>2, <3>1, <3>2, <3>3 DEF RequestMove
  <2> QED BY <2>1, <2>2, <2>4, <2>5
\* One that is about to publish found its object, and no parts can be added.
<1>5. ASSUME NEW r \in Requests, NEW u, u = req[r].on, At(r, "publish"), Multipart(u)
      PROVE  u \notin parts'
  <2>0. u \in Uploads BY <1>0, <1>5 DEF OnUploads, At
  <2>1. u \notin parts BY <1>0, <1>5 DEF RequestWrites, Writes
  <2>2. \A q \in Requests : At(q, "create") => req[q].on # u
    BY <1>0, <1>5 DEF RequestWrites, Writes, At
  <2> QED BY <1>1, <2>0, <2>1, <2>2 DEF ByteMoves, ByteMove
<1>6. ASSUME NEW r \in Requests, req'[r] = req[r] PROVE Writes(r)'
  BY <1>0, <1>4, <1>5, <1>6 DEF RequestWrites, Writes, At, Multipart
<1>7. ASSUME NEW r \in Requests, NEW c, Moved(r, c) PROVE Writes(r)'
  <2>1. /\ req'[r] = c
        /\ \A q \in Requests \ {r} : req'[q] = req[q]
    BY <1>0, <1>7 DEF Moved, RequestsOK
  <2>2. c.at = "publish" => c.on \in Uploads BY <1>3, <2>1 DEF OnUploads
  <2>3. c.at = "publish" /\ Multipart(c.on) => c.on \notin parts'
    BY <1>0, <1>7, <2>2 DEF Moved, AttemptBytes, store, provider
  <2>4. c.at = "create" =>
          /\ Multipart(c.on) /\ session'[c.on] = "absent"
          /\ blob'[c.on] = "absent" /\ c.on \notin parts'
          /\ \A q \in Requests : req[q].on # c.on
    BY <1>7 DEF Moved, store, tables, provider
  <2> QED BY <1>7, <2>1, <2>3, <2>4 DEF Moved, Writes, At, Multipart
<1>8. \A r \in Requests : Writes(r)'
  <2>1. ASSUME NEW r \in Requests, NEW p \in Requests, NEW c, p # r, Moved(p, c)
        PROVE  req'[r] = req[r]
    BY <1>0, <2>1 DEF Moved, RequestsOK
  <2> QED BY <1>2, <1>6, <1>7, <2>1 DEF RequestMove
<1> QED BY <1>8 DEF RequestWrites

\* An upload request leaves the other actors where they are.
LEMMA UploadKeepsOthers == ASSUME UploadNext PROVE UNCHANGED <<del, worker>>
<1>1. ASSUME NEW r \in Requests, NEW u \in Uploads,
               \/ Initiate(r, u) \/ ProxyUpload(r, u) \/ PresignPart(r, u)
               \/ Complete(r, u) \/ Abort(r, u)
      PROVE  UNCHANGED <<del, worker>>
  BY <1>1 DEF Initiate, ProxyUpload, PresignPart, Complete, ReadSession, Abort, Begin,
       Answer, Throw, Serve, Becomes
<1>2. ASSUME NEW r \in Requests,
               \/ CreateMultipart(r) \/ Reserve(r) \/ AbortUnreserved(r) \/ Presign(r)
               \/ PutProxied(r) \/ CompleteProxied(r) \/ Assemble(r) \/ MarkFinalized(r)
               \/ Head(r) \/ Publish(r) \/ DeleteReplaced(r)
               \/ CleanupFailed(r) \/ CleanupFinalized(r) \/ AbortErase(r) \/ AbortCommit(r)
               \/ ReleaseRead(r) \/ ReleaseCommit(r) \/ RequestLost(r)
      PROVE  UNCHANGED <<del, worker>>
  BY <1>2
  DEF CreateMultipart, Reserve, AbortUnreserved, Presign, PutProxied, CompleteProxied,
        ReadSession, Begin, Assemble, MarkFinalized, Head, Publish, DeleteReplaced,
        CleanupFailed, CleanupFinalized, AbortErase, AbortCommit, ReleaseRead, ReleaseCommit,
        RequestLost, Call, Transaction, Answer, Throw, Goto, Serve, Becomes
<1>3. ASSUME NEW u \in Uploads, InitiateAgain(u) \/ ClientPut(u) \/ Expires(u)
      PROVE  UNCHANGED <<del, worker>>
  BY <1>3 DEF InitiateAgain, ClientPut, Expires, actors
<1> QED BY <1>1, <1>2, <1>3 DEF UploadNext

LEMMA DeleteErasesStep ==
  ASSUME GoneInv, [Next]_vars PROVE DeleteErases'
<1>0. /\ IInv /\ RequestWrites /\ AttemptBytes /\ DeleteErases /\ ProviderOK /\ OnUploads
      /\ DeletesOK /\ IndexAgreesWithLocations
  BY DEF GoneInv, IInv, TypeOK, TablesOK
<1> DEFINE Erases(d) == /\ ~DeleteAt(d, "idle") => Published(del[d].on)
                        /\ DeleteAt(d, "finalize") => Unassembled(del[d].on)
<1>1. ASSUME NEW d \in Deleters, del'[d] = del[d] PROVE Erases(d)'
  <2>1. CASE DeleteAt(d, "idle") BY <1>1, <2>1 DEF DeleteAt
  <2>2. CASE ~DeleteAt(d, "idle")
    <3>1. del[d].on \in Uploads /\ Published(del[d].on)
      BY <1>0, <2>2 DEF DeleteErases, OnUploads, DeleteAt
    <3>2. Published(del[d].on)' BY <1>0, <1>1, <3>1, RowsOfAttempt
    <3>3. DeleteAt(d, "finalize")' => Unassembled(del[d].on)'
      BY <1>0, <1>1, <3>1, StaysUnassembled DEF DeleteErases, DeleteAt
    <3> QED BY <3>2, <3>3
  <2> QED BY <2>1, <2>2
<1>2. CASE del' = del BY <1>1, <1>2 DEF DeleteErases
<1>3. CASE UploadNext BY <1>2, <1>3, UploadKeepsOthers
<1>4. CASE WorkerNext
  <2>1. del' = del
    BY <1>4 DEF WorkerNext, WorkerStep, NextDeleting, WorkerRestart, ListExpired, TakeExpired, AbortExpired,
       EraseListed, MarkExpired, ListDeleting, TakeDeleting, FinalizeDeleted, ListRetained,
       CloseUnlocated, TakeRetained, CloseRetained, Prune, Listed, Take, Skip, Then, NextEntry,
       Work, WorkerBecomes, Call, Transaction
  <2> QED BY <1>2, <2>1
<1>5. CASE UNCHANGED vars BY <1>2, <1>5 DEF vars, actors
<1>6. ASSUME NEW d \in Deleters, NEW step, NEW u, DeleteBecomes(d, step, u),
             step # "idle" => location'[u] # "absent",
             step = "finalize" /\ Multipart(u) => blob'[u] = "absent"
      PROVE  DeleteErases'
  <2>1. del'[d] = [at |-> step, on |-> u] /\ \A e \in Deleters \ {d} : del'[e] = del[e]
    BY <1>0, <1>6 DEF DeleteBecomes, DeletesOK
  <2>2. Erases(d)' BY <1>6, <2>1 DEF DeleteAt, Published, Unassembled, Multipart
  <2> QED BY <1>1, <2>1, <2>2 DEF DeleteErases
<1>7. CASE DeleteNext
  <2>1. ASSUME NEW d \in Deleters, DeleteAnswer(d) PROVE DeleteErases'
    BY <1>6, <2>1 DEF DeleteAnswer
  <2>2. ASSUME NEW d \in Deleters, NEW k \in Keys, Delete(d, k) PROVE DeleteErases'
    BY <1>6, <2>2 DEF Delete, tables
  <2>3. ASSUME NEW d \in Deleters, ~DeleteAt(d, "idle")
        PROVE  del[d].on \in Uploads /\ location'[del[d].on] # "absent"
    BY <1>0, <2>3, RowsOfAttempt DEF DeleteErases, OnUploads, DeleteAt, Published
  <2>4. ASSUME NEW d \in Deleters, ~DeleteAt(d, "idle"),
               DeleteGoto(d, "erase") \/ DeleteGoto(d, "revert")
        PROVE  DeleteErases'
    BY <1>6, <2>3, <2>4 DEF DeleteGoto
  <2>5. ASSUME NEW d \in Deleters, DeleteClaim(d) PROVE DeleteErases'
    BY <2>1, <2>4, <2>5 DEF DeleteClaim, DeleteAt, Transaction
  <2>6. ASSUME NEW d \in Deleters, DeleteErase(d) PROVE DeleteErases'
    <3>1. ~DeleteAt(d, "idle") BY <2>6 DEF DeleteErase, DeleteAt
    <3>2. CASE DeleteGoto(d, "revert") BY <2>4, <3>1, <3>2
    <3>3. CASE Erased(del[d].on) /\ DeleteGoto(d, "finalize")
      <4>1. del[d].on \in Uploads /\ location'[del[d].on] # "absent" BY <2>3, <3>1
      <4>2. blob'[del[d].on] = "absent" BY <1>0, <3>3, <4>1 DEF Erased, ProviderOK
      <4> QED BY <1>6, <3>3, <4>1, <4>2 DEF DeleteGoto
    <3> QED BY <2>6, <3>2, <3>3 DEF DeleteErase, Call
  <2>7. ASSUME NEW d \in Deleters, DeleteRevert(d) \/ DeleteFinalize(d) \/ DeleteLost(d)
        PROVE  DeleteErases'
    BY <2>1, <2>7 DEF DeleteRevert, DeleteFinalize, DeleteLost, Transaction
  <2> QED BY <1>7, <2>2, <2>5, <2>6, <2>7 DEF DeleteNext
<1> QED BY <1>3, <1>4, <1>5, <1>7 DEF Next

LEMMA WorkerErasesStep ==
  ASSUME GoneInv, [Next]_vars PROVE WorkerErases'
<1>0. /\ IInv /\ RequestWrites /\ AttemptBytes /\ WorkerErases /\ ProviderOK /\ OnUploads
      /\ WorkerOK /\ RowsOK /\ IndexAgreesWithLocations
  BY DEF GoneInv, IInv, TypeOK, TablesOK
<1>1. CASE worker' = worker
  <2>1. SUFFICES ASSUME In("deleting") \/ In("retained")
                 PROVE  /\ \A u \in worker.todo : Published(u)'
                        /\ worker.at # "next" => Published(worker.on)'
                        /\ worker.at = "commit" => Unassembled(worker.on)'
    BY <1>1 DEF WorkerErases, In, Published, Unassembled, Multipart
  <2>2. \A u \in worker.todo : Published(u)'
    BY <1>0, <2>1, RowsOfAttempt DEF WorkerErases, WorkerOK
  <2>3. worker.at # "next" => Published(worker.on)'
    BY <1>0, <1>1, <2>1, RowsOfAttempt DEF WorkerErases, OnUploads
  <2>4. worker.at = "commit" => Unassembled(worker.on)'
    BY <1>0, <1>1, <2>1, StaysUnassembled DEF WorkerErases, OnUploads
  <2> QED BY <2>2, <2>3, <2>4
<1>2. CASE UploadNext BY <1>1, <1>2, UploadKeepsOthers
<1>3. CASE DeleteNext
  <2>1. worker' = worker
    BY <1>3 DEF DeleteNext, Delete, DeleteClaim, DeleteErase, DeleteRevert, DeleteFinalize,
       DeleteLost, DeleteGoto, DeleteAnswer, DeleteBecomes, Call, Transaction
  <2> QED BY <1>1, <2>1
<1>4. CASE UNCHANGED vars BY <1>1, <1>4 DEF vars, actors
<1>5. ASSUME NEW phase, NEW list, NEW bare, Listed(phase, list, bare),
             phase # "uploads" => \A u \in list : location'[u] # "absent"
      PROVE  WorkerErases'
  BY <1>5 DEF Listed, WorkerBecomes, WorkerErases, In, Published
<1>6. ASSUME NEW todo \in SUBSET worker.todo, NEW step, NEW u, Work(todo, step, u),
             In("deleting") \/ In("retained") =>
               /\ step # "next" => location'[u] # "absent"
               /\ step = "commit" /\ Multipart(u) => blob'[u] = "absent"
      PROVE  WorkerErases'
  <2>1. worker' = [phase |-> worker.phase, todo |-> todo, fin |-> worker.fin,
                   bare |-> worker.bare, at |-> step, on |-> u]
    BY <1>0, <1>6 DEF Work, WorkerBecomes, WorkerOK
  <2>2. In("deleting") \/ In("retained") => \A v \in todo : location'[v] # "absent"
    BY <1>0, <1>6, RowsOfAttempt DEF WorkerErases, WorkerOK, Published
  <2> QED BY <1>6, <2>1, <2>2 DEF WorkerErases, In, Published, Unassembled, Multipart
<1>7. CASE NextEntry BY <1>6, <1>7 DEF NextEntry
<1>8. CASE WorkerNext
  <2>1. ASSUME NEW u \in Uploads, TakeExpired(u) \/ TakeDeleting(u) \/ TakeRetained(u)
        PROVE  WorkerErases'
    <3>1. CASE Skip(u) BY <1>6, <3>1 DEF Skip
    <3>2. ASSUME NEW step \in {"abort", "erase"}, Take(u, step) PROVE WorkerErases'
      <4>1. In("deleting") \/ In("retained") => location'[u] # "absent"
        BY <1>0, <3>2, RowsOfAttempt DEF WorkerErases, Take, Published
      <4> QED BY <1>6, <3>2, <4>1 DEF Take
    <3> QED BY <2>1, <3>1, <3>2 DEF TakeExpired, TakeDeleting, TakeRetained
  <2>2. CASE ListExpired BY <1>5, <2>2 DEF ListExpired
  <2>3. CASE AbortExpired
    <3>1. CASE Then("commit") BY <1>6, <2>3, <3>1 DEF AbortExpired, Then, In
    <3> QED BY <1>7, <2>3, <3>1 DEF AbortExpired, Call
  <2>4. CASE EraseListed
    <3>1. CASE Erased(worker.on) /\ Then("commit")
      <4>1. worker.on \in Uploads BY <1>0, <2>4 DEF EraseListed, OnUploads
      <4>2. blob'[worker.on] = "absent" BY <1>0, <3>1, <4>1 DEF Erased, ProviderOK
      <4>3. In("deleting") \/ In("retained") => location'[worker.on] # "absent"
        BY <1>0, <2>4, <4>1, RowsOfAttempt DEF WorkerErases, EraseListed, Published
      <4> QED BY <1>6, <3>1, <4>2, <4>3 DEF Then
    <3> QED BY <1>7, <2>4, <3>1 DEF EraseListed, Call
  <2>5. CASE MarkExpired \/ FinalizeDeleted \/ CloseRetained
    BY <1>7, <2>5 DEF MarkExpired, FinalizeDeleted, CloseRetained, Transaction
  <2>6. CASE ListDeleting
    <3> DEFINE bare == {k \in Keys : Unlocated(k)}
               list == {record[k].at : k \in {k \in Keys : record[k].state = "DELETING"} \ bare}
    <3>1. \A u \in list : location[u] = "ACTIVE" BY DEF Unlocated
    <3>2. Listed("deleting", list, bare) /\ location' = location
      BY <2>6 DEF ListDeleting, untouched, tables
    <3> HIDE DEF list, bare
    <3> QED BY <1>5, <3>1, <3>2
  <2>7. CASE ListRetained
    <3> DEFINE list == {u \in Uploads : location[u] = "RETAINED"}
    <3>1. Listed("retained", list, {}) /\ location' = location
      BY <2>7 DEF ListRetained, untouched, tables
    <3>2. \A u \in list : location[u] = "RETAINED" OBVIOUS
    <3> HIDE DEF list
    <3> QED BY <1>5, <3>1, <3>2
  <2>8. CASE Prune \/ WorkerRestart
    BY <2>8 DEF Prune, WorkerRestart, WorkerBecomes, Resting, WorkerErases, In
  <2>9. \A k \in Keys : ~CloseUnlocated(k) BY <1>0 DEF OnUploads, CloseUnlocated
  <2> QED BY <1>8, <2>1, <2>2, <2>3, <2>4, <2>5, <2>6, <2>7, <2>8, <2>9 DEF WorkerNext, WorkerStep, NextDeleting
<1> QED BY <1>2, <1>3, <1>4, <1>8 DEF Next

LEMMA GoneInductive == Spec => []GoneInv
<1>1. Init => GoneInv
  <2> SUFFICES ASSUME Init PROVE GoneInv OBVIOUS
  <2>1. IInv BY InitIInv
  <2>2. RequestWrites BY DEF Init, RequestsInit, Idle, RequestWrites, Writes, At
  <2>3. AttemptBytes BY DEF Init, TablesInit, AttemptBytes, Published
  <2>4. DeleteErases BY DEF Init, DeletesInit, NoDelete, DeleteErases, DeleteAt
  <2>5. WorkerErases BY DEF Init, WorkerInit, Resting, WorkerErases, In
  <2> QED BY <2>1, <2>2, <2>3, <2>4, <2>5 DEF GoneInv
<1>2. GoneInv /\ [Next]_vars => GoneInv'
  <2> SUFFICES ASSUME GoneInv, [Next]_vars PROVE GoneInv' OBVIOUS
  <2>1. IInv' BY NextIInv DEF GoneInv
  <2> QED BY <2>1, RequestWritesStep, AttemptBytesStep, DeleteErasesStep, WorkerErasesStep
          DEF GoneInv
<1> QED BY <1>1, <1>2, PTL DEF Spec

\* What a finalised delete, or the cleanup of a replaced location, left behind:
\* nothing, whichever requests were assembling, publishing or deleting meanwhile,
\* unless the client holds a url or a proxied transfer.
THEOREM NothingLeftBehind == Spec => []DeletedIsGone
<1>1. GoneInv => DeletedIsGone
  <2> SUFFICES ASSUME AttemptBytes, NEW u \in Uploads, location[u] = "DELETED"
               PROVE  blob[u] = "absent" \/ u \in signed \/ ModeOf[u] = "PROXIED"
    BY DEF GoneInv, DeletedIsGone
  <2> QED BY RequestAssumption DEF AttemptBytes, Unassembled, Multipart, Modes
<1> QED BY <1>1, GoneInductive, PTL
=============================================================================

--------------------------- MODULE MigrationProofs ---------------------------
(***************************************************************************)
(* What holds of migration runs for every number of objects, copies, runs  *)
(* and deletes, whatever crashes, fails or answers too late.               *)
(***************************************************************************)
EXTENDS ObjectMigration, SumTheorems

\* The rows that migrations share with uploads and deletes.
RowsTyped ==
  /\ session \in [Uploads -> SessionStates]
  /\ record \in [Keys -> [state : RecordStates, at : Uploads \cup {NoUpload}]]
  /\ location \in [Uploads -> LocationStates]

\* A record that shows an object points to a location of its key.
Pointers ==
  \A k \in Keys :
    IF record[k].state \in {"AVAILABLE", "DELETING"}
      THEN record[k].at \in Uploads /\ KeyOf[record[k].at] = k /\ location[record[k].at] # "absent"
      ELSE record[k].at = NoUpload

\* Copies have no upload session.
CopiesUnsessioned == \A u \in Copies : session[u] = "absent"

IndexInv == RowsTyped /\ Pointers /\ CopiesUnsessioned /\ ActiveIsShown

\* What a step can do to these rows: one transaction, or nothing.
RowChange ==
  \/ UNCHANGED tables
  \/ \E u \in Uploads \ Copies : PublishTx(u)
  \/ \E u \in Uploads :
       CloseTx(u, "EXPIRED") \/ ClaimTx(u) \/ RevertTx(u) \/ FinalizeTx(u) \/ CloseRetainedTx(u)
  \/ \E k \in Keys : CloseUnlocatedTx(k) /\ (Stale(k) => record[k].at \in strayed')
  \/ \E old \in SUBSET {u \in Uploads : session[u] \in {"COMPLETED", "ABORTED", "EXPIRED"}} :
       PruneTx(old)
  \/ \E u \in Copies : task[u] = "switching" /\ (MoveTx(u) \/ LateTx(u))

\* A location that strayed is never one of the others again.
RowStep == strayed \subseteq strayed' /\ RowChange

-----------------------------------------------------------------------------
(* The rows, one transaction at a time *)

LEMMA CopyFacts ==
  /\ NoUpload \notin Uploads /\ KeyOf \in [Uploads -> Keys] /\ Copies \subseteq Uploads
  /\ RunOf \in [Copies -> Runs] /\ IsFiniteSet(Copies)
BY RequestAssumption, MigrationAssumption, FS_Subset

\* The rows of one key change: another location of it becomes ACTIVE or none does.
LEMMA PublishKeeps ==
  ASSUME IndexInv, NEW u \in Uploads \ Copies, PublishTx(u), strayed \subseteq strayed'
  PROVE  IndexInv'
<1> DEFINE old == record[KeyOf[u]]
<1>0. KeyOf[u] \in Keys /\ u \in Uploads /\ u # NoUpload BY CopyFacts
<1>1. record' = [record EXCEPT ![KeyOf[u]] = [state |-> "AVAILABLE", at |-> u]]
      /\ location' = Located(u, old) /\ session' = [session EXCEPT ![u] = "COMPLETED"]
      /\ old.state \in {"absent", "AVAILABLE", "DELETED"}
  BY DEF PublishTx, MayPublish
<1>2. RowsTyped'
  BY <1>0, <1>1 DEF IndexInv, RowsTyped, Located, SessionStates, RecordStates, LocationStates
<1>3. /\ record'[KeyOf[u]] = [state |-> "AVAILABLE", at |-> u]
      /\ \A k \in Keys : k # KeyOf[u] => record'[k] = record[k]
      /\ location'[u] = "ACTIVE" /\ \A v \in Uploads : location[v] # "absent" => location'[v] # "absent"
  BY <1>0, <1>1 DEF IndexInv, RowsTyped, Located
<1>4. Pointers' BY <1>0, <1>3 DEF IndexInv, Pointers
<1>5. ASSUME NEW v \in Uploads \ strayed', location'[v] = "ACTIVE" PROVE record'[KeyOf[v]].at = v
  <2>1. CASE v = u BY <1>3, <2>1
  <2>2. CASE v # u
    <3>1. location[v] = "ACTIVE" /\ ~(old.state = "AVAILABLE" /\ v = old.at)
      BY <1>1, <1>5, <2>2 DEF Located
    <3>2. record[KeyOf[v]].at = v BY <3>1 DEF IndexInv, ActiveIsShown
    <3>3. KeyOf[v] # KeyOf[u]
      BY <1>0, <1>1, <3>1, <3>2, CopyFacts DEF IndexInv, Pointers
    <3> QED BY <1>3, <3>2, <3>3, CopyFacts
  <2> QED BY <2>1, <2>2
<1>6. CopiesUnsessioned' BY <1>1, CopyFacts DEF IndexInv, CopiesUnsessioned, RowsTyped
<1> QED BY <1>2, <1>4, <1>5, <1>6 DEF IndexInv, ActiveIsShown

LEMMA SwitchKeeps ==
  ASSUME IndexInv, NEW u \in Copies, MoveTx(u) \/ LateTx(u), strayed \subseteq strayed'
  PROVE  IndexInv'
<1>0. KeyOf[u] \in Keys /\ u \in Uploads /\ u # NoUpload BY CopyFacts
<1>1. CASE MoveTx(u)
  <2>1. /\ record[KeyOf[u]] = [state |-> "AVAILABLE", at |-> item[u].from]
        /\ record' = [record EXCEPT ![KeyOf[u]].at = u]
        /\ Relocated(u, "ACTIVE") /\ session' = session
    BY <1>1 DEF MoveTx, Serves, Unmoved
  <2>2. RowsTyped'
    BY <1>0, <2>1 DEF IndexInv, RowsTyped, Relocated, LocationStates
  <2>3. /\ record'[KeyOf[u]] = [state |-> "AVAILABLE", at |-> u]
        /\ \A k \in Keys : k # KeyOf[u] => record'[k] = record[k]
        /\ location'[u] = "ACTIVE"
        /\ \A v \in Uploads : location[v] # "absent" => location'[v] # "absent"
    BY <1>0, <2>1 DEF IndexInv, RowsTyped, Relocated
  <2>4. Pointers' BY <1>0, <2>3 DEF IndexInv, Pointers
  <2>5. ASSUME NEW v \in Uploads \ strayed', location'[v] = "ACTIVE" PROVE record'[KeyOf[v]].at = v
    <3>1. CASE v = u BY <2>3, <3>1
    <3>2. CASE v # u
      <4>1. location[v] = "ACTIVE" /\ v # item[u].from BY <2>1, <2>5, <3>2 DEF Relocated
      <4>2. record[KeyOf[v]].at = v BY <4>1 DEF IndexInv, ActiveIsShown
      <4>3. KeyOf[v] # KeyOf[u] BY <2>1, <4>1, <4>2
      <4> QED BY <2>3, <4>2, <4>3, CopyFacts
    <3> QED BY <3>1, <3>2
  <2> QED BY <2>1, <2>2, <2>4, <2>5 DEF IndexInv, ActiveIsShown, CopiesUnsessioned
<1>2. CASE LateTx(u)
  <2>1. record' = record /\ Relocated(u, "RETAINED") /\ session' = session
    BY <1>2 DEF LateTx, Unmoved
  <2>2. /\ \A v \in Uploads : location[v] # "absent" => location'[v] # "absent"
        /\ \A v \in Uploads : location'[v] = "ACTIVE" => location[v] = "ACTIVE"
        /\ location' \in [Uploads -> LocationStates]
    BY <2>1 DEF Relocated, IndexInv, RowsTyped, LocationStates
  <2> QED BY <2>1, <2>2 DEF IndexInv, RowsTyped, Pointers, ActiveIsShown, CopiesUnsessioned
<1> QED BY <1>1, <1>2

LEMMA IndexKeeps ==
  ASSUME IndexInv, RowStep
  PROVE  IndexInv'
<1> USE CopyFacts
<1>0. strayed \subseteq strayed' BY DEF RowStep
<1> USE <1>0
<1>1. CASE UNCHANGED tables
  BY <1>1 DEF tables, IndexInv, RowsTyped, Pointers, ActiveIsShown, CopiesUnsessioned
<1>2. ASSUME NEW u \in Uploads, CloseTx(u, "EXPIRED") PROVE IndexInv'
  <2>1. /\ session[u] = "INITIATED" /\ session' = [session EXCEPT ![u] = "EXPIRED"]
        /\ UNCHANGED <<record, location>>
    BY <1>2 DEF CloseTx, ReleaseTx
  <2> QED BY <2>1 DEF IndexInv, RowsTyped, Pointers, ActiveIsShown, CopiesUnsessioned, SessionStates
<1>3. ASSUME NEW u \in Uploads, ClaimTx(u) \/ RevertTx(u) PROVE IndexInv'
  <2>1. /\ UNCHANGED <<session, location>>
        /\ record' \in [Keys -> [state : RecordStates, at : Uploads \cup {NoUpload}]]
    BY <1>3 DEF ClaimTx, RevertTx, IndexInv, RowsTyped, RecordStates
  <2>2. \A k \in Keys : /\ record'[k].at = record[k].at
                        /\ record'[k].state \in {"AVAILABLE", "DELETING"}
                             <=> record[k].state \in {"AVAILABLE", "DELETING"}
    BY <1>3 DEF ClaimTx, RevertTx, IndexInv, RowsTyped
  <2> QED BY <2>1, <2>2 DEF IndexInv, RowsTyped, Pointers, ActiveIsShown, CopiesUnsessioned
<1>4. ASSUME NEW u \in Uploads, FinalizeTx(u) PROVE IndexInv'
  <2>1. /\ record[KeyOf[u]].at = u /\ session' = session
        /\ record' = [record EXCEPT ![KeyOf[u]] = [state |-> "DELETED", at |-> NoUpload]]
        /\ location' = [location EXCEPT ![u] = IF location[u] = "ACTIVE" THEN "DELETED" ELSE location[u]]
    BY <1>4 DEF FinalizeTx, IndexInv, RowsTyped
  <2>2. RowsTyped' BY <2>1 DEF IndexInv, RowsTyped, RecordStates, LocationStates
  <2>3. /\ \A v \in Uploads : location[v] # "absent" => location'[v] # "absent"
        /\ \A v \in Uploads : location'[v] = "ACTIVE" => location[v] = "ACTIVE" /\ v # u
    BY <2>1 DEF IndexInv, RowsTyped
  <2>4. \A k \in Keys : record'[k] = IF k = KeyOf[u] THEN [state |-> "DELETED", at |-> NoUpload] ELSE record[k]
    BY <2>1 DEF IndexInv, RowsTyped
  <2>5. Pointers' BY <2>3, <2>4 DEF IndexInv, Pointers
  <2>6. ActiveIsShown' BY <2>1, <2>3, <2>4 DEF IndexInv, ActiveIsShown
  <2> QED BY <2>1, <2>2, <2>5, <2>6 DEF IndexInv, CopiesUnsessioned
<1>5. ASSUME NEW u \in Uploads, CloseRetainedTx(u) PROVE IndexInv'
  BY <1>5
  DEF CloseRetainedTx, IndexInv, RowsTyped, Pointers, ActiveIsShown, CopiesUnsessioned, LocationStates
<1>6. ASSUME NEW k \in Keys, CloseUnlocatedTx(k), Stale(k) => record[k].at \in strayed'
      PROVE  IndexInv'
  <2>1. UNCHANGED <<session, location>> /\ RowsTyped'
    BY <1>6 DEF CloseUnlocatedTx, IndexInv, RowsTyped, RecordStates
  <2>2. \A l \in Keys : record'[l] = IF l = k /\ record[k].state = "DELETING"
                                       THEN [state |-> "DELETED", at |-> NoUpload] ELSE record[l]
    BY <1>6 DEF CloseUnlocatedTx, IndexInv, RowsTyped
  <2>3. ASSUME NEW v \in Uploads \ strayed', location[v] = "ACTIVE" PROVE record'[KeyOf[v]].at = v
    <3>1. record[KeyOf[v]].at = v BY <2>3 DEF IndexInv, ActiveIsShown
    <3>2. ~Stale(k) \/ KeyOf[v] # k BY <1>6, <3>1
    <3>3. ~Unlocated(KeyOf[v]) BY <2>3, <3>1 DEF Unlocated
    <3> QED BY <2>2, <3>1, <3>2, <3>3 DEF Stale
  <2>4. Pointers' BY <2>1, <2>2 DEF IndexInv, Pointers
  <2> QED BY <2>1, <2>3, <2>4 DEF IndexInv, ActiveIsShown, CopiesUnsessioned
<1>7. ASSUME NEW old \in SUBSET {u \in Uploads : session[u] \in {"COMPLETED", "ABORTED", "EXPIRED"}},
             PruneTx(old)
      PROVE  IndexInv'
  BY <1>7 DEF PruneTx, IndexInv, RowsTyped, Pointers, ActiveIsShown, CopiesUnsessioned, SessionStates
<1> QED BY <1>1, <1>2, <1>3, <1>4, <1>5, <1>6, <1>7, PublishKeeps, SwitchKeeps DEF RowStep, RowChange

-----------------------------------------------------------------------------
(* Who is at work on what *)

\* Deletes and the upload pass work on attempts, and on copies only once these
\* have been published.
ActorsOnPublished ==
  /\ DeletesOK /\ WorkerOK
  /\ \A d \in Deleters : del[d].at # "idle" => del[d].on \in Uploads /\ location[del[d].on] # "absent"
  /\ worker.at # "next" => worker.on \in Uploads
  /\ \A u \in Copies : u \in worker.todo \/ (worker.at # "next" /\ worker.on = u) => location[u] # "absent"

LEMMA DeleteRows ==
  ASSUME ActorsOnPublished, DeleteNext
  PROVE  RowChange /\ UNCHANGED worker
<1>1. ASSUME NEW d \in Deleters, NEW k \in Keys, Delete(d, k)
      PROVE  UNCHANGED <<tables, worker>>
  BY <1>1 DEF Delete, DeleteBecomes
<1>2. ASSUME NEW d \in Deleters, DeleteErase(d) \/ DeleteLost(d)
      PROVE  UNCHANGED <<tables, worker>>
  BY <1>2 DEF DeleteErase, DeleteLost, Call, DeleteBecomes, DeleteAnswer, DeleteGoto
<1>3. ASSUME NEW d \in Deleters, DeleteClaim(d) \/ DeleteRevert(d) \/ DeleteFinalize(d)
      PROVE  RowChange /\ UNCHANGED worker
  <2>1. del[d].on \in Uploads
    BY <1>3 DEF ActorsOnPublished, DeleteClaim, DeleteRevert, DeleteFinalize, DeleteAt
  <2>2. UNCHANGED worker
    BY <1>3 DEF DeleteClaim, DeleteRevert, DeleteFinalize, Transaction, DeleteBecomes, DeleteAnswer, DeleteGoto
  <2>3. CASE DeleteClaim(d) BY <2>1, <2>2, <2>3 DEF DeleteClaim, Transaction, RowChange
  <2>4. CASE DeleteRevert(d) BY <2>1, <2>2, <2>4 DEF DeleteRevert, Transaction, RowChange
  <2>5. CASE DeleteFinalize(d) BY <2>1, <2>2, <2>5 DEF DeleteFinalize, Transaction, RowChange
  <2> QED BY <1>3, <2>2, <2>3, <2>4, <2>5
<1> QED BY <1>1, <1>2, <1>3 DEF DeleteNext, RowChange

LEMMA WorkerRows ==
  ASSUME IndexInv, ActorsOnPublished, WorkerStep
  PROVE  /\ UNCHANGED del
         /\ NowStrayed \subseteq strayed' => RowChange
<1>1. UNCHANGED del
  BY DEF WorkerStep, NextDeleting, ListExpired, AbortExpired, EraseListed, MarkExpired, ListDeleting, FinalizeDeleted,
         ListRetained, CloseRetained, Prune, TakeExpired, TakeDeleting, TakeRetained, CloseUnlocated, Call,
         Transaction, Listed, Take, Skip, Then, NextEntry, Work, WorkerBecomes
<1>2. ASSUME NEW u \in Uploads, TakeExpired(u) \/ TakeDeleting(u) \/ TakeRetained(u) PROVE RowChange
  BY <1>2 DEF TakeExpired, TakeDeleting, TakeRetained, untouched, RowChange
<1>3. ASSUME ListExpired \/ ListRetained \/ ListDeleting \/ AbortExpired \/ EraseListed PROVE RowChange
  BY <1>3 DEF ListExpired, ListRetained, ListDeleting, AbortExpired, EraseListed, Call, untouched, RowChange
<1>4. ASSUME MarkExpired \/ FinalizeDeleted \/ CloseRetained PROVE RowChange
  <2>1. worker.on \in Uploads
    BY <1>4 DEF ActorsOnPublished, MarkExpired, FinalizeDeleted, CloseRetained
  <2>2. CASE MarkExpired     BY <2>1, <2>2 DEF MarkExpired, Transaction, RowChange
  <2>3. CASE FinalizeDeleted BY <2>1, <2>3 DEF FinalizeDeleted, Transaction, RowChange
  <2>4. CASE CloseRetained BY <2>1, <2>4 DEF CloseRetained, Transaction, RowChange
  <2> QED BY <1>4, <2>2, <2>3, <2>4
<1>5. CASE Prune BY <1>1, <1>5 DEF Prune, RowChange
<1>6. ASSUME NEW k \in Keys, CloseUnlocated(k), NowStrayed \subseteq strayed' PROVE RowChange
  <2>1. CASE UNCHANGED tables BY <2>1 DEF RowChange
  <2>2. CASE CloseUnlocatedTx(k)
    <3>1. k \in worker.bare BY <1>6 DEF CloseUnlocated
    <3>2. record'[k].state = "DELETED" \/ record[k].state # "DELETING"
      BY <2>2 DEF CloseUnlocatedTx, IndexInv, RowsTyped
    <3>3. Stale(k) => record[k].at \in strayed' BY <1>6, <3>1, <3>2 DEF NowStrayed, Stale
    <3> QED BY <2>2, <3>3 DEF RowChange
  <2> QED BY <1>6, <2>1, <2>2 DEF CloseUnlocated, Transaction
<1> QED BY <1>1, <1>2, <1>3, <1>4, <1>5, <1>6 DEF WorkerStep, NextDeleting

\* The copies' own steps: only the two halves of a switch write these rows.
LEMMA CopyRows ==
  ASSUME NEW u \in Copies, CopyStep(u)
  PROVE  UNCHANGED tables \/ (task[u] = "switching" /\ (MoveTx(u) \/ LateTx(u)))
<1>1. CASE Claim(u) BY <1>1 DEF Claim, rest
<1>2. CASE GetSource(u) \/ Verify(u) BY <1>2 DEF GetSource, Verify, Asked, rest
<1>3. CASE PutCopy(u) \/ DropCopy(u)
  BY <1>3 DEF PutCopy, DropCopy, Call
<1>4. CASE MarkFailed(u)
  BY <1>4 DEF MarkFailed, RunTransaction, FailTx
<1>5. CASE SwitchRead(u)
  BY <1>5 DEF SwitchRead, RunTransaction, SkipUnstartedTx, SkipChangedTx, SkippedTx, rest
<1>6. CASE SwitchCommit(u) BY <1>6 DEF SwitchCommit, RunTransaction
<1> QED BY <1>1, <1>2, <1>3, <1>4, <1>5, <1>6 DEF CopyStep

LEMMA NextRows ==
  ASSUME IndexInv, ActorsOnPublished, [Next]_vars
  PROVE  RowStep
<1>0. UNCHANGED <<tables, strayed>> => RowStep BY DEF RowStep, RowChange
<1>1. CASE ControlNext /\ UNCHANGED others
  BY <1>0, <1>1 DEF ControlNext, CreateRead, CreateCommit, Start, Pause, Cancel, Control, rest, others
<1>2. CASE DeleteRequest BY <1>2, DeleteRows DEF DeleteRequest, RowStep
<1>3. ASSUME NEW u \in Uploads, Publish(u) PROVE RowStep
  BY <1>3 DEF Publish, RowStep, RowChange
<1>4. CASE UploadPass BY <1>4, WorkerRows DEF UploadPass, RowStep
<1>5. CASE BeginPass BY <1>0, <1>5 DEF BeginPass, List, rest, others
<1>6. CASE MigrationPass
  <2>0. UNCHANGED strayed BY <1>6 DEF MigrationPass, others
  <2>1. CASE StartWave \/ ListCancelled \/ CompleteRuns
    BY <1>0, <2>0, <2>1 DEF StartWave, ListCancelled, CompleteRuns, rest
  <2>2. ASSUME NEW u \in Copies, CopyStep(u) PROVE RowStep
    BY <2>0, <2>2, CopyRows DEF RowStep, RowChange
  <2>3. ASSUME NEW u \in Copies, EraseCancelled(u) \/ SkipCancelled(u) PROVE UNCHANGED tables
    BY <2>3 DEF EraseCancelled, SkipCancelled, Call, RunTransaction, SkipCancelledTx
  <2> QED BY <1>0, <1>6, <2>0, <2>1, <2>2, <2>3 DEF MigrationPass, PassStep
<1>7. CASE PassBroken
  BY <1>0, <1>7 DEF PassBroken, WorkerRestart, PassFails, untouched, rest, others
<1>8. CASE Restart BY <1>0, <1>8 DEF Restart, rest
<1>9. CASE UNCHANGED vars BY <1>0, <1>9 DEF vars
<1> QED BY <1>1, <1>2, <1>3, <1>4, <1>5, <1>6, <1>7, <1>8, <1>9 DEF Next

\* No location is ever gone again.
LEMMA StaysStored ==
  ASSUME IndexInv, RowStep
  PROVE  \A u \in Uploads : location[u] # "absent" => location'[u] # "absent"
<1>1. ASSUME NEW u \in Uploads, PublishTx(u) PROVE \A v \in Uploads : location[v] # "absent" => location'[v] # "absent"
  BY <1>1 DEF PublishTx, Located, IndexInv, RowsTyped
<1>2. ASSUME NEW u \in Uploads,
             CloseTx(u, "EXPIRED") \/ ClaimTx(u) \/ RevertTx(u) \/ FinalizeTx(u) \/ CloseRetainedTx(u)
      PROVE  \A v \in Uploads : location[v] # "absent" => location'[v] # "absent"
  BY <1>2 DEF CloseTx, ReleaseTx, ClaimTx, RevertTx, FinalizeTx, CloseRetainedTx, IndexInv, RowsTyped
<1>3. ASSUME (\E k \in Keys : CloseUnlocatedTx(k)) \/ \E old : PruneTx(old) PROVE location' = location
  BY <1>3 DEF CloseUnlocatedTx, PruneTx
<1>4. ASSUME NEW u \in Copies, MoveTx(u) \/ LateTx(u)
      PROVE  \A v \in Uploads : location[v] # "absent" => location'[v] # "absent"
  BY <1>4 DEF MoveTx, LateTx, Relocated, IndexInv, RowsTyped
<1> QED BY <1>1, <1>2, <1>3, <1>4 DEF RowStep, RowChange, tables

LEMMA DeletersKeep ==
  ASSUME IndexInv, RowStep, ActorsOnPublished, DeleteNext
  PROVE  ActorsOnPublished'
<1>0. UNCHANGED worker BY DeleteRows
<1>1. ASSUME NEW d \in Deleters, NEW step \in DeleteSteps, NEW u \in Uploads \cup {NoUpload},
             step = "idle" \/ (u \in Uploads /\ location[u] # "absent"), DeleteBecomes(d, step, u)
      PROVE  ActorsOnPublished'
  <2>1. del' = [del EXCEPT ![d] = [at |-> step, on |-> u]] BY <1>1 DEF DeleteBecomes
  <2>2. DeletesOK' BY <1>1, <2>1 DEF ActorsOnPublished, DeletesOK
  <2>3. \A c \in Deleters : del'[c].at # "idle" => del'[c].on \in Uploads /\ location'[del'[c].on] # "absent"
    BY <1>1, <2>1, StaysStored DEF ActorsOnPublished, DeletesOK
  <2>4. \A v \in Copies : v \in worker'.todo \/ (worker'.at # "next" /\ worker'.on = v) => location'[v] # "absent"
    BY <1>0, StaysStored, CopyFacts DEF ActorsOnPublished
  <2> QED BY <1>0, <2>2, <2>3, <2>4 DEF ActorsOnPublished, WorkerOK
<1>2. ASSUME NEW d \in Deleters, DeleteAnswer(d) PROVE ActorsOnPublished'
  BY <1>1, <1>2 DEF DeleteAnswer, DeleteSteps
<1>3. ASSUME NEW d \in Deleters, NEW step \in DeleteSteps, ~DeleteAt(d, "idle"), DeleteGoto(d, step)
      PROVE  ActorsOnPublished'
  <2>1. del[d].on \in Uploads /\ location[del[d].on] # "absent"
    BY <1>3 DEF ActorsOnPublished, DeleteAt
  <2> QED BY <1>1, <1>3, <2>1 DEF DeleteGoto
<1>4. ASSUME NEW d \in Deleters, NEW k \in Keys, Delete(d, k) PROVE ActorsOnPublished'
  <2>1. record[k].at \in Uploads BY <1>4 DEF Delete, IndexInv, Pointers
  <2> QED BY <1>1, <1>4, <2>1 DEF Delete, DeleteSteps
<1>5. ASSUME NEW d \in Deleters,
             DeleteClaim(d) \/ DeleteErase(d) \/ DeleteRevert(d) \/ DeleteFinalize(d) \/ DeleteLost(d)
      PROVE  ActorsOnPublished'
  <2>1. ~DeleteAt(d, "idle")
    BY <1>5 DEF DeleteClaim, DeleteErase, DeleteRevert, DeleteFinalize, DeleteLost, DeleteAt
  <2>2. DeleteAnswer(d) => ActorsOnPublished' BY <1>2
  <2>3. \A step \in DeleteSteps : DeleteGoto(d, step) => ActorsOnPublished' BY <2>1, <1>3
  <2> QED BY <1>5, <2>2, <2>3
          DEF DeleteClaim, DeleteErase, DeleteRevert, DeleteFinalize, DeleteLost, Call,
              Transaction, DeleteSteps
<1> QED BY <1>4, <1>5 DEF DeleteNext

LEMMA UploadPassKeeps ==
  ASSUME IndexInv, RowStep, ActorsOnPublished, WorkerStep
  PROVE  ActorsOnPublished'
<1>0. UNCHANGED del BY WorkerRows
<1>d. DeletesOK' /\ \A d \in Deleters :
        del'[d].at # "idle" => del'[d].on \in Uploads /\ location'[del'[d].on] # "absent"
  BY <1>0, StaysStored DEF ActorsOnPublished, DeletesOK
<1>1. ASSUME NEW phase \in Phases, NEW list \in SUBSET Uploads, NEW keys \in SUBSET Keys,
             Listed(phase, list, keys),
             \A u \in Copies \cap list : location[u] # "absent"
      PROVE  ActorsOnPublished'
  <2>1. worker' = [phase |-> phase, todo |-> list, fin |-> finalized \cap list, bare |-> keys,
                   at |-> "next", on |-> NoUpload]
    BY <1>1 DEF Listed, WorkerBecomes
  <2>2. WorkerOK' BY <2>1 DEF WorkerOK
  <2>3. \A u \in Copies : u \in worker'.todo => location'[u] # "absent"
    BY <1>1, <2>1, StaysStored, CopyFacts
  <2> QED BY <1>d, <2>1, <2>2, <2>3 DEF ActorsOnPublished
<1>2. ASSUME NEW todo \in SUBSET worker.todo, NEW step \in {"next", "abort", "erase", "commit"},
             NEW u \in Uploads \cup {NoUpload}, Work(todo, step, u),
             step = "next" \/ (u \in Uploads /\ (u \in Copies => location[u] # "absent"))
      PROVE  ActorsOnPublished'
  <2>1. worker' = [phase |-> worker.phase, todo |-> todo, fin |-> worker.fin, bare |-> worker.bare,
                   at |-> step, on |-> u]
    BY <1>2 DEF Work, WorkerBecomes, ActorsOnPublished, WorkerOK
  <2>2. WorkerOK' BY <1>2, <2>1 DEF ActorsOnPublished, WorkerOK
  <2>3. \A v \in Copies : v \in todo \/ (step # "next" /\ u = v) => location[v] # "absent"
    BY <1>2 DEF ActorsOnPublished
  <2>4. \A v \in Copies : v \in worker'.todo \/ (worker'.at # "next" /\ worker'.on = v) => location'[v] # "absent"
    BY <2>1, <2>3, StaysStored, CopyFacts
  <2> QED BY <1>2, <1>d, <2>1, <2>2, <2>4 DEF ActorsOnPublished
<1>3. /\ worker.todo \in SUBSET worker.todo
      /\ worker.at # "next" => worker.on \in Uploads /\ (worker.on \in Copies => location[worker.on] # "absent")
  BY DEF ActorsOnPublished
<1>4. NextEntry => ActorsOnPublished' BY <1>2, <1>3 DEF NextEntry
<1>5. worker.at # "next" /\ Then("commit") => ActorsOnPublished' BY <1>2, <1>3 DEF Then
<1>6. ASSUME NEW u \in Uploads, TakeExpired(u) \/ TakeDeleting(u) \/ TakeRetained(u)
      PROVE  ActorsOnPublished'
  <2>1. worker.todo \ {u} \in SUBSET worker.todo OBVIOUS
  <2>2. ASSUME NEW step \in {"abort", "erase"}, Take(u, step) PROVE ActorsOnPublished'
    <3>1. u \in Copies => location[u] # "absent" BY <2>2 DEF Take, ActorsOnPublished
    <3> QED BY <1>2, <2>1, <2>2, <3>1 DEF Take
  <2>3. Skip(u) => ActorsOnPublished' BY <1>2, <2>1 DEF Skip
  <2> QED BY <1>6, <2>2, <2>3 DEF TakeExpired, TakeDeleting, TakeRetained
<1>7. ASSUME AbortExpired \/ EraseListed \/ MarkExpired \/ FinalizeDeleted \/ CloseRetained
      PROVE  ActorsOnPublished'
  BY <1>4, <1>5, <1>7 DEF AbortExpired, EraseListed, MarkExpired, FinalizeDeleted,
     CloseRetained, Call, Transaction
<1>8. CASE ListExpired
  <2>1. Open \cap due \in SUBSET Uploads /\ (Open \cap due) \cap Copies = {}
    BY DEF Open, IndexInv, CopiesUnsessioned
  <2> QED BY <1>1, <1>8, <2>1 DEF ListExpired, Phases
<1>9. CASE ListRetained
  BY <1>1, <1>9 DEF ListRetained, Phases
<1>10. CASE ListDeleting
  <2> DEFINE bare == {k \in Keys : Unlocated(k)}
             located == {k \in Keys : record[k].state = "DELETING"} \ bare
             list == {record[k].at : k \in located}
  <2>1. list \in SUBSET Uploads /\ \A u \in list : location[u] # "absent"
    BY DEF IndexInv, Pointers
  <2>2. Listed("deleting", list, bare) /\ bare \in SUBSET Keys BY <1>10 DEF ListDeleting
  <2> HIDE DEF list, bare
  <2> QED BY <1>1, <2>1, <2>2 DEF Phases
<1>11. worker' = Resting => ActorsOnPublished'
  BY <1>d DEF ActorsOnPublished, WorkerOK, Resting, Phases
<1>12. ASSUME NEW k \in Keys, CloseUnlocated(k) PROVE ActorsOnPublished'
  <2>1. worker' = [worker EXCEPT !.bare = @ \ {k}] \/ worker' = Resting
    BY <1>12 DEF CloseUnlocated, Transaction, WorkerBecomes
  <2>2. ASSUME worker' = [worker EXCEPT !.bare = @ \ {k}] PROVE ActorsOnPublished'
    <3>1. /\ worker' = [phase |-> worker.phase, todo |-> worker.todo, fin |-> worker.fin,
                        bare |-> worker.bare \ {k}, at |-> worker.at, on |-> worker.on]
          /\ WorkerOK
      BY <2>2 DEF ActorsOnPublished, WorkerOK
    <3>2. WorkerOK' BY <3>1 DEF WorkerOK
    <3>3. \A v \in Copies : v \in worker'.todo \/ (worker'.at # "next" /\ worker'.on = v) => location'[v] # "absent"
      BY <3>1, StaysStored, CopyFacts DEF ActorsOnPublished
    <3> QED BY <1>d, <3>1, <3>2, <3>3 DEF ActorsOnPublished
  <2> QED BY <1>11, <2>1, <2>2
<1>13. CASE Prune BY <1>11, <1>13 DEF Prune, WorkerBecomes
<1> QED BY <1>6, <1>7, <1>8, <1>9, <1>10, <1>12, <1>13 DEF WorkerStep, NextDeleting

LEMMA ActorsKeep ==
  ASSUME IndexInv, ActorsOnPublished, [Next]_vars
  PROVE  ActorsOnPublished'
<1>1. RowStep BY NextRows
<1>2. CASE UNCHANGED actors
  BY <1>1, <1>2, StaysStored, CopyFacts DEF actors, ActorsOnPublished, DeletesOK, WorkerOK
<1>3. CASE DeleteRequest BY <1>1, <1>3, DeletersKeep DEF DeleteRequest
<1>4. CASE UploadPass BY <1>1, <1>4, UploadPassKeeps DEF UploadPass
<1>5. CASE Restart \/ PassBroken
  <2>1. (worker' = Resting /\ UNCHANGED del) \/ UNCHANGED actors
    BY <1>5 DEF Restart, PassBroken, WorkerRestart, WorkerBecomes, others, actors
  <2>2. worker' = Resting /\ UNCHANGED del => ActorsOnPublished'
    BY <1>1, StaysStored DEF ActorsOnPublished, DeletesOK, WorkerOK, Resting, Phases
  <2> QED BY <1>2, <2>1, <2>2
<1>6. CASE ControlNext /\ UNCHANGED others BY <1>2, <1>6 DEF others
<1>7. ASSUME NEW u \in Uploads, Publish(u) PROVE UNCHANGED actors BY <1>7 DEF Publish
<1>8. CASE BeginPass \/ MigrationPass BY <1>2, <1>8 DEF BeginPass, MigrationPass, others
<1>9. CASE UNCHANGED vars BY <1>2, <1>9 DEF vars
<1> QED BY <1>2, <1>3, <1>4, <1>5, <1>6, <1>7, <1>8, <1>9 DEF Next

-----------------------------------------------------------------------------
(* Runs and the items they count *)

Finished == {"COMPLETED", "SKIPPED"}
DoneItems(r) == {u \in Items(r) : item[u].state \in Finished}

RunsTyped ==
  /\ run \in [Runs -> [state : RunStates, total : Nat, done : Nat]]
  /\ item \in [Copies -> [state : ItemStates, from : Uploads \cup {NoUpload}]]

\* A run's items are drafted with it and inserted with it.
ItemsBegun ==
  \A u \in Copies :
    LET state == run[RunOf[u]].state IN
    /\ state = "absent" => item[u].state = "absent"
    /\ state = "drafted" => item[u].state \in {"absent", "drafted"}
    /\ state \notin {"absent", "drafted"} => item[u].state # "drafted"

\* Each finished item is counted at most once, as long as the run is not cancelled.
RunsCounted ==
  \A r \in Runs : run[r].state \notin {"absent", "drafted", "CANCELLED"} =>
    run[r].total = Cardinality(Items(r)) /\ run[r].done =< Cardinality(DoneItems(r))

RunsInv == RunsTyped /\ ItemsBegun /\ RunsCounted /\ CompletedRunIsDone

Cancelled(u) == run[RunOf[u]].state = "CANCELLED"

\* What a step can do to them.
RunStep ==
  \/ UNCHANGED <<run, item>>
  \/ \E r \in Runs : CreateRead(r) \/ CreateCommit(r) \/ Start(r) \/ Pause(r) \/ Cancel(r)
  \/ \E u \in Copies, state \in Unfinished :
       item[u].state \in Unfinished /\ ItemBecomes(u, state) /\ UNCHANGED run
  \/ \E u \in Copies, state \in Finished :
       item[u].state \in Unfinished /\ ItemBecomes(u, state) /\ (UNCHANGED run \/ Counted(u))
  \/ \E u \in Copies : Cancelled(u) /\ UNCHANGED item /\ Counted(u)
  \/ CompleteRuns

LEMMA ItemsFinite ==
  \A r \in Runs : /\ IsFiniteSet(Items(r)) /\ Cardinality(Items(r)) \in Nat
                  /\ IsFiniteSet(DoneItems(r)) /\ Cardinality(DoneItems(r)) \in Nat
                  /\ Cardinality(DoneItems(r)) =< Cardinality(Items(r))
                  /\ Cardinality(DoneItems(r)) = Cardinality(Items(r)) => DoneItems(r) = Items(r)
<1> SUFFICES ASSUME NEW r \in Runs
             PROVE  /\ IsFiniteSet(Items(r)) /\ Cardinality(Items(r)) \in Nat
                    /\ IsFiniteSet(DoneItems(r)) /\ Cardinality(DoneItems(r)) \in Nat
                    /\ Cardinality(DoneItems(r)) =< Cardinality(Items(r))
                    /\ Cardinality(DoneItems(r)) = Cardinality(Items(r)) => DoneItems(r) = Items(r)
  OBVIOUS
<1>1. Items(r) \subseteq Copies /\ DoneItems(r) \subseteq Items(r) BY DEF Items, DoneItems
<1>2. IsFiniteSet(Items(r)) BY <1>1, CopyFacts, FS_Subset
<1> QED BY <1>1, <1>2, FS_Subset, FS_CardinalityType

\* One item finishes, and is counted or not.
LEMMA ItemFinishes ==
  ASSUME RunsInv, NEW u \in Copies, NEW state \in Finished, item[u].state \in Unfinished,
         ItemBecomes(u, state), UNCHANGED run \/ Counted(u)
  PROVE  RunsInv'
<1> DEFINE r == RunOf[u]
<1>0. r \in Runs /\ run[r].state \in RunStates \ {"absent", "drafted"}
  BY CopyFacts DEF RunsInv, RunsTyped, ItemsBegun, Unfinished
<1>1. item' = [item EXCEPT ![u].state = state] BY DEF ItemBecomes
<1>2. /\ item'[u].state = state
      /\ \A v \in Copies : v # u => item'[v] = item[v]
  BY <1>1 DEF RunsInv, RunsTyped
<1>3. \A q \in Runs : /\ run'[q].state = run[q].state /\ run'[q].total = run[q].total
                      /\ q # r => run'[q].done = run[q].done
                      /\ run'[r].done \in {run[r].done, run[r].done + 1}
  BY <1>0 DEF Counted, RunsInv, RunsTyped
<1>4. RunsTyped'
  <2>1. item' \in [Copies -> [state : ItemStates, from : Uploads \cup {NoUpload}]]
    BY <1>1 DEF RunsInv, RunsTyped, ItemStates, Finished
  <2>2. run' \in [Runs -> [state : RunStates, total : Nat, done : Nat]]
    BY DEF Counted, RunsInv, RunsTyped
  <2> QED BY <2>1, <2>2 DEF RunsTyped
<1>5. \A q \in Runs : Items(q)' = Items(q)
  BY <1>2 DEF Items, Unfinished, Finished
<1>6. ItemsBegun'
  BY <1>0, <1>2, <1>3, CopyFacts DEF RunsInv, ItemsBegun, Unfinished, Finished
<1>7. DoneItems(r)' = DoneItems(r) \cup {u} /\ u \notin DoneItems(r)
  BY <1>2, <1>5 DEF DoneItems, Items, Unfinished, Finished
<1>8. Cardinality(DoneItems(r)') = Cardinality(DoneItems(r)) + 1
  BY <1>0, <1>7, ItemsFinite, FS_AddElement
<1>9. \A q \in Runs : q # r => DoneItems(q)' = DoneItems(q)
  BY <1>2, <1>5 DEF DoneItems, Items
<1>10. RunsCounted'
  <2> SUFFICES ASSUME NEW q \in Runs, run'[q].state \notin {"absent", "drafted", "CANCELLED"}
               PROVE  run'[q].total = Cardinality(Items(q)') /\ run'[q].done =< Cardinality(DoneItems(q)')
    BY DEF RunsCounted
  <2>1. run[q].total = Cardinality(Items(q)) /\ run[q].done =< Cardinality(DoneItems(q))
    BY <1>3 DEF RunsInv, RunsCounted
  <2>2. run[q].done \in Nat /\ Cardinality(DoneItems(q)) \in Nat
    BY ItemsFinite DEF RunsInv, RunsTyped
  <2>3. CASE q # r BY <1>3, <1>5, <1>9, <2>1, <2>3
  <2>4. CASE q = r
    <3>1. run'[q].done = run[q].done \/ run'[q].done = run[q].done + 1 BY <1>3, <2>4
    <3>2. Cardinality(DoneItems(q)') = Cardinality(DoneItems(q)) + 1 BY <1>8, <2>4
    <3>3. run'[q].done =< Cardinality(DoneItems(q)') BY <2>1, <2>2, <3>1, <3>2
    <3> QED BY <1>3, <1>5, <2>1, <3>3
  <2> QED BY <2>3, <2>4
<1>11. CompletedRunIsDone'
  BY <1>2, <1>3, <1>5 DEF RunsInv, CompletedRunIsDone, Finished, Items
<1> QED BY <1>4, <1>6, <1>10, <1>11 DEF RunsInv

LEMMA RunsKeep ==
  ASSUME RunsInv, IndexInv, RunStep
  PROVE  RunsInv'
<1>1. CASE UNCHANGED <<run, item>>
  <2>1. \A q \in Runs : Items(q)' = Items(q) /\ DoneItems(q)' = DoneItems(q)
    BY <1>1 DEF Items, DoneItems
  <2>2. RunsTyped' /\ ItemsBegun' BY <1>1 DEF RunsInv, RunsTyped, ItemsBegun
  <2>3. RunsCounted' BY <1>1, <2>1 DEF RunsInv, RunsCounted
  <2>4. CompletedRunIsDone' BY <1>1, <2>1 DEF RunsInv, CompletedRunIsDone
  <2> QED BY <2>2, <2>3, <2>4 DEF RunsInv
<1>2. ASSUME NEW r \in Runs, CreateRead(r) PROVE RunsInv'
  <2>1. /\ run[r].state = "absent" /\ run' = [run EXCEPT ![r].state = "drafted"]
        /\ item' = [u \in Copies |->
             IF Fits(u, r)
             THEN [state |-> "drafted", from |-> record[KeyOf[u]].at] ELSE item[u]]
    BY <1>2 DEF CreateRead
  <2>2. \A k \in Movable(r) : record[k].at \in Uploads
    BY DEF Movable, IndexInv, Pointers
  <2>3. RunsTyped'
    BY <2>1, <2>2 DEF Fits, RunsInv, RunsTyped, RunStates, ItemStates
  <2>4. \A q \in Runs : q # r => run'[q] = run[q] BY <2>1 DEF RunsInv, RunsTyped
  <2>5. run'[r].state = "drafted" BY <2>1 DEF RunsInv, RunsTyped
  <2>6. \A u \in Copies : RunOf[u] # r => item'[u] = item[u] BY <2>1 DEF Fits
  <2>7. \A q \in Runs : q # r => Items(q)' = Items(q) /\ DoneItems(q)' = DoneItems(q)
    BY <2>6 DEF Items, DoneItems
  <2>8. \A u \in Copies : RunOf[u] = r => item'[u].state \in {"absent", "drafted"}
    BY <2>1 DEF RunsInv, ItemsBegun
  <2>9. ItemsBegun' BY <2>4, <2>5, <2>6, <2>8, CopyFacts DEF RunsInv, ItemsBegun
  <2>10. RunsCounted' BY <2>4, <2>5, <2>7 DEF RunsInv, RunsCounted
  <2>11. CompletedRunIsDone'
    BY <2>4, <2>5, <2>6, <2>7 DEF RunsInv, CompletedRunIsDone, Items
  <2> QED BY <2>3, <2>9, <2>10, <2>11 DEF RunsInv
<1>3. ASSUME NEW r \in Runs, CreateCommit(r) PROVE RunsInv'
  <2>1. /\ run[r].state = "drafted"
        /\ run' = [run EXCEPT ![r] = [state |-> "CREATED", total |-> Cardinality(Items(r)), done |-> 0]]
        /\ item' = [u \in Copies |-> IF u \in Items(r) THEN [item[u] EXCEPT !.state = "PENDING"] ELSE item[u]]
    BY <1>3 DEF CreateCommit
  <2>2. RunsTyped'
    BY <2>1, ItemsFinite DEF RunsInv, RunsTyped, RunStates, ItemStates, Unfinished, Active
  <2>3. /\ run'[r] = [state |-> "CREATED", total |-> Cardinality(Items(r)), done |-> 0]
        /\ \A q \in Runs : q # r => run'[q] = run[q]
    BY <2>1 DEF RunsInv, RunsTyped
  <2>4. \A u \in Copies : IF u \in Items(r) THEN item'[u].state = "PENDING" ELSE item'[u] = item[u]
    BY <2>1 DEF RunsInv, RunsTyped
  <2>5. \A q \in Runs : Items(q)' = Items(q) BY <2>4 DEF Items
  <2>6. \A q \in Runs : q # r => DoneItems(q)' = DoneItems(q)
    BY <2>4, <2>5 DEF Items, DoneItems
  <2>7. \A u \in Copies : RunOf[u] = r => item'[u].state \in {"absent", "PENDING"}
    BY <2>4 DEF Items
  <2>8. ItemsBegun' BY <2>3, <2>4, <2>7, CopyFacts DEF RunsInv, ItemsBegun, Items
  <2>9. Cardinality(DoneItems(r))' >= 0 /\ Cardinality(DoneItems(r)') \in Nat
    <3>1. DoneItems(r)' \subseteq Items(r) BY <2>5 DEF DoneItems
    <3>2. IsFiniteSet(DoneItems(r)') BY <3>1, ItemsFinite, FS_Subset
    <3> QED BY <3>2, FS_CardinalityType
  <2>10. RunsCounted' BY <2>3, <2>5, <2>6, <2>9 DEF RunsInv, RunsCounted
  <2>11. CompletedRunIsDone'
    BY <2>3, <2>4, <2>5 DEF RunsInv, CompletedRunIsDone, Items
  <2> QED BY <2>2, <2>8, <2>10, <2>11 DEF RunsInv
<1>4. ASSUME NEW r \in Runs, Start(r) \/ Pause(r) \/ Cancel(r) PROVE RunsInv'
  <2>1. PICK to \in {"RUNNING", "PAUSED", "CANCELLED"} : run' = [run EXCEPT ![r].state = to]
    BY <1>4 DEF Start, Pause, Cancel, Control
  <2>2. item' = item /\ run[r].state \in Active
    BY <1>4 DEF Start, Pause, Cancel, Control, Active
  <2>3. RunsTyped' BY <2>1, <2>2 DEF RunsInv, RunsTyped, RunStates, Active
  <2>4. /\ run'[r].state = to /\ run'[r].total = run[r].total /\ run'[r].done = run[r].done
        /\ \A q \in Runs : q # r => run'[q] = run[q]
    BY <2>1 DEF RunsInv, RunsTyped
  <2>5. \A q \in Runs : Items(q)' = Items(q) /\ DoneItems(q)' = DoneItems(q)
    BY <2>2 DEF Items, DoneItems
  <2>6. ItemsBegun' BY <2>2, <2>4, CopyFacts DEF RunsInv, ItemsBegun, Active
  <2>7. RunsCounted' BY <2>2, <2>4, <2>5 DEF RunsInv, RunsCounted, Active
  <2>8. CompletedRunIsDone' BY <2>2, <2>4, <2>5 DEF RunsInv, CompletedRunIsDone
  <2> QED BY <2>3, <2>6, <2>7, <2>8 DEF RunsInv
<1>5. ASSUME NEW u \in Copies, NEW state \in Unfinished,
             item[u].state \in Unfinished, ItemBecomes(u, state), UNCHANGED run
      PROVE  RunsInv'
  <2>1. /\ item'[u].state = state /\ \A v \in Copies : v # u => item'[v] = item[v]
        /\ item' \in [Copies -> [state : ItemStates, from : Uploads \cup {NoUpload}]]
    BY <1>5 DEF ItemBecomes, RunsInv, RunsTyped, ItemStates
  <2>2. \A q \in Runs : Items(q)' = Items(q) /\ DoneItems(q)' = DoneItems(q)
    BY <1>5, <2>1 DEF Items, DoneItems, Unfinished, Finished
  <2>3. ItemsBegun' BY <1>5, <2>1 DEF RunsInv, ItemsBegun, Unfinished
  <2>4. RunsCounted' BY <1>5, <2>2 DEF RunsInv, RunsCounted
  <2>5. CompletedRunIsDone'
    BY <1>5, <2>1, <2>2 DEF RunsInv, CompletedRunIsDone, Unfinished, Items
  <2> QED BY <1>5, <2>1, <2>3, <2>4, <2>5 DEF RunsInv, RunsTyped
<1>6. CASE CompleteRuns
  <2>1. /\ item' = item
        /\ run' = [r \in Runs |-> IF run[r].state = "RUNNING" /\ run[r].done = run[r].total
                                  THEN [run[r] EXCEPT !.state = "COMPLETED"] ELSE run[r]]
    BY <1>6 DEF CompleteRuns
  <2>2. RunsTyped' BY <2>1 DEF RunsInv, RunsTyped, RunStates
  <2>3. \A q \in Runs : /\ run'[q].total = run[q].total /\ run'[q].done = run[q].done
                        /\ \/ run'[q].state = run[q].state
                           \/ /\ run[q].state = "RUNNING" /\ run'[q].state = "COMPLETED"
                              /\ run[q].done = run[q].total
    BY <2>1 DEF RunsInv, RunsTyped
  <2>4. \A q \in Runs : Items(q)' = Items(q) /\ DoneItems(q)' = DoneItems(q)
    BY <2>1 DEF Items, DoneItems
  <2>5. ItemsBegun' BY <2>1, <2>3, CopyFacts DEF RunsInv, ItemsBegun
  <2>6. RunsCounted' BY <2>3, <2>4 DEF RunsInv, RunsCounted
  <2>7. ASSUME NEW q \in Runs, run[q].state = "RUNNING", run[q].done = run[q].total
        PROVE  \A u \in Items(q) : item[u].state \in Finished
    <3>1. run[q].done =< Cardinality(DoneItems(q)) /\ run[q].total = Cardinality(Items(q))
      BY <2>7 DEF RunsInv, RunsCounted
    <3>2. DoneItems(q) = Items(q) BY <2>7, <3>1, ItemsFinite
    <3> QED BY <3>2 DEF DoneItems
  <2>8. CompletedRunIsDone'
    BY <2>1, <2>3, <2>4, <2>7 DEF RunsInv, CompletedRunIsDone, Finished
  <2> QED BY <2>2, <2>5, <2>6, <2>8 DEF RunsInv
<1>7. ASSUME NEW u \in Copies, Cancelled(u), UNCHANGED item, Counted(u) PROVE RunsInv'
  <2>1. \A q \in Runs : /\ run'[q].state = run[q].state /\ run'[q].total = run[q].total
                        /\ run'[q] = run[q] \/ run[q].state = "CANCELLED"
    BY <1>7 DEF Counted, Cancelled, RunsInv, RunsTyped
  <2>2. RunsTyped'
    <3>1. run' \in [Runs -> [state : RunStates, total : Nat, done : Nat]]
      BY <1>7, CopyFacts DEF Counted, RunsInv, RunsTyped
    <3> QED BY <1>7, <3>1 DEF RunsInv, RunsTyped
  <2>3. \A q \in Runs : Items(q)' = Items(q) /\ DoneItems(q)' = DoneItems(q)
    BY <1>7 DEF Items, DoneItems
  <2>4. ItemsBegun' BY <1>7, <2>1, CopyFacts DEF RunsInv, ItemsBegun
  <2>5. RunsCounted' BY <2>1, <2>3 DEF RunsInv, RunsCounted
  <2>6. CompletedRunIsDone' BY <1>7, <2>1, <2>3 DEF RunsInv, CompletedRunIsDone
  <2> QED BY <2>2, <2>4, <2>5, <2>6 DEF RunsInv
<1> QED BY <1>1, <1>2, <1>3, <1>4, <1>5, <1>6, <1>7, ItemFinishes DEF RunStep

\* Cancelled is for good.
LEMMA CancelledStays ==
  ASSUME RunsInv, RunStep, NEW u \in Copies, Cancelled(u)
  PROVE  Cancelled(u)'
<1> USE CopyFacts DEF Cancelled
<1>1. ASSUME NEW r \in Runs, CreateRead(r) \/ CreateCommit(r) \/ Start(r) \/ Pause(r) \/ Cancel(r)
      PROVE  Cancelled(u)'
  <2>1. run[r].state # "CANCELLED"
    BY <1>1 DEF CreateRead, CreateCommit, Start, Pause, Cancel, Control, Active
  <2>2. r # RunOf[u] BY <2>1
  <2> QED BY <1>1, <2>2 DEF CreateRead, CreateCommit, Start, Pause, Cancel, Control, RunsInv, RunsTyped
<1>2. ASSUME NEW v \in Copies, Counted(v) PROVE Cancelled(u)'
  BY <1>2 DEF Counted, RunsInv, RunsTyped
<1>3. CASE CompleteRuns BY <1>3 DEF CompleteRuns
<1> QED BY <1>1, <1>2, <1>3 DEF RunStep

-----------------------------------------------------------------------------
(* What the worker is doing agrees with the items *)

AtWork == {"queued", "get", "put", "verify", "switch", "switching"}

\* An item that is being copied is COPYING, unless its run was cancelled and the
\* cleanup took it for one that nobody copies.
TasksOK ==
  /\ task \in [Copies -> TaskSteps]
  /\ \A u \in Copies : task[u] = "listed" => item[u].state \in Unfinished \/ Cancelled(u)
  /\ \A u \in Copies : task[u] \in AtWork =>
       item[u].state = "COPYING" \/ (Cancelled(u) /\ item[u].state \in Finished)

\* Only items of cancelled runs are cleaned up.
SweepOK ==
  /\ sweep \in [Copies -> SweepSteps]
  /\ \A u \in Copies : sweep[u] # "none" => Cancelled(u)

WorkOK == TasksOK /\ SweepOK

\* One copy goes on to its next step; the items of the others stay.
LEMMA TaskGoesOn ==
  ASSUME RunsInv, RunStep, WorkOK, NEW u \in Copies, NEW step \in TaskSteps, TaskBecomes(u, step),
         \A v \in Copies : v # u => item'[v] = item[v],
         step # "listed",
         step \in AtWork => \/ item'[u].state = "COPYING"
                            \/ task[u] \in AtWork /\ item'[u] = item[u]
  PROVE  WorkOK'
<1>1. task' = [task EXCEPT ![u] = step] /\ sweep' = sweep BY DEF TaskBecomes
<1>2. /\ task' \in [Copies -> TaskSteps] /\ task'[u] = step
      /\ \A v \in Copies : v # u => task'[v] = task[v]
  BY <1>1 DEF WorkOK, TasksOK
<1>3. \A v \in Copies : Cancelled(v) => Cancelled(v)' BY CancelledStays
<1> QED BY <1>1, <1>2, <1>3 DEF WorkOK, TasksOK, SweepOK

\* Tasks are dropped, and nothing else changes for the worker.
LEMMA TasksDropped ==
  ASSUME RunsInv, RunStep, WorkOK,
         \A v \in Copies : task'[v] \in {task[v], "none"}, \A v \in Copies : sweep'[v] \in {sweep[v], "none"},
         task' \in [Copies -> TaskSteps], sweep' \in [Copies -> SweepSteps],
         \A v \in Copies : task'[v] # "none" => item'[v] = item[v]
  PROVE  WorkOK'
<1>1. \A v \in Copies : Cancelled(v) => Cancelled(v)' BY CancelledStays
<1> QED BY <1>1 DEF WorkOK, TasksOK, SweepOK, AtWork

LEMMA PassEndsTyped ==
  ASSUME NEW S \in SUBSET Copies, WorkOK, PassEnds(S)
  PROVE  /\ \A v \in Copies : task'[v] \in {task[v], "none"}
         /\ \A v \in Copies : sweep'[v] \in {sweep[v], "none"}
         /\ task' \in [Copies -> TaskSteps] /\ sweep' \in [Copies -> SweepSteps]
         /\ \A v \in S : task'[v] = "none"
BY DEF PassEnds, WorkOK, TasksOK, TaskSteps, SweepSteps

\* An item's update with a guard on its state.
LEMMA OneItem ==
  ASSUME RunsInv, NEW u \in Copies, NEW from \in ItemStates, NEW state \in ItemStates,
         \/ item' = [item EXCEPT ![u].state = IF @ = from THEN state ELSE @]
         \/ item[u].state = from /\ ItemBecomes(u, state)
  PROVE  /\ \A v \in Copies : v # u => item'[v] = item[v]
         /\ item[u].state = from => ItemBecomes(u, state) /\ item'[u].state = state
         /\ item[u].state # from => item' = item
  BY DEF RunsInv, RunsTyped, ItemBecomes

LEMMA CopyTasks ==
  ASSUME RunsInv, WorkOK, NEW u \in Copies, CopyStep(u)
  PROVE  RunStep /\ WorkOK'
<1> USE DEF TaskSteps, Copying, AtWork
<1>0. /\ Unfinished \subseteq ItemStates /\ Finished \subseteq ItemStates
      /\ "FAILED" \in Unfinished /\ "COPYING" \in Unfinished /\ "SKIPPED" \in Finished
      /\ "COMPLETED" \in Finished /\ Finished \cap Unfinished = {}
  BY DEF Unfinished, Finished, ItemStates
<1>a. task[u] \in AtWork => item[u].state = "COPYING" \/ (Cancelled(u) /\ item[u].state \in Finished)
  BY DEF WorkOK, TasksOK
<1>1. CASE Claim(u)
  <2>1. CASE Running(u) /\ ItemBecomes(u, "COPYING") /\ TaskBecomes(u, "queued")
    <3>1. (\A v \in Copies : v # u => item'[v] = item[v]) /\ item'[u].state = "COPYING"
      BY <2>1 DEF ItemBecomes, RunsInv, RunsTyped
    <3>2. item[u].state \in Unfinished BY <1>1, <2>1 DEF Claim, WorkOK, TasksOK, Running, Cancelled
    <3>3. RunStep BY <1>0, <1>1, <2>1, <3>2 DEF RunStep, Claim
    <3> QED BY <2>1, <3>1, <3>3, TaskGoesOn
  <2>2. CASE ~Running(u) /\ TaskBecomes(u, "none") /\ UNCHANGED item
    <3>1. RunStep BY <1>1, <2>2 DEF Claim, RunStep
    <3> QED BY <2>2, <3>1, TaskGoesOn
  <2> QED BY <1>1, <2>1, <2>2 DEF Claim
<1>2. CASE GetSource(u) \/ Verify(u) \/ PutCopy(u)
  <2>1. UNCHANGED <<run, item>> /\ task[u] \in AtWork
    BY <1>2 DEF GetSource, Verify, PutCopy, Asked
  <2>2. TaskBecomes(u, "put") \/ TaskBecomes(u, "fail") \/ TaskBecomes(u, "switch")
        \/ TaskBecomes(u, "verify") \/ TaskBecomes(u, "undo")
    BY <1>2 DEF GetSource, Verify, PutCopy, Asked, Call
  <2>3. RunStep BY <2>1 DEF RunStep
  <2> QED BY <2>1, <2>2, <2>3, TaskGoesOn
<1>3. CASE DropCopy(u)
  <2>1. UNCHANGED <<run, item>> BY <1>3 DEF DropCopy
  <2>2. TaskBecomes(u, "none") \/ TaskBecomes(u, "fail") BY <1>3 DEF DropCopy, Call
  <2>3. RunStep BY <2>1 DEF RunStep
  <2> QED BY <2>1, <2>2, <2>3, TaskGoesOn
<1>4. CASE MarkFailed(u)
  <2>1. FailTx(u) \/ UNCHANGED <<run, item>>
    BY <1>4 DEF MarkFailed, RunTransaction
  <2>2. /\ \A v \in Copies : v # u => item'[v] = item[v]
        /\ UNCHANGED run
        /\ item' = item \/ (item[u].state = "COPYING" /\ ItemBecomes(u, "FAILED"))
    <3>1. CASE FailTx(u)
      <4>1. item' = [item EXCEPT ![u].state = IF @ = "COPYING" THEN "FAILED" ELSE @] BY <3>1 DEF FailTx
      <4> QED BY <1>0, <3>1, <4>1, OneItem DEF FailTx
    <3>2. CASE UNCHANGED <<run, item>> BY <3>2
    <3> QED BY <2>1, <3>1, <3>2
  <2>3. RunStep BY <1>0, <2>2 DEF RunStep
  <2>4. CASE TaskBecomes(u, "none")
    BY <2>2, <2>3, <2>4, TaskGoesOn
  <2>5. CASE PassEnds({u})
    <3>1. /\ \A v \in Copies : task'[v] \in {task[v], "none"}
          /\ \A v \in Copies : sweep'[v] \in {sweep[v], "none"}
          /\ task' \in [Copies -> TaskSteps] /\ sweep' \in [Copies -> SweepSteps]
          /\ task'[u] = "none"
      BY <2>5, PassEndsTyped
    <3>2. \A v \in Copies : task'[v] # "none" => item'[v] = item[v] BY <2>2, <3>1
    <3> QED BY <2>3, <3>1, <3>2, TasksDropped
  <2> QED BY <1>4, <2>4, <2>5 DEF MarkFailed, RunTransaction
<1>5. CASE SwitchRead(u)
  <2>1. CASE TaskBecomes(u, "switching") /\ UNCHANGED <<rest, run, item>>
    <3>1. RunStep /\ task[u] \in AtWork BY <1>5, <2>1 DEF RunStep, SwitchRead
    <3> QED BY <2>1, <3>1, TaskGoesOn
  <2>2. CASE RunTransaction(SkipUnstartedTx(u) \/ SkipChangedTx(u),
                            TaskBecomes(u, "discard"), TaskBecomes(u, "undo"))
    <3>1. TaskBecomes(u, "discard") \/ TaskBecomes(u, "undo") BY <2>2 DEF RunTransaction
    <3>2. CASE SkippedTx(u) /\ (UNCHANGED run \/ (Running(u) /\ Counted(u)))
      <4>1. item' = [item EXCEPT ![u].state = IF @ = "COPYING" THEN "SKIPPED" ELSE @]
        BY <3>2 DEF SkippedTx
      <4>2. (\A v \in Copies : v # u => item'[v] = item[v])
            /\ (item[u].state = "COPYING" => ItemBecomes(u, "SKIPPED"))
            /\ (item[u].state # "COPYING" => item' = item)
        BY <1>0, <4>1, OneItem
      <4>3. Running(u) => item[u].state = "COPYING" BY <1>a, <1>5 DEF SwitchRead, Running, Cancelled
      <4>4. RunStep BY <1>0, <3>2, <4>2, <4>3 DEF RunStep
      <4> QED BY <3>1, <4>2, <4>4, TaskGoesOn
    <3>3. CASE UNCHANGED <<run, item>>
      <4>1. RunStep BY <3>3 DEF RunStep
      <4> QED BY <3>1, <3>3, <4>1, TaskGoesOn
    <3>4. \/ SkippedTx(u) /\ (UNCHANGED run \/ (Running(u) /\ Counted(u)))
          \/ UNCHANGED <<run, item>>
      BY <2>2 DEF RunTransaction, SkipUnstartedTx, SkipChangedTx
    <3> QED BY <3>2, <3>3, <3>4
  <2> QED BY <1>5, <2>1, <2>2 DEF SwitchRead
<1>6. CASE SwitchCommit(u)
  <2>0. item[u].state = "COPYING" \/ (Cancelled(u) /\ item[u].state # "COPYING")
    BY <1>0, <1>a, <1>6 DEF SwitchCommit
  <2>1. TaskBecomes(u, "none") \/ TaskBecomes(u, "discard") \/ TaskBecomes(u, "undo")
    BY <1>6 DEF SwitchCommit, RunTransaction
  <2>2. \/ item[u].state = "COPYING" /\ \E state \in Finished : ItemBecomes(u, state) /\ Counted(u)
        \/ Cancelled(u) /\ UNCHANGED item /\ Counted(u)
        \/ UNCHANGED <<run, item>>
    <3>1. CASE MoveTx(u) BY <1>0, <3>1 DEF MoveTx, Completed, Held
    <3>2. CASE LateTx(u)
      <4>1. item' = [item EXCEPT ![u].state = IF @ = "COPYING" THEN "SKIPPED" ELSE @] /\ Counted(u)
        BY <3>2 DEF LateTx
      <4>2. /\ item[u].state = "COPYING" => ItemBecomes(u, "SKIPPED")
            /\ item[u].state # "COPYING" => item' = item
        BY <1>0, <4>1, OneItem
      <4> QED BY <1>0, <2>0, <4>1, <4>2
    <3> QED BY <1>6, <3>1, <3>2 DEF SwitchCommit, RunTransaction
  <2>3. RunStep BY <1>0, <2>2 DEF RunStep
  <2>4. \A v \in Copies : v # u => item'[v] = item[v]
    BY <2>2 DEF ItemBecomes, RunsInv, RunsTyped
  <2> QED BY <2>1, <2>3, <2>4, TaskGoesOn
<1> QED BY <1>1, <1>2, <1>3, <1>4, <1>5, <1>6 DEF CopyStep

\* The cleanup of a cancelled run writes no item that must still be copied.
LEMMA SweepTasks ==
  ASSUME RunsInv, WorkOK, NEW u \in Copies, EraseCancelled(u) \/ SkipCancelled(u)
  PROVE  RunStep /\ WorkOK'
<1>1. sweep[u] # "none" /\ Cancelled(u)
  BY DEF EraseCancelled, SkipCancelled, WorkOK, SweepOK
<1>2. PICK step \in SweepSteps : SweepBecomes(u, step)
  BY DEF EraseCancelled, SkipCancelled, Call, RunTransaction, SweepSteps
<1>3. sweep' = [sweep EXCEPT ![u] = step] /\ task' = task BY <1>2 DEF SweepBecomes
<1>4. \/ UNCHANGED <<run, item>>
      \/ item[u].state \in Unfinished /\ ItemBecomes(u, "SKIPPED") /\ Counted(u)
  BY DEF EraseCancelled, SkipCancelled, RunTransaction, SkipCancelledTx
<1>5. RunStep BY <1>4 DEF RunStep, Finished
<1>6. \A v \in Copies : Cancelled(v) => Cancelled(v)' BY <1>5, CancelledStays
<1>7. /\ \A v \in Copies : v # u => item'[v] = item[v]
      /\ item'[u].state = item[u].state \/ item'[u].state = "SKIPPED"
  BY <1>4 DEF ItemBecomes, RunsInv, RunsTyped
<1>8. TasksOK' BY <1>1, <1>3, <1>6, <1>7 DEF WorkOK, TasksOK, Finished
<1>9. SweepOK' BY <1>1, <1>3, <1>6 DEF WorkOK, SweepOK
<1> QED BY <1>5, <1>8, <1>9 DEF WorkOK

LEMMA TasksKeep ==
  ASSUME RunsInv, WorkOK, [Next]_vars
  PROVE  RunStep /\ WorkOK'
<1>0. ASSUME UNCHANGED <<run, item, task, sweep>> PROVE RunStep /\ WorkOK'
  BY <1>0 DEF RunStep, WorkOK, TasksOK, SweepOK, Cancelled
<1>1. CASE ControlNext /\ UNCHANGED others
  <2>1. PICK r \in Runs : CreateRead(r) \/ CreateCommit(r) \/ Start(r) \/ Pause(r) \/ Cancel(r)
    BY <1>1 DEF ControlNext
  <2>2. RunStep BY <2>1 DEF RunStep
  <2>3. \A v \in Copies : Cancelled(v) => Cancelled(v)' BY <2>2, CancelledStays
  <2>4. UNCHANGED <<task, sweep>>
    BY <2>1 DEF CreateRead, CreateCommit, Start, Pause, Cancel, Control
  <2>5. \A u \in Copies : item[u].state \in Unfinished \cup Finished => item'[u] = item[u]
    <3>1. CASE CreateRead(r)
      <4>1. run[r].state = "absent" /\ \A u \in Copies : RunOf[u] # r => item'[u] = item[u]
        BY <3>1 DEF CreateRead, Fits
      <4>2. \A u \in Copies : RunOf[u] = r => item[u].state = "absent"
        BY <4>1 DEF RunsInv, ItemsBegun
      <4> QED BY <4>1, <4>2 DEF Unfinished, Finished
    <3>2. CASE CreateCommit(r)
      <4>1. run[r].state = "drafted" /\ \A u \in Copies : RunOf[u] # r => item'[u] = item[u]
        BY <3>2 DEF CreateCommit, Items
      <4>2. \A u \in Copies : RunOf[u] = r => item[u].state \in {"absent", "drafted"}
        BY <4>1 DEF RunsInv, ItemsBegun
      <4> QED BY <4>1, <4>2 DEF Unfinished, Finished
    <3>3. CASE Start(r) \/ Pause(r) \/ Cancel(r) BY <3>3 DEF Start, Pause, Cancel, Control
    <3> QED BY <2>1, <3>1, <3>2, <3>3
  <2> QED BY <2>2, <2>3, <2>4, <2>5 DEF WorkOK, TasksOK, SweepOK, Unfinished, Finished
<1>2. CASE UNCHANGED migration BY <1>0, <1>2 DEF migration
<1>3. CASE BeginPass
  <2>1. PICK some \in SUBSET Runnable : task' = [u \in Copies |-> IF u \in some THEN "listed" ELSE task[u]]
    BY <1>3 DEF BeginPass, List
  <2>2. UNCHANGED <<run, item, sweep>> BY <1>3 DEF BeginPass, List
  <2>3. TasksOK' BY <2>1, <2>2 DEF WorkOK, TasksOK, Runnable, ItemsIn, TaskSteps, AtWork, Cancelled
  <2>4. SweepOK' BY <2>2 DEF WorkOK, SweepOK, Cancelled
  <2> QED BY <2>2, <2>3, <2>4 DEF RunStep, WorkOK
<1>4. CASE MigrationPass
  <2>1. CASE StartWave
    <3>1. UNCHANGED <<run, item, sweep>> BY <2>1 DEF StartWave
    <3>2. task' = [u \in Copies |-> IF u \in wave' THEN "get" ELSE task[u]] BY <2>1 DEF StartWave
    <3>3. wave' \subseteq Tasked({"queued"}) BY <2>1 DEF StartWave
    <3>4. TasksOK'
      BY <3>1, <3>2, <3>3 DEF WorkOK, TasksOK, Tasked, TaskSteps, Copying, AtWork, Cancelled
    <3>5. SweepOK' BY <3>1 DEF WorkOK, SweepOK, Cancelled
    <3> QED BY <3>1, <3>4, <3>5 DEF RunStep, WorkOK
  <2>2. CASE ListCancelled
    <3>1. UNCHANGED <<run, item, task>> BY <2>2 DEF ListCancelled
    <3>2. SweepOK' BY <2>2 DEF ListCancelled, SweepOK, SweepSteps, Cancelled
    <3>3. TasksOK' BY <3>1 DEF WorkOK, TasksOK, Cancelled
    <3> QED BY <3>1, <3>2, <3>3 DEF RunStep, WorkOK
  <2>3. CASE CompleteRuns
    <3>1. RunStep BY <2>3 DEF RunStep
    <3>2. UNCHANGED <<task, sweep, item>> BY <2>3 DEF CompleteRuns
    <3>3. \A v \in Copies : Cancelled(v) => Cancelled(v)' BY <3>1, CancelledStays
    <3> QED BY <3>1, <3>2, <3>3 DEF WorkOK, TasksOK, SweepOK
  <2>4. ASSUME NEW u \in Copies, CopyStep(u) PROVE RunStep /\ WorkOK' BY <2>4, CopyTasks
  <2>5. ASSUME NEW u \in Copies, EraseCancelled(u) \/ SkipCancelled(u) PROVE RunStep /\ WorkOK'
    BY <2>5, SweepTasks
  <2> QED BY <1>4, <2>1, <2>2, <2>3, <2>4, <2>5 DEF MigrationPass, PassStep
<1>5. ASSUME NEW S \in SUBSET Copies, PassEnds(S), UNCHANGED <<run, item>> PROVE RunStep /\ WorkOK'
  <2>1. RunStep BY <1>5 DEF RunStep
  <2> QED BY <1>5, <2>1, PassEndsTyped, TasksDropped
<1>6. CASE Restart BY <1>5, <1>6 DEF Restart
<1>7. CASE PassBroken BY <1>2, <1>5, <1>7 DEF PassBroken, PassFails
<1>8. CASE DeleteRequest BY <1>2, <1>8 DEF DeleteRequest
<1>9. ASSUME NEW u \in Uploads, Publish(u) PROVE RunStep /\ WorkOK' BY <1>2, <1>9 DEF Publish
<1>10. CASE UploadPass BY <1>2, <1>10 DEF UploadPass
<1>11. CASE UNCHANGED vars BY <1>2, <1>11 DEF vars
<1> QED BY <1>1, <1>3, <1>4, <1>6, <1>7, <1>8, <1>9, <1>10, <1>11 DEF Next

-----------------------------------------------------------------------------
(* The bytes of a copy *)

Checked == {"switch", "switching"}
BlobsTyped == blob \in [Uploads -> {"absent", "good", "bad"}]

\* A copy has a location only when its item is finished.
CopiesFresh ==
  \A u \in Copies : item[u].state \notin Finished => location[u] = "absent"

\* A copy that is to be switched to is stored as it was verified, or its run was
\* cancelled meanwhile.
Verified == BlobsTyped /\ \A u \in Copies : task[u] \in Checked => blob[u] = "good" \/ Cancelled(u)

\* Only a switch gives a copy its location.
LEMMA LocationsBegin ==
  ASSUME IndexInv, RowStep, NEW u \in Copies, location[u] = "absent"
  PROVE  location'[u] = "absent" \/ (task[u] = "switching" /\ (MoveTx(u) \/ LateTx(u)))
<1>0. u \in Uploads BY CopyFacts
<1>1. ASSUME NEW v \in Uploads \ Copies, PublishTx(v) PROVE location'[u] = "absent"
  BY <1>0, <1>1 DEF PublishTx, Located
<1>2. ASSUME NEW v \in Uploads,
             CloseTx(v, "EXPIRED") \/ ClaimTx(v) \/ RevertTx(v) \/ FinalizeTx(v) \/ CloseRetainedTx(v)
      PROVE  location'[u] = "absent"
  BY <1>0, <1>2 DEF CloseTx, ReleaseTx, ClaimTx, RevertTx, FinalizeTx, CloseRetainedTx, IndexInv, RowsTyped
<1>3. ASSUME (\E k \in Keys : CloseUnlocatedTx(k)) \/ \E old : PruneTx(old) PROVE location' = location
  BY <1>3 DEF CloseUnlocatedTx, PruneTx
<1>4. ASSUME NEW v \in Copies, v # u, MoveTx(v) \/ LateTx(v) PROVE location'[u] = "absent"
  BY <1>0, <1>4 DEF MoveTx, LateTx, Relocated
<1> QED BY <1>1, <1>2, <1>3, <1>4 DEF RowStep, RowChange, tables

\* What is finished stays so.
LEMMA FinishedStays ==
  ASSUME RunsInv, RunStep, NEW u \in Copies, item[u].state \in Finished
  PROVE  item'[u].state \in Finished
<1>0. RunOf[u] \in Runs /\ Finished \cap Unfinished = {} /\ Finished \cap {"absent", "drafted"} = {}
  BY CopyFacts DEF Finished, Unfinished
<1>1. ASSUME NEW r \in Runs, CreateRead(r) PROVE item'[u] = item[u]
  <2>1. RunOf[u] = r => item[u].state = "absent"
    BY <1>1 DEF CreateRead, RunsInv, ItemsBegun
  <2> QED BY <1>0, <1>1, <2>1 DEF CreateRead, Fits
<1>2. ASSUME NEW r \in Runs, CreateCommit(r) PROVE item'[u] = item[u]
  <2>1. RunOf[u] = r => item[u].state \in {"absent", "drafted"}
    BY <1>2 DEF CreateCommit, RunsInv, ItemsBegun
  <2> QED BY <1>0, <1>2, <2>1 DEF CreateCommit, Items
<1>3. ASSUME NEW r \in Runs, Start(r) \/ Pause(r) \/ Cancel(r) PROVE item' = item
  BY <1>3 DEF Start, Pause, Cancel, Control
<1>4. ASSUME NEW v \in Copies, NEW state, item[v].state \in Unfinished, ItemBecomes(v, state)
      PROVE  item'[u] = item[u]
  BY <1>0, <1>4 DEF ItemBecomes, RunsInv, RunsTyped
<1>5. CompleteRuns => item' = item BY DEF CompleteRuns
<1> QED BY <1>1, <1>2, <1>3, <1>4, <1>5 DEF RunStep

LEMMA FreshKeeps ==
  ASSUME IndexInv, RunsInv, TasksOK, CopiesFresh, RowStep, RunStep
  PROVE  CopiesFresh'
<1> SUFFICES ASSUME NEW u \in Copies, item'[u].state \notin Finished
             PROVE  location'[u] = "absent"
  BY DEF CopiesFresh
<1>1. item[u].state \notin Finished /\ location[u] = "absent"
  BY FinishedStays DEF CopiesFresh
<1>2. ASSUME task[u] = "switching", MoveTx(u) \/ LateTx(u) PROVE FALSE
  <2>1. item[u].state = "COPYING" BY <1>1, <1>2 DEF TasksOK, AtWork
  <2>2. "COPYING" \in ItemStates /\ "SKIPPED" \in ItemStates /\ "COMPLETED" \in ItemStates
    BY DEF ItemStates, Unfinished
  <2>3. item' = [item EXCEPT ![u].state = "COMPLETED"] \/
        item' = [item EXCEPT ![u].state = IF @ = "COPYING" THEN "SKIPPED" ELSE @]
    BY <1>2, <2>1 DEF MoveTx, LateTx, Completed, Held, ItemBecomes
  <2>4. item'[u].state \in {"COMPLETED", "SKIPPED"} BY <2>1, <2>3 DEF RunsInv, RunsTyped
  <2> QED BY <2>4 DEF Finished
<1> QED BY <1>1, <1>2, LocationsBegin

\* Who writes the bytes of a copy that has no location.
LEMMA BlobStep ==
  ASSUME ActorsOnPublished, BlobsTyped, [Next]_vars
  PROVE  /\ BlobsTyped'
         /\ \A u \in Copies : \/ blob'[u] = blob[u]
                              \/ location[u] # "absent"
                              \/ task[u] \in {"put", "discard", "undo"}
                              \/ sweep[u] = "erase"
<1> DEFINE Writable(u) == \/ location[u] # "absent"
                          \/ task[u] \in {"put", "discard", "undo"} \/ sweep[u] = "erase"
           Kept == BlobsTyped' /\ \A u \in Copies : blob'[u] = blob[u] \/ Writable(u)
<1>1. blob' = blob => Kept BY DEF BlobsTyped
<1>2. ASSUME NEW v \in Uploads, NEW b \in {"absent", "good", "bad"}, blob' = [blob EXCEPT ![v] = b],
             v \in Copies => Writable(v)
      PROVE  Kept
  BY <1>2, CopyFacts DEF BlobsTyped
<1>3. CASE DeleteRequest
  <2>1. PICK d \in Deleters : \/ \E k \in Keys : Delete(d, k)
                              \/ DeleteClaim(d) \/ DeleteErase(d) \/ DeleteRevert(d)
                              \/ DeleteFinalize(d) \/ DeleteLost(d)
    BY <1>3 DEF DeleteRequest, DeleteNext
  <2>2. CASE DeleteErase(d)
    <3>1. del[d].on \in Uploads /\ location[del[d].on] # "absent"
      BY <2>2 DEF DeleteErase, DeleteAt, ActorsOnPublished
    <3>2. blob' = blob \/ blob' = [blob EXCEPT ![del[d].on] = "absent"]
      BY <2>2 DEF DeleteErase, Call, Erased, provider
    <3> QED BY <1>1, <1>2, <3>1, <3>2
  <2>3. CASE ~DeleteErase(d)
    BY <1>1, <2>1, <2>3 DEF Delete, DeleteClaim, DeleteRevert, DeleteFinalize, DeleteLost, Transaction, provider
  <2> QED BY <2>2, <2>3
<1>4. CASE UploadPass
  <2>1. CASE EraseListed
    <3>1. worker.on \in Uploads /\ (worker.on \in Copies => location[worker.on] # "absent")
      BY <2>1 DEF EraseListed, ActorsOnPublished
    <3>2. blob' = blob \/ blob' = [blob EXCEPT ![worker.on] = "absent"]
      BY <2>1 DEF EraseListed, Call, Erased, provider
    <3> QED BY <1>1, <1>2, <3>1, <3>2
  <2>2. CASE AbortExpired
    BY <1>1, <2>2 DEF AbortExpired, Call, PartsAborted, provider
  <2>3. CASE ~EraseListed /\ ~AbortExpired
    BY <1>1, <1>4, <2>3 DEF UploadPass, WorkerStep, NextDeleting, ListExpired, MarkExpired, ListDeleting,
       FinalizeDeleted, ListRetained, CloseRetained, Prune, TakeExpired, TakeDeleting, TakeRetained,
       CloseUnlocated, Transaction, untouched, provider
  <2> QED BY <2>1, <2>2, <2>3
<1>5. ASSUME NEW u \in Copies, CopyStep(u) PROVE Kept
  <2>0. u \in Uploads BY CopyFacts
  <2>1. CASE PutCopy(u)
    BY <1>1, <1>2, <2>0, <2>1 DEF PutCopy, Call, Written, provider
  <2>2. CASE DropCopy(u)
    BY <1>1, <1>2, <2>0, <2>2 DEF DropCopy, Call, Erased, provider
  <2>3. CASE MarkFailed(u) \/ SwitchRead(u) \/ SwitchCommit(u)
    BY <1>1, <2>3 DEF MarkFailed, SwitchRead, SwitchCommit, RunTransaction, rest, provider
  <2>4. CASE Claim(u) \/ GetSource(u) \/ Verify(u)
    BY <1>1, <2>4 DEF Claim, GetSource, Verify, Asked, rest, provider
  <2> QED BY <1>5, <2>1, <2>2, <2>3, <2>4 DEF CopyStep
<1>6. ASSUME NEW u \in Copies, EraseCancelled(u) \/ SkipCancelled(u) PROVE Kept
  <2>0. u \in Uploads BY CopyFacts
  <2>1. CASE EraseCancelled(u)
    BY <1>1, <1>2, <2>0, <2>1 DEF EraseCancelled, Call, Erased, provider
  <2>2. CASE SkipCancelled(u) BY <1>1, <2>2 DEF SkipCancelled, RunTransaction, provider
  <2> QED BY <1>6, <2>1, <2>2
<1>7. CASE ControlNext \/ BeginPass \/ Restart \/ StartWave \/ ListCancelled \/ CompleteRuns \/ PassBroken
  BY <1>1, <1>7 DEF ControlNext, CreateRead, CreateCommit, Start, Pause, Cancel, Control, BeginPass,
     List, Restart, StartWave, ListCancelled, CompleteRuns, PassBroken, WorkerRestart, PassFails, rest,
     untouched, provider
<1>8. ASSUME NEW u \in Uploads, Publish(u) PROVE Kept BY <1>1, <1>8 DEF Publish, provider
<1>9. CASE UNCHANGED vars BY <1>1, <1>9 DEF vars, provider
<1> QED BY <1>3, <1>4, <1>5, <1>6, <1>7, <1>8, <1>9 DEF Next, MigrationPass, PassStep

\* Only a verification lets a copy be switched to.
LEMMA NewlyChecked ==
  ASSUME TasksOK, [Next]_vars, NEW u \in Copies, task'[u] \in Checked
  PROVE  task[u] \in Checked \/ (blob[u] = "good" /\ UNCHANGED blob)
<1> USE DEF Checked
<1>1. CASE UNCHANGED task BY <1>1
<1>2. ASSUME NEW S \in SUBSET Copies, PassEnds(S) PROVE task[u] \in Checked
  BY <1>2 DEF PassEnds
<1>3. ASSUME NEW v \in Copies, CopyStep(v) PROVE task[u] \in Checked \/ (blob[u] = "good" /\ UNCHANGED blob)
  <2>1. ASSUME NEW step \in {"none", "queued", "put", "verify", "undo", "fail", "discard"},
               TaskBecomes(v, step)
        PROVE  task[u] \in Checked
    BY <2>1 DEF TaskBecomes, TasksOK
  <2>2. ASSUME task[v] \in Checked, TaskBecomes(v, "switching")
        PROVE  task[u] \in Checked
    BY <2>2 DEF TaskBecomes, TasksOK
  <2>3. CASE Claim(v) BY <2>1, <2>3 DEF Claim
  <2>4. CASE GetSource(v) BY <2>1, <2>4 DEF GetSource, Asked
  <2>5. CASE PutCopy(v) BY <2>1, <2>5 DEF PutCopy, Call
  <2>6. CASE Verify(v)
    <3>1. CASE blob[v] = "good" /\ TaskBecomes(v, "switch")
      <4>1. UNCHANGED blob BY <2>6 DEF Verify, Asked, rest, provider
      <4> QED BY <3>1, <4>1 DEF TaskBecomes, TasksOK
    <3>2. CASE TaskBecomes(v, "undo") BY <2>1, <3>2
    <3> QED BY <2>6, <3>1, <3>2 DEF Verify, Asked
  <2>7. CASE DropCopy(v) BY <2>1, <2>7 DEF DropCopy, Call
  <2>8. CASE MarkFailed(v) BY <1>2, <2>1, <2>8 DEF MarkFailed, RunTransaction
  <2>9. CASE SwitchRead(v) BY <2>1, <2>2, <2>9 DEF SwitchRead, RunTransaction
  <2>10. CASE SwitchCommit(v) BY <2>1, <2>10 DEF SwitchCommit, RunTransaction
  <2> QED BY <1>3, <2>3, <2>4, <2>5, <2>6, <2>7, <2>8, <2>9, <2>10 DEF CopyStep
<1>4. ASSUME NEW v \in Copies, EraseCancelled(v) \/ SkipCancelled(v) PROVE UNCHANGED task
  BY <1>4 DEF EraseCancelled, SkipCancelled, Call, RunTransaction, SweepBecomes
<1>5. CASE BeginPass BY <1>5 DEF BeginPass, List
<1>6. CASE StartWave BY <1>6 DEF StartWave
<1>7. CASE ListCancelled \/ CompleteRuns BY <1>1, <1>7 DEF ListCancelled, CompleteRuns
<1>8. CASE Restart BY <1>2, <1>8 DEF Restart
<1>9. CASE PassBroken BY <1>1, <1>2, <1>9 DEF PassBroken, PassFails, migration
<1>10. CASE ControlNext
  BY <1>1, <1>10 DEF ControlNext, CreateRead, CreateCommit, Start, Pause, Cancel, Control
<1>11. CASE DeleteRequest \/ UploadPass \/ (\E v \in Uploads : Publish(v)) \/ UNCHANGED vars
  BY <1>1, <1>11 DEF DeleteRequest, UploadPass, Publish, migration, vars
<1> QED BY <1>1, <1>3, <1>4, <1>5, <1>6, <1>7, <1>8, <1>9, <1>10, <1>11 DEF Next, MigrationPass, PassStep

LEMMA VerifiedKeeps ==
  ASSUME ActorsOnPublished, RunsInv, RunStep, WorkOK, CopiesFresh, Verified, [Next]_vars
  PROVE  Verified'
<1>1. BlobsTyped' BY BlobStep DEF Verified
<1>2. ASSUME NEW u \in Copies, task'[u] \in Checked PROVE blob'[u] = "good" \/ Cancelled(u)'
  <2>1. CASE Cancelled(u) BY <2>1, CancelledStays
  <2>2. CASE task[u] \in Checked /\ ~Cancelled(u)
    <3>1. item[u].state = "COPYING" BY <2>2 DEF WorkOK, TasksOK, Checked, AtWork
    <3>2. location[u] = "absent" BY <3>1 DEF CopiesFresh, Finished
    <3>3. sweep[u] # "erase" BY <2>2 DEF WorkOK, SweepOK
    <3>4. blob'[u] = blob[u] BY <2>2, <3>2, <3>3, BlobStep DEF Verified, Checked
    <3> QED BY <2>2, <3>4 DEF Verified
  <2>3. CASE task[u] \notin Checked BY <1>2, <2>3, NewlyChecked DEF WorkOK
  <2> QED BY <2>1, <2>2, <2>3
<1> QED BY <1>1, <1>2 DEF Verified

-----------------------------------------------------------------------------
(* The inductive invariant and what follows from it *)

MigrationInv == IndexInv /\ ActorsOnPublished /\ RunsInv /\ WorkOK /\ CopiesFresh /\ Verified

LEMMA MigrationStarts == Init => MigrationInv
<1> SUFFICES ASSUME Init PROVE MigrationInv OBVIOUS
<1> USE CopyFacts
<1>1. PICK s \in Starts : StartAt(s) BY DEF Init
<1>2. /\ s.published \subseteq Uploads \ Copies /\ s.pending \subseteq Uploads \ Copies
      /\ \A u, v \in s.published : KeyOf[u] = KeyOf[v] => u = v
  BY StartAssumption
<1>3. IndexInv
  <2>1. /\ session = [u \in Uploads |-> IF u \in s.published THEN "pruned"
                                        ELSE IF u \in s.pending THEN "INITIATED" ELSE "absent"]
        /\ location = [u \in Uploads |-> IF u \in s.published THEN "ACTIVE" ELSE "absent"]
    BY <1>1 DEF StartAt
  <2>2. record = [k \in Keys |->
                    IF \E u \in s.published : KeyOf[u] = k
                    THEN [state |-> "AVAILABLE", at |-> CHOOSE u \in s.published : KeyOf[u] = k]
                    ELSE [state |-> "absent", at |-> NoUpload]]
    BY <1>1 DEF StartAt
  <2>3. \A k \in Keys :
          IF \E u \in s.published : KeyOf[u] = k
            THEN record[k].state = "AVAILABLE" /\ record[k].at \in s.published /\ KeyOf[record[k].at] = k
            ELSE record[k] = [state |-> "absent", at |-> NoUpload]
    BY <2>2
  <2>4. record \in [Keys -> [state : RecordStates, at : Uploads \cup {NoUpload}]]
    BY <1>2, <2>2 DEF RecordStates
  <2>5. RowsTyped BY <2>1, <2>4 DEF RowsTyped, SessionStates, LocationStates
  <2>6. Pointers BY <1>2, <2>1, <2>3 DEF Pointers
  <2>7. ActiveIsShown BY <1>2, <2>1, <2>3 DEF ActiveIsShown
  <2>8. CopiesUnsessioned BY <1>2, <2>1 DEF CopiesUnsessioned
  <2> QED BY <2>5, <2>6, <2>7, <2>8 DEF IndexInv
<1>4. ActorsOnPublished
  BY DEF Init, ActorsOnPublished, DeletesInit, DeletesOK, NoDelete, DeleteSteps, WorkerInit, WorkerOK, Resting, Phases
<1>5. /\ run = [r \in Runs |-> [state |-> IF r \in s.runs THEN "absent" ELSE "COMPLETED",
                                total |-> 0, done |-> 0]]
      /\ item = [u \in Copies |-> [state |-> "absent", from |-> NoUpload]]
      /\ task = [u \in Copies |-> "none"] /\ sweep = [u \in Copies |-> "none"]
  BY <1>1 DEF StartAt, MigrationInit
<1>6. RunsInv
  <2>1. RunsTyped BY <1>5 DEF RunsTyped, RunStates, ItemStates
  <2>2. ItemsBegun BY <1>5 DEF ItemsBegun
  <2>3. \A r \in Runs : Items(r) = {} BY <1>5 DEF Items
  <2>4. \A r \in Runs : Cardinality(Items(r)) = 0 BY <2>3, FS_EmptySet
  <2>5. \A r \in Runs : Cardinality(DoneItems(r)) \in Nat BY ItemsFinite
  <2>6. RunsCounted BY <1>5, <2>4, <2>5 DEF RunsCounted
  <2>7. CompletedRunIsDone BY <2>3 DEF CompletedRunIsDone
  <2> QED BY <2>1, <2>2, <2>6, <2>7 DEF RunsInv
<1>7. WorkOK BY <1>5 DEF WorkOK, TasksOK, TaskSteps, AtWork, SweepOK, SweepSteps
<1>8. CopiesFresh BY <1>1, <1>2 DEF StartAt, CopiesFresh
<1>9. Verified BY <1>1, <1>5 DEF StartAt, Verified, BlobsTyped, Checked
<1> QED BY <1>3, <1>4, <1>6, <1>7, <1>8, <1>9 DEF MigrationInv

LEMMA MigrationKeeps == MigrationInv /\ [Next]_vars => MigrationInv' /\ RowStep
<1> SUFFICES ASSUME MigrationInv, [Next]_vars PROVE MigrationInv' /\ RowStep OBVIOUS
<1> USE DEF MigrationInv
<1>1. RowStep BY NextRows
<1>2. RunStep /\ WorkOK' BY TasksKeep
<1>3. IndexInv' BY <1>1, IndexKeeps
<1>4. ActorsOnPublished' BY ActorsKeep
<1>5. RunsInv' BY <1>2, RunsKeep
<1>6. CopiesFresh' BY <1>1, <1>2, FreshKeeps DEF WorkOK
<1>7. Verified' BY <1>2, VerifiedKeeps
<1> QED BY <1>1, <1>2, <1>3, <1>4, <1>5, <1>6, <1>7

LEMMA MigrationHolds == Spec => []MigrationInv
<1>1. MigrationInv /\ [Next]_vars => MigrationInv' BY MigrationKeeps
<1> QED BY MigrationStarts, <1>1, PTL DEF Spec

\* However deletes, overwrites, crashes, broken passes and lost answers fall between
\* the two halves of switchLocation, no location stays ACTIVE that its record does not
\* show, but for those whose record the worker closes on a list that is stale.
THEOREM ActiveCopiesShown == Spec => []ActiveIsShown
<1>1. MigrationInv => ActiveIsShown BY DEF MigrationInv, IndexInv
<1> QED BY <1>1, MigrationHolds, PTL

\* completeEmptyRuns completes a run only when all its items are finished: an item
\* is counted at most once, in the transaction that finishes it, unless the run was
\* cancelled, and then it is not completed.
THEOREM CompletedRunsDone == Spec => []CompletedRunIsDone
<1>1. MigrationInv => CompletedRunIsDone BY DEF MigrationInv, RunsInv
<1> QED BY <1>1, MigrationHolds, PTL

\* A migration brings no deleted object back: a record that was not shown is shown
\* again only by an upload, or by a delete that gave it back (which changes nothing
\* but its state).
THEOREM DeletedStayDeleted == Spec => NothingResurrected
<1> DEFINE Revived(k) ==
      record[k].state # "AVAILABLE" /\ record'[k].state = "AVAILABLE" =>
        record'[k].at \notin Copies \/ record[k] = [record'[k] EXCEPT !.state = "DELETING"]
<1>1. ASSUME MigrationInv, [Next]_vars, NEW k \in Keys PROVE Revived(k)
  <2> USE CopyFacts
  <2>0. IndexInv /\ RowStep BY <1>1, MigrationKeeps DEF MigrationInv
  <2>t. record \in [Keys -> [state : RecordStates, at : Uploads \cup {NoUpload}]]
    BY <2>0 DEF IndexInv, RowsTyped
  <2>1. record' = record => Revived(k) OBVIOUS
  <2>2. ASSUME NEW u \in Uploads \ Copies, PublishTx(u) PROVE Revived(k)
    BY <2>t, <2>2 DEF PublishTx
  <2>3. ASSUME NEW u \in Uploads, CloseTx(u, "EXPIRED") \/ CloseRetainedTx(u) PROVE record' = record
    BY <2>3 DEF CloseTx, ReleaseTx, CloseRetainedTx
  <2>4. ASSUME NEW u \in Uploads, ClaimTx(u) \/ FinalizeTx(u) PROVE Revived(k)
    BY <2>t, <2>4 DEF ClaimTx, FinalizeTx
  <2>5. ASSUME NEW u \in Uploads, RevertTx(u) PROVE Revived(k)
    <3>1. record' = [record EXCEPT ![KeyOf[u]] =
                       IF @.state = "DELETING" THEN [state |-> "AVAILABLE", at |-> @.at] ELSE @]
      BY <2>5 DEF RevertTx
    <3>2. \/ record'[k] = record[k]
          \/ record[k].state = "DELETING" /\ record'[k] = [state |-> "AVAILABLE", at |-> record[k].at]
      BY <2>t, <3>1
    <3>3. record[k] \in [state : RecordStates, at : Uploads \cup {NoUpload}] BY <2>t
    <3> QED BY <3>2, <3>3
  <2>6. ASSUME NEW l \in Keys, CloseUnlocatedTx(l) PROVE Revived(k)
    BY <2>t, <2>6 DEF CloseUnlocatedTx
  <2>7. (\E old : PruneTx(old)) => record' = record BY DEF PruneTx
  <2>8. ASSUME NEW u \in Copies, MoveTx(u) \/ LateTx(u) PROVE Revived(k)
    <3>1. CASE LateTx(u) BY <2>1, <3>1 DEF LateTx
    <3>2. CASE MoveTx(u)
      <4>1. /\ record[KeyOf[u]].state = "AVAILABLE"
            /\ record' = [record EXCEPT ![KeyOf[u]].at = u]
        BY <3>2 DEF MoveTx, Serves
      <4>2. CASE k = KeyOf[u] BY <4>1, <4>2
      <4>3. CASE k # KeyOf[u]
        <5>1. record'[k] = record[k] BY <2>t, <4>1, <4>3
        <5>2. record[k] \in [state : RecordStates, at : Uploads \cup {NoUpload}] BY <2>t
        <5> QED BY <5>1, <5>2
      <4> QED BY <4>2, <4>3
    <3> QED BY <2>8, <3>1, <3>2
  <2>9. UNCHANGED tables => record' = record BY DEF tables
  <2> HIDE DEF Revived
  <2>10. RowChange BY <2>0 DEF RowStep
  <2> QED BY <2>1, <2>2, <2>3, <2>4, <2>5, <2>6, <2>7, <2>8, <2>9, <2>10 DEF RowChange
<1>2. MigrationInv /\ [Next]_vars => [\A k \in Keys : Revived(k)]_vars BY <1>1
<1> QED BY <1>2, MigrationHolds, PTL DEF Spec, NothingResurrected

\* A copy only becomes ACTIVE with its verified bytes in place, unless its run was
\* cancelled: nobody but its own item writes it before, no cleanup takes an item of a
\* run that goes on, and every item that is tried again verifies again.
THEOREM LiveCopiesVerified == Spec => LiveCopiesStored
<1> DEFINE Stored(u) == location[u] # "ACTIVE" /\ location'[u] = "ACTIVE" =>
                            blob[u] = "good" \/ run[RunOf[u]].state = "CANCELLED"
<1>1. ASSUME MigrationInv, [Next]_vars, NEW u \in Copies PROVE Stored(u)
  <2> USE CopyFacts
  <2>0. IndexInv /\ RowStep BY <1>1, MigrationKeeps DEF MigrationInv
  <2>t. location \in [Uploads -> LocationStates] BY <2>0 DEF IndexInv, RowsTyped
  <2>1. location' = location => Stored(u) OBVIOUS
  <2>2. ASSUME NEW v \in Uploads \ Copies, PublishTx(v) PROVE Stored(u)
    BY <2>2 DEF PublishTx, Located
  <2>3. ASSUME NEW v \in Uploads,
               CloseTx(v, "EXPIRED") \/ ClaimTx(v) \/ RevertTx(v) \/ FinalizeTx(v) \/ CloseRetainedTx(v)
        PROVE  Stored(u)
    BY <2>t, <2>3 DEF CloseTx, ReleaseTx, ClaimTx, RevertTx, FinalizeTx, CloseRetainedTx
  <2>4. (\E k \in Keys : CloseUnlocatedTx(k)) \/ (\E old : PruneTx(old)) => location' = location
    BY DEF CloseUnlocatedTx, PruneTx
  <2>5. ASSUME NEW v \in Copies, task[v] = "switching", MoveTx(v) \/ LateTx(v) PROVE Stored(u)
    <3>1. CASE v = u BY <1>1, <2>5, <3>1 DEF MigrationInv, Verified, Checked, Cancelled
    <3>2. CASE v # u BY <2>5, <3>2 DEF MoveTx, LateTx, Relocated
    <3> QED BY <3>1, <3>2
  <2> QED BY <2>0, <2>1, <2>2, <2>3, <2>4, <2>5 DEF RowStep, RowChange, tables
<1>2. MigrationInv /\ [Next]_vars => [\A u \in Copies : Stored(u)]_vars BY <1>1
<1> QED BY <1>2, MigrationHolds, PTL DEF Spec, LiveCopiesStored

-----------------------------------------------------------------------------
(* Usage *)

\* The counters and what else the index invariant leaves untyped.
OthersTyped ==
  /\ usedBytes \in Nat /\ reservedBytes \in Nat
  /\ objectCount \in Nat /\ activeUploadCount \in Nat
  /\ due \subseteq Uploads /\ finalized \subseteq Uploads
  /\ parts \subseteq Uploads /\ signed \subseteq Uploads
  /\ pass \in Passes /\ wave \subseteq Copies

\* A copy is as large as what it replaces: its item was made for that object.
CopiesFit ==
  \A u \in Copies : item[u].state # "absent" => SizeOf[u] = SizeOf[item[u].from]

LEMMA FitKeeps ==
  ASSUME RunsTyped, CopiesFit, RunStep
  PROVE  CopiesFit'
<1>1. ASSUME NEW u \in Copies, item'[u] = item[u]
      PROVE  item'[u].state # "absent" => SizeOf[u] = SizeOf[item'[u].from]
  BY <1>1 DEF CopiesFit
<1>2. ASSUME NEW r \in Runs, CreateRead(r) PROVE CopiesFit'
  BY <1>2 DEF CreateRead, Fits, CopiesFit
<1>3. ASSUME NEW r \in Runs, CreateCommit(r) PROVE CopiesFit'
  <2>1. \A u \in Copies : item'[u] = item[u]
                           \/ (item[u].state # "absent" /\ item'[u].from = item[u].from)
    BY <1>3 DEF CreateCommit, RunsTyped, Items
  <2> QED BY <1>1, <2>1 DEF CopiesFit
<1>4. ASSUME NEW v \in Copies, NEW state, item[v].state \in Unfinished, ItemBecomes(v, state)
      PROVE  CopiesFit'
  <2>1. \A u \in Copies : item'[u].from = item[u].from
                           /\ (item'[u] = item[u] \/ item[u].state # "absent")
    BY <1>4 DEF ItemBecomes, RunsTyped, Unfinished
  <2> QED BY <2>1 DEF CopiesFit
<1>5. CASE UNCHANGED item BY <1>1, <1>5 DEF CopiesFit
<1>6. (\E r \in Runs : Start(r) \/ Pause(r) \/ Cancel(r)) \/ CompleteRuns => UNCHANGED item
  BY DEF Start, Pause, Cancel, Control, CompleteRuns
<1> QED BY <1>2, <1>3, <1>4, <1>5, <1>6 DEF RunStep

LEMMA BytesFacts ==
  ASSUME NEW S \in SUBSET Uploads
  PROVE  /\ Bytes(S) \in Nat
         /\ \A u \in Uploads : SizeOf[u] \in Nat
         /\ \A u \in Uploads : u \notin S => Bytes(S \cup {u}) = Bytes(S) + SizeOf[u]
         /\ \A u \in S : Bytes(S) = Bytes(S \ {u}) + SizeOf[u]
         /\ \A T \in SUBSET S : Bytes(T) <= Bytes(S)
<1>1. \A T : Bytes(T) = Total(SizeOf, T) BY DEF Bytes, Total
<1> QED BY <1>1, RequestAssumption, TotalFacts

\* An attempt is shown by the record of its own key.
Shows(k) == record[k].state \in {"AVAILABLE", "DELETING"}

LEMMA ShownByKey ==
  ASSUME IndexInv
  PROVE  Shown = {u \in Uploads : Shows(KeyOf[u]) /\ record[KeyOf[u]].at = u}
BY CopyFacts DEF IndexInv, Pointers, Shown, Shows

\* How a step moves what is shown.
LEMMA ShownStep ==
  ASSUME MigrationInv, MigrationInv', CopiesFit, OthersTyped, RowStep
  PROVE  \/ Shown' \subseteq Shown /\ usedBytes' = usedBytes
         \/ \E u \in Uploads : /\ u \in Shown /\ Shown' = Shown \ {u}
                               /\ usedBytes' = usedBytes - SizeOf[u]
         \/ \E u \in Uploads : Shown' = Shown \cup {u} /\ usedBytes' = usedBytes + SizeOf[u]
         \/ \E u \in Uploads, v \in Shown :
              /\ Shown' = (Shown \ {v}) \cup {u}
              /\ usedBytes' = usedBytes + (SizeOf[u] - SizeOf[v])
<1> USE CopyFacts DEF MigrationInv, IndexInv, RowsTyped
<1>s. /\ Shown = {u \in Uploads : Shows(KeyOf[u]) /\ record[KeyOf[u]].at = u}
      /\ Shown' = {u \in Uploads : Shows(KeyOf[u])' /\ record'[KeyOf[u]].at = u}
  <2>1. (IndexInv => Shown = {u \in Uploads : Shows(KeyOf[u]) /\ record[KeyOf[u]].at = u})'
    BY ShownByKey, PTL
  <2> QED BY <2>1, ShownByKey
<1>z. \A u \in Uploads : SizeOf[u] \in Int /\ usedBytes \in Int BY RequestAssumption DEF OthersTyped
<1>1. ASSUME usedBytes' = usedBytes,
             \A k \in Keys : Shows(k)' => Shows(k) /\ record'[k].at = record[k].at
      PROVE  Shown' \subseteq Shown /\ usedBytes' = usedBytes
  BY <1>1, <1>s
<1>2. ASSUME NEW u \in Uploads, CloseTx(u, "EXPIRED") \/ ClaimTx(u) \/ RevertTx(u) \/ CloseRetainedTx(u)
      PROVE  Shown' \subseteq Shown /\ usedBytes' = usedBytes
  <2>1. usedBytes' = usedBytes
    BY <1>2, <1>z DEF CloseTx, ReleaseTx, ClaimTx, RevertTx, CloseRetainedTx, Account, counters
  <2>2. \A k \in Keys : Shows(k)' => Shows(k) /\ record'[k].at = record[k].at
    BY <1>2 DEF CloseTx, ReleaseTx, ClaimTx, RevertTx, CloseRetainedTx, Shows
  <2> QED BY <1>1, <2>1, <2>2
<1>3. ASSUME (\E k \in Keys : CloseUnlocatedTx(k)) \/ (\E old : PruneTx(old)) \/ UNCHANGED tables
      PROVE  Shown' \subseteq Shown /\ usedBytes' = usedBytes
  <2>1. usedBytes' = usedBytes BY <1>3 DEF CloseUnlocatedTx, PruneTx, tables, counters
  <2>2. \A k \in Keys : Shows(k)' => Shows(k) /\ record'[k].at = record[k].at
    BY <1>3 DEF CloseUnlocatedTx, PruneTx, tables, Shows
  <2> QED BY <1>1, <2>1, <2>2
<1>4. ASSUME NEW u \in Copies, LateTx(u)
      PROVE  Shown' \subseteq Shown /\ usedBytes' = usedBytes
  BY <1>1, <1>4 DEF LateTx, Unmoved, counters, Shows
<1>5. ASSUME NEW u \in Uploads, FinalizeTx(u)
      PROVE  u \in Shown /\ Shown' = Shown \ {u} /\ usedBytes' = usedBytes - SizeOf[u]
  <2>1. usedBytes' = usedBytes - SizeOf[u] BY <1>5, <1>z DEF FinalizeTx, Account
  <2>2. \A k \in Keys : Shows(k)' <=> Shows(k) /\ k # KeyOf[u]
    BY <1>5 DEF FinalizeTx, Shows
  <2>3. \A k \in Keys : k # KeyOf[u] => record'[k] = record[k] BY <1>5 DEF FinalizeTx
  <2>4. Shows(KeyOf[u]) /\ record[KeyOf[u]].at = u BY <1>5 DEF FinalizeTx, Shows
  <2> QED BY <1>s, <2>1, <2>2, <2>3, <2>4
<1>6. ASSUME NEW u \in Uploads, \A k \in Keys : k # KeyOf[u] => record'[k] = record[k],
             record'[KeyOf[u]] = [state |-> "AVAILABLE", at |-> u]
      PROVE  /\ ~Shows(KeyOf[u]) => Shown' = Shown \cup {u}
             /\ Shows(KeyOf[u]) => record[KeyOf[u]].at \in Shown
                                    /\ Shown' = (Shown \ {record[KeyOf[u]].at}) \cup {u}
  <2>1. \A v \in Uploads : KeyOf[v] # KeyOf[u] => (v \in Shown' <=> v \in Shown)
    BY <1>6, <1>s DEF Shows
  <2>2. \A v \in Uploads : KeyOf[v] = KeyOf[u] => (v \in Shown' <=> v = u)
    BY <1>6, <1>s DEF Shows
  <2>3. \A v \in Uploads : KeyOf[v] = KeyOf[u] =>
                           (v \in Shown <=> Shows(KeyOf[u]) /\ v = record[KeyOf[u]].at)
    BY <1>s
  <2>4. Shows(KeyOf[u]) => record[KeyOf[u]].at \in Uploads /\ KeyOf[record[KeyOf[u]].at] = KeyOf[u]
    BY DEF Pointers, Shows
  <2> QED BY <2>1, <2>2, <2>3, <2>4, <1>s
<1>7. ASSUME NEW u \in Uploads \ Copies, PublishTx(u)
      PROVE  \/ Shown' = Shown \cup {u} /\ usedBytes' = usedBytes + SizeOf[u]
             \/ \E v \in Shown : /\ Shown' = (Shown \ {v}) \cup {u}
                                 /\ usedBytes' = usedBytes + (SizeOf[u] - SizeOf[v])
  <2> DEFINE old == record[KeyOf[u]]
  <2>1. /\ record' = [record EXCEPT ![KeyOf[u]] = [state |-> "AVAILABLE", at |-> u]]
        /\ usedBytes' = usedBytes + UsageDelta(u, old)
        /\ old.state \in {"absent", "AVAILABLE", "DELETED"}
    BY <1>7 DEF PublishTx, MayPublish, Account
  <2>2. Shows(KeyOf[u]) <=> old.state = "AVAILABLE" BY <2>1 DEF Shows
  <2> QED BY <1>6, <2>1, <2>2 DEF UsageDelta
<1>8. ASSUME NEW u \in Copies, task[u] = "switching", MoveTx(u)
      PROVE  \E v \in Shown : /\ Shown' = (Shown \ {v}) \cup {u}
                             /\ usedBytes' = usedBytes + (SizeOf[u] - SizeOf[v])
  <2>1. /\ record[KeyOf[u]] = [state |-> "AVAILABLE", at |-> item[u].from]
        /\ record' = [record EXCEPT ![KeyOf[u]].at = u] /\ usedBytes' = usedBytes
        /\ item[u].state # "absent"
    BY <1>8 DEF MoveTx, Serves, Unmoved, counters, WorkOK, TasksOK, AtWork, Finished
  <2>2. SizeOf[u] = SizeOf[item[u].from] BY <2>1 DEF CopiesFit
  <2>3. item[u].from \in Shown /\ Shown' = (Shown \ {item[u].from}) \cup {u}
    BY <1>6, <2>1 DEF Shows
  <2> QED BY <1>z, <2>1, <2>2, <2>3
<1> QED BY <1>2, <1>3, <1>4, <1>5, <1>7, <1>8 DEF RowStep, RowChange

LEMMA ChargeKeeps ==
  ASSUME MigrationInv, MigrationInv', CopiesFit, OthersTyped, ShownIsCharged, RowStep, usedBytes' \in Nat
  PROVE  ShownIsCharged'
<1> SUFFICES usedBytes' >= Bytes(Shown') BY DEF ShownIsCharged
<1>0. /\ usedBytes \in Nat /\ Shown \in SUBSET Uploads /\ Bytes(Shown) \in Nat
      /\ usedBytes >= Bytes(Shown) /\ \A u \in Uploads : SizeOf[u] \in Nat
  BY ShownByKey, BytesFacts DEF MigrationInv, OthersTyped, ShownIsCharged
<1>1. ASSUME Shown' \subseteq Shown, usedBytes' = usedBytes PROVE usedBytes' >= Bytes(Shown')
  <2>1. Bytes(Shown') <= Bytes(Shown) /\ Bytes(Shown') \in Nat BY <1>0, <1>1, BytesFacts
  <2> QED BY <1>0, <1>1, <2>1
<1>2. ASSUME NEW u \in Shown, Shown' = Shown \ {u}, usedBytes' = usedBytes - SizeOf[u]
      PROVE  usedBytes' >= Bytes(Shown')
  <2>1. Bytes(Shown) = Bytes(Shown') + SizeOf[u] /\ Bytes(Shown') \in Nat BY <1>0, <1>2, BytesFacts
  <2> QED BY <1>0, <1>2, <2>1
<1>3. ASSUME NEW u \in Uploads, NEW S \in SUBSET Uploads
      PROVE  Bytes(S \cup {u}) \in Nat /\ Bytes(S \cup {u}) <= Bytes(S) + SizeOf[u]
  <2>1. u \in S => S \cup {u} = S OBVIOUS
  <2>2. Bytes(S) \in Nat /\ SizeOf[u] \in Nat BY BytesFacts
  <2>3. u \notin S => Bytes(S \cup {u}) = Bytes(S) + SizeOf[u] BY BytesFacts
  <2> QED BY <2>1, <2>2, <2>3
<1>4. ASSUME NEW u \in Uploads, Shown' = Shown \cup {u}, usedBytes' = usedBytes + SizeOf[u]
      PROVE  usedBytes' >= Bytes(Shown')
  <2>1. Bytes(Shown') <= Bytes(Shown) + SizeOf[u] /\ Bytes(Shown') \in Nat BY <1>0, <1>3, <1>4
  <2> QED BY <1>0, <1>4, <2>1
<1>5. ASSUME NEW u \in Uploads, NEW v \in Shown, Shown' = (Shown \ {v}) \cup {u},
             usedBytes' = usedBytes + (SizeOf[u] - SizeOf[v])
      PROVE  usedBytes' >= Bytes(Shown')
  <2>1. Bytes(Shown) = Bytes(Shown \ {v}) + SizeOf[v] /\ Bytes(Shown \ {v}) \in Nat
    BY <1>0, BytesFacts
  <2>2. Bytes(Shown') <= Bytes(Shown \ {v}) + SizeOf[u] /\ Bytes(Shown') \in Nat
    BY <1>0, <1>3, <1>5
  <2> QED BY <1>0, <1>5, <2>1, <2>2
<1> QED BY <1>1, <1>2, <1>4, <1>5, ShownStep

\* The counters stay natural numbers: the CHECK constraint aborts what would not.
LEMMA CountersKeep ==
  ASSUME IndexInv, OthersTyped, RowStep
  PROVE  /\ usedBytes' \in Nat /\ reservedBytes' \in Nat
         /\ objectCount' \in Nat /\ activeUploadCount' \in Nat
         /\ due' \subseteq Uploads /\ finalized' \subseteq Uploads
<1> USE CopyFacts DEF OthersTyped
<1>1. ASSUME NEW a \in Int, NEW b \in Int, NEW c \in Int, NEW d \in Int, Account(a, b, c, d)
      PROVE  /\ usedBytes' \in Nat /\ reservedBytes' \in Nat
             /\ objectCount' \in Nat /\ activeUploadCount' \in Nat
  BY <1>1 DEF Account
<1>2. \A u \in Uploads : SizeOf[u] \in Int /\ -SizeOf[u] \in Int BY RequestAssumption
<1>3. ASSUME NEW u \in Uploads \ Copies, PublishTx(u)
      PROVE  /\ usedBytes' \in Nat /\ reservedBytes' \in Nat
             /\ objectCount' \in Nat /\ activeUploadCount' \in Nat
             /\ UNCHANGED <<due, finalized>>
  <2> DEFINE old == record[KeyOf[u]]
  <2>1. old.state = "AVAILABLE" => old.at \in Uploads BY DEF IndexInv, Pointers
  <2>2. UsageDelta(u, old) \in Int BY <1>2, <2>1 DEF UsageDelta
  <2>3. (IF old.state = "AVAILABLE" THEN 0 ELSE 1) \in Int OBVIOUS
  <2>4. /\ Account(UsageDelta(u, old), -SizeOf[u], IF old.state = "AVAILABLE" THEN 0 ELSE 1, -1)
        /\ UNCHANGED <<due, finalized>>
    BY <1>3 DEF PublishTx
  <2> QED BY <1>1, <1>2, <2>2, <2>3, <2>4
<1>4. ASSUME NEW u \in Uploads, CloseTx(u, "EXPIRED") \/ FinalizeTx(u)
      PROVE  /\ usedBytes' \in Nat /\ reservedBytes' \in Nat
             /\ objectCount' \in Nat /\ activeUploadCount' \in Nat
             /\ UNCHANGED <<due, finalized>>
  BY <1>1, <1>2, <1>4 DEF CloseTx, ReleaseTx, FinalizeTx
<1>5. ASSUME NEW u \in Uploads, ClaimTx(u) \/ RevertTx(u) \/ CloseRetainedTx(u)
      PROVE  UNCHANGED <<due, finalized, counters>>
  BY <1>5 DEF ClaimTx, RevertTx, CloseRetainedTx
<1>6. (\E k \in Keys : CloseUnlocatedTx(k)) \/ (\E old : PruneTx(old)) \/ UNCHANGED tables
      => UNCHANGED <<due, finalized, counters>>
  BY DEF CloseUnlocatedTx, PruneTx, tables
<1>7. ASSUME NEW u \in Copies, MoveTx(u) \/ LateTx(u) PROVE UNCHANGED <<due, finalized, counters>>
  BY <1>7 DEF MoveTx, LateTx, Unmoved
<1> QED BY <1>3, <1>4, <1>5, <1>6, <1>7 DEF RowStep, RowChange, counters

\* Multipart uploads are only ever ended here.
LEMMA PartsShrink ==
  ASSUME [Next]_vars
  PROVE  parts' \subseteq parts /\ signed' = signed
<1> USE DEF provider
<1>1. CASE ControlNext
  BY <1>1 DEF ControlNext, CreateRead, CreateCommit, Start, Pause, Cancel, Control, rest
<1>2. CASE DeleteRequest
  BY <1>2 DEF DeleteRequest, DeleteNext, Delete, DeleteClaim, DeleteErase, DeleteRevert, DeleteFinalize,
     DeleteLost, Call, Transaction, Erased
<1>3. CASE UploadPass
  <2>1. CASE AbortExpired \/ EraseListed
    BY <2>1 DEF AbortExpired, EraseListed, Call, PartsAborted, Erased
  <2>2. CASE ~AbortExpired /\ ~EraseListed
    BY <1>3, <2>2 DEF UploadPass, WorkerStep, NextDeleting, ListExpired, MarkExpired, ListDeleting, FinalizeDeleted,
       ListRetained, CloseRetained, Prune, TakeExpired, TakeDeleting, TakeRetained, CloseUnlocated,
       Transaction, untouched
  <2> QED BY <2>1, <2>2
<1>4. ASSUME NEW u \in Copies, CopyStep(u) PROVE parts' \subseteq parts /\ signed' = signed
  <2>1. CASE PutCopy(u) \/ DropCopy(u)
    BY <2>1 DEF PutCopy, DropCopy, Call, Written, Erased
  <2>2. CASE MarkFailed(u) \/ SwitchRead(u) \/ SwitchCommit(u)
    BY <2>2 DEF MarkFailed, SwitchRead, SwitchCommit, RunTransaction, rest
  <2>3. CASE Claim(u) \/ GetSource(u) \/ Verify(u)
    BY <2>3 DEF Claim, GetSource, Verify, Asked, rest
  <2> QED BY <1>4, <2>1, <2>2, <2>3 DEF CopyStep
<1>5. ASSUME NEW u \in Copies, EraseCancelled(u) \/ SkipCancelled(u)
      PROVE  parts' \subseteq parts /\ signed' = signed
  BY <1>5 DEF EraseCancelled, SkipCancelled, Call, Erased, RunTransaction
<1>6. CASE BeginPass \/ Restart \/ StartWave \/ ListCancelled \/ CompleteRuns \/ PassBroken
  BY <1>6 DEF BeginPass, List, Restart, StartWave, ListCancelled, CompleteRuns, PassBroken,
     WorkerRestart, PassFails, untouched, rest
<1>7. ASSUME NEW u \in Uploads, Publish(u) PROVE UNCHANGED <<provider, signed>>
  BY <1>7 DEF Publish
<1>8. CASE UNCHANGED vars BY <1>8 DEF vars
<1> QED BY <1>1, <1>2, <1>3, <1>4, <1>5, <1>6, <1>7, <1>8 DEF Next, MigrationPass, PassStep

LEMMA PassKeeps ==
  ASSUME OthersTyped, [Next]_vars
  PROVE  pass' \in Passes /\ wave' \subseteq Copies
<1> USE DEF OthersTyped, Passes
<1>1. UNCHANGED <<pass, wave>> => pass' \in Passes /\ wave' \subseteq Copies OBVIOUS
<1>2. (\E S : PassEnds(S)) => pass' \in Passes /\ wave' \subseteq Copies BY DEF PassEnds
<1>3. ASSUME NEW u \in Copies, CopyStep(u) PROVE pass' \in Passes /\ wave' \subseteq Copies
  <2>1. CASE MarkFailed(u) BY <1>1, <1>2, <2>1 DEF MarkFailed, RunTransaction, TaskBecomes
  <2>2. CASE ~MarkFailed(u)
    BY <1>1, <1>3, <2>2 DEF CopyStep, Claim, GetSource, PutCopy, Verify, DropCopy, SwitchRead,
       SwitchCommit, Asked, Call, RunTransaction, TaskBecomes
  <2> QED BY <2>1, <2>2
<1>4. ASSUME NEW u \in Copies, EraseCancelled(u) \/ SkipCancelled(u) PROVE UNCHANGED <<pass, wave>>
  BY <1>4 DEF EraseCancelled, SkipCancelled, Call, RunTransaction, SweepBecomes
<1>5. CASE StartWave BY <1>5 DEF StartWave, Tasked
<1>6. CASE BeginPass \/ ListCancelled \/ CompleteRuns
  BY <1>6 DEF BeginPass, List, ListCancelled, CompleteRuns
<1>7. CASE ControlNext
  BY <1>1, <1>7 DEF ControlNext, CreateRead, CreateCommit, Start, Pause, Cancel, Control
<1>8. CASE DeleteRequest \/ UploadPass \/ (\E u \in Uploads : Publish(u)) \/ UNCHANGED vars
  BY <1>1, <1>8 DEF DeleteRequest, UploadPass, Publish, migration, vars
<1>9. CASE Restart BY <1>2, <1>9 DEF Restart
<1>10. CASE PassBroken BY <1>1, <1>2, <1>10 DEF PassBroken, PassFails, migration
<1> QED BY <1>1, <1>3, <1>4, <1>5, <1>6, <1>7, <1>8, <1>9, <1>10 DEF Next, MigrationPass, PassStep

ChargeInv == OthersTyped /\ CopiesFit /\ ShownIsCharged

LEMMA ChargeStarts == Init => ChargeInv
<1> SUFFICES ASSUME Init PROVE ChargeInv OBVIOUS
<1>1. PICK s \in Starts : StartAt(s) BY DEF Init
<1>2. s.published \subseteq Uploads /\ s.pending \subseteq Uploads BY StartAssumption
<1>3. OthersTyped
  <2>1. /\ IsFiniteSet(s.published) /\ Cardinality(s.published) \in Nat
        /\ IsFiniteSet(s.pending) /\ Cardinality(s.pending) \in Nat
    BY <1>2, RequestAssumption, FS_Subset, FS_CardinalityType
  <2>2. Bytes(s.published) \in Nat /\ Bytes(s.pending) \in Nat BY <1>2, BytesFacts
  <2> QED BY <1>1, <2>1, <2>2 DEF StartAt, MigrationInit, OthersTyped, Passes
<1>4. CopiesFit BY <1>1 DEF StartAt, MigrationInit, CopiesFit
<1>5. ShownIsCharged
  <2>1. Shown \subseteq s.published BY <1>1 DEF StartAt, Shown
  <2>2. usedBytes = Bytes(s.published) BY <1>1 DEF StartAt
  <2>3. Bytes(Shown) <= Bytes(s.published) /\ Bytes(s.published) \in Nat /\ Bytes(Shown) \in Nat
    BY <1>2, <2>1, BytesFacts
  <2> QED BY <2>2, <2>3 DEF ShownIsCharged
<1> QED BY <1>3, <1>4, <1>5 DEF ChargeInv

LEMMA ChargeHolds == Spec => [](MigrationInv /\ ChargeInv)
<1>1. MigrationInv /\ ChargeInv /\ [Next]_vars => MigrationInv' /\ ChargeInv'
  <2> SUFFICES ASSUME MigrationInv, ChargeInv, [Next]_vars PROVE MigrationInv' /\ ChargeInv' OBVIOUS
  <2> USE DEF ChargeInv
  <2>1. MigrationInv' /\ RowStep BY MigrationKeeps
  <2>2. RunStep BY TasksKeep DEF MigrationInv
  <2>3. CopiesFit' BY <2>2, FitKeeps DEF MigrationInv, RunsInv
  <2>4. OthersTyped'
    BY <2>1, CountersKeep, PartsShrink, PassKeeps DEF MigrationInv, OthersTyped
  <2>5. ShownIsCharged' BY <2>1, <2>4, ChargeKeeps DEF OthersTyped
  <2> QED BY <2>1, <2>3, <2>4, <2>5
<1> QED BY <1>1, MigrationStarts, ChargeStarts, PTL DEF Spec

\* What the index shows is always charged: a switch replaces an object by one of
\* its size, and a delete that races a switch or an overwrite gives its bytes back
\* once.
THEOREM ShownCharged == Spec => []ShownIsCharged
<1>1. ChargeInv => ShownIsCharged BY DEF ChargeInv
<1> QED BY <1>1, ChargeHolds, PTL

\* Every variable has its type: no run counts below zero, no counter goes negative.
THEOREM MigrationTyped == Spec => []TypeOK
<1>1. MigrationInv /\ ChargeInv => TypeOK
  BY DEF MigrationInv, ChargeInv, IndexInv, RowsTyped, OthersTyped, ActorsOnPublished, RunsInv, RunsTyped,
     WorkOK, TasksOK, SweepOK, Verified, BlobsTyped, TypeOK, TablesOK, RowsOK, ProviderOK, MigrationOK
<1> QED BY <1>1, ChargeHolds, PTL
=============================================================================

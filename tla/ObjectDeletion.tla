--------------------------- MODULE ObjectDeletion ---------------------------
(***************************************************************************)
(* Object delete, the same handler in the storage gateway and in the File  *)
(* Explorer: claim the record, delete at the provider, then finalise the   *)
(* record or give it back.                                                 *)
(***************************************************************************)
EXTENDS StorageTables

CONSTANT Deleters    \* delete requests in flight at the same time

DeleteSteps == {"idle", "claim", "erase", "revert", "finalize"}

DeletesOK == del \in [Deleters -> [at : DeleteSteps, on : Uploads \cup {NoUpload}]]

NoDelete == [at |-> "idle", on |-> NoUpload]

DeletesInit == del = [d \in Deleters |-> NoDelete]

DeleteAt(d, step) == del[d].at = step
DeleteBecomes(d, step, u) ==
  del' = [del EXCEPT ![d] = [at |-> step, on |-> u]] /\ UNCHANGED <<req, worker>>
DeleteGoto(d, step) == DeleteBecomes(d, step, del[d].on)
DeleteAnswer(d) == DeleteBecomes(d, "idle", NoUpload)

\* The read: an AVAILABLE record with an ACTIVE location.
Delete(d, k) ==
  /\ DeleteAt(d, "idle")
  /\ record[k].state = "AVAILABLE" /\ location[record[k].at] = "ACTIVE"
  /\ DeleteBecomes(d, "claim", record[k].at)
  /\ UNCHANGED <<tables, provider, signed>>

DeleteClaim(d) ==
  /\ DeleteAt(d, "claim")
  /\ Transaction(ClaimTx(del[d].on), DeleteGoto(d, "erase"), DeleteAnswer(d))

\* A provider failure must lead to the revert (the first form ignores it).
DeleteEraseIgnoringFailure(d) ==
  /\ DeleteAt(d, "erase")
  /\ Call(Erased(del[d].on), DeleteGoto(d, "finalize"), DeleteGoto(d, "finalize"))
DeleteErase(d) ==
  /\ DeleteAt(d, "erase")
  /\ Call(Erased(del[d].on), DeleteGoto(d, "finalize"), DeleteGoto(d, "revert"))

DeleteRevert(d) ==
  /\ DeleteAt(d, "revert")
  /\ Transaction(RevertTx(del[d].on), DeleteAnswer(d), DeleteAnswer(d))

DeleteFinalize(d) ==
  /\ DeleteAt(d, "finalize")
  /\ Transaction(FinalizeTx(del[d].on), DeleteAnswer(d), DeleteAnswer(d))

DeleteLost(d) ==
  /\ ~DeleteAt(d, "idle") /\ DeleteAnswer(d)
  /\ UNCHANGED <<tables, provider, signed>>

DeleteNext ==
  \E d \in Deleters :
    \/ \E k \in Keys : Delete(d, k)
    \/ DeleteClaim(d) \/ DeleteErase(d) \/ DeleteRevert(d) \/ DeleteFinalize(d)
    \/ DeleteLost(d)
=============================================================================

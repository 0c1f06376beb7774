--------------------------- MODULE ExplorerProofs ---------------------------
(***************************************************************************)
(* What the Object Explorer shows is stored, what it reserves and uses is  *)
(* counted, and the gateway's uploads stay within their target's capacity, *)
(* for any number of uploads, keys and targets.                            *)
(***************************************************************************)
EXTENDS ExplorerUploads, SumTheorems

ExplorerTyped ==
  /\ record \in [Keys -> [state : {"absent", "AVAILABLE", "DELETING", "DELETED"},
                          by : Uploads \cup {NoTarget}]]
  /\ upload \in [Uploads -> [at : UploadSteps, target : Targets \cup {NoTarget}]]
  /\ deletion \in [Keys -> {"idle", "claimed", "erased"}]
  /\ stored \subseteq Uploads /\ misreported \subseteq Explorer /\ unheard \subseteq Uploads

\* A record is of an upload of its key.
OfItsKey ==
  \A k \in Keys : record[k].state # "absent" => record[k].by \in Uploads /\ KeyOf[record[k].by] = k

\* Only an upload that has ended has a record, unless it was told otherwise.
Unpublished ==
  \A u \in Uploads : upload[u].at # "ended" /\ u \notin misreported => record[KeyOf[u]].by # u

\* The steps between reservation and cleanup are the explorer's, what it is about
\* to publish is stored, and what was misreported is being cleaned up.
Told == {"unpublished", "released", "ended"}
PutIsStored ==
  \A u \in Uploads :
    /\ u \in misreported => upload[u].at \in Told
    /\ upload[u].at \in {"reserved", "put", "failed", "unpublished", "released"} => u \in Explorer
    /\ upload[u].at = "put" => u \in stored

\* A delete holds a DELETING record until it answers.
DeletionHolds == \A k \in Keys : deletion[k] # "idle" => record[k].state = "DELETING"

\* What is shown, or may be shown again, is stored, unless an answer was lost.
Restorable(k) == record[k].state = "AVAILABLE" \/ deletion[k] = "claimed"
RestorableIsStored ==
  \A k \in Keys : Restorable(k) => record[k].by \in stored \cup misreported \cup unheard

ExplorerInv ==
  /\ ExplorerTyped /\ OfItsKey /\ Unpublished /\ PutIsStored /\ DeletionHolds /\ RestorableIsStored

LEMMA ExplorerFacts ==
  /\ NoTarget \notin Uploads
  /\ Gateway \cap Explorer = {} /\ Gateway \subseteq Uploads /\ Explorer \subseteq Uploads
  /\ \A u \in Uploads : KeyOf[u] \in Keys
  /\ \A u \in Gateway, v \in Uploads : KeyOf[u] = KeyOf[v] => u = v
BY ExplorerAssumption DEF Uploads, Keys

LEMMA ExplorerStart == ASSUME ExplorerInit PROVE ExplorerInv
BY ExplorerFacts DEF ExplorerInit, ExplorerInv, ExplorerTyped, OfItsKey, Unpublished, PutIsStored,
   DeletionHolds, RestorableIsStored, Restorable, NoObject, UploadSteps

\* An upload goes on without touching records and deletes.
LEMMA UploadGoesOn ==
  ASSUME ExplorerInv, NEW u \in Uploads, upload[u].at # "ended",
         NEW row \in [at : UploadSteps, target : Targets \cup {NoTarget}],
         upload' = [upload EXCEPT ![u] = row],
         row.at \in {"reserved", "put", "failed", "unpublished", "released"} => u \in Explorer,
         row.at = "put" => u \in stored',
         u \in misreported => row.at \in Told,
         UNCHANGED <<record, deletion, misreported, unheard>>,
         stored' \in {stored, stored \cup {u}} \/ (stored' = stored \ {u} /\ row.at # "put")
  PROVE  ExplorerInv'
<1> USE ExplorerFacts
<1>1. ExplorerTyped' BY DEF ExplorerInv, ExplorerTyped
<1>2. /\ upload'[u] = row /\ \A v \in Uploads : v # u => upload'[v] = upload[v]
      /\ \A v \in Uploads : v # u => (v \in stored' <=> v \in stored)
  BY DEF ExplorerInv, ExplorerTyped
<1>3. OfItsKey' /\ DeletionHolds' BY DEF ExplorerInv, OfItsKey, DeletionHolds
<1>4. Unpublished' BY <1>2 DEF ExplorerInv, Unpublished
<1>5. PutIsStored' BY <1>2 DEF ExplorerInv, PutIsStored
<1>6. ASSUME NEW k \in Keys, Restorable(k) PROVE record[k].by \in stored' \cup misreported \cup unheard
  <2>1. record[k].state # "absent" BY <1>6 DEF Restorable, ExplorerInv, DeletionHolds
  <2>2. record[k].by \in Uploads /\ KeyOf[record[k].by] = k BY <2>1 DEF ExplorerInv, OfItsKey
  <2>3. record[k].by \in stored \cup misreported \cup unheard BY <1>6 DEF ExplorerInv, RestorableIsStored
  <2>4. record[k].by = u => u \in misreported BY <2>2 DEF ExplorerInv, Unpublished
  <2> QED BY <1>2, <2>2, <2>3, <2>4
<1>7. RestorableIsStored' BY <1>6 DEF RestorableIsStored, Restorable
<1> QED BY <1>1, <1>3, <1>4, <1>5, <1>7 DEF ExplorerInv

\* An upload whose key has no record publishes it.
LEMMA UploadPublishes ==
  ASSUME ExplorerInv, NEW u \in Uploads, record[KeyOf[u]].state = "absent",
         NEW step \in {"ended", "unpublished"}, UploadGoes(u, step), Publish(u),
         u \in stored', stored' \in {stored, stored \cup {u}}, UNCHANGED <<deletion, unheard>>,
         misreported' \in {misreported, misreported \cup ({u} \cap Explorer)},
         step = "unpublished" => u \in misreported'
  PROVE  ExplorerInv'
<1> USE ExplorerFacts
<1>1. /\ upload' = [upload EXCEPT ![u].at = step]
      /\ record' = [record EXCEPT ![KeyOf[u]] = [state |-> "AVAILABLE", by |-> u]]
  BY DEF UploadGoes, Publish
<1>2. ExplorerTyped'
  <2>1. /\ record' \in [Keys -> [state : {"absent", "AVAILABLE", "DELETING", "DELETED"},
                               by : Uploads \cup {NoTarget}]]
    BY <1>1 DEF ExplorerInv, ExplorerTyped
  <2>2. upload' \in [Uploads -> [at : UploadSteps, target : Targets \cup {NoTarget}]]
    BY <1>1 DEF ExplorerInv, ExplorerTyped, UploadSteps
  <2> QED BY <2>1, <2>2 DEF ExplorerInv, ExplorerTyped
<1>3. /\ record'[KeyOf[u]] = [state |-> "AVAILABLE", by |-> u]
      /\ \A k \in Keys : k # KeyOf[u] => record'[k] = record[k]
      /\ upload'[u].at = step /\ \A v \in Uploads : v # u => upload'[v] = upload[v]
  BY <1>1 DEF ExplorerInv, ExplorerTyped
<1>4. OfItsKey' BY <1>3 DEF ExplorerInv, OfItsKey
<1>5. Unpublished' BY <1>3 DEF ExplorerInv, Unpublished
<1>6. PutIsStored'
  <2>1. step = "unpublished" => u \in Explorer BY <1>2 DEF ExplorerTyped
  <2> QED BY <1>3, <2>1 DEF ExplorerInv, PutIsStored, Told
<1>7. deletion[KeyOf[u]] = "idle" BY DEF ExplorerInv, DeletionHolds
<1>8. DeletionHolds' BY <1>3, <1>7 DEF ExplorerInv, DeletionHolds
<1>9. RestorableIsStored' BY <1>3, <1>7 DEF ExplorerInv, RestorableIsStored, Restorable
<1> QED BY <1>2, <1>4, <1>5, <1>6, <1>8, <1>9 DEF ExplorerInv

LEMMA UploadStepKeeps ==
  ASSUME ExplorerInv, NEW u \in Uploads,
         \/ Initiate(u) \/ OpenSession(u) \/ CloseSession(u)
         \/ CreateFolder(u) \/ BeginUpload(u) \/ Reserve(u) \/ PutAndHead(u)
         \/ PublishUpload(u) \/ ReleaseReservation(u) \/ EraseUpload(u) \/ Abandon(u)
  PROVE  ExplorerInv'
<1> USE ExplorerFacts
<1>0. upload[u] \in [at : UploadSteps, target : Targets \cup {NoTarget}]
  BY DEF ExplorerInv, ExplorerTyped
<1>1. ASSUME NEW t \in Targets, upload[u].at = "new", upload' = [upload EXCEPT ![u] = [at |-> "selected", target |-> t]],
             UNCHANGED <<record, stored, deletion, Ghosts>>
      PROVE  ExplorerInv'
  <2>1. u \notin misreported BY <1>1 DEF ExplorerInv, PutIsStored, Told
  <2> QED BY <1>1, <2>1, UploadGoesOn DEF UploadSteps, Ghosts
<1>2. ASSUME NEW step \in UploadSteps, upload[u].at # "ended", UploadGoes(u, step),
             step \in {"reserved", "put", "failed", "unpublished", "released"} => u \in Explorer,
             step = "put" => u \in stored',
             upload[u].at \in Told => step \in Told,
             UNCHANGED <<record, deletion, misreported, unheard>>,
             stored' \in {stored, stored \cup {u}} \/ (stored' = stored \ {u} /\ step # "put")
      PROVE  ExplorerInv'
  <2> DEFINE row == [upload[u] EXCEPT !.at = step]
  <2>1. row \in [at : UploadSteps, target : Targets \cup {NoTarget}] /\ row.at = step BY <1>0
  <2>2. upload' = [upload EXCEPT ![u] = row]
    BY <1>2 DEF UploadGoes, ExplorerInv, ExplorerTyped
  <2>3. u \in misreported => row.at \in Told
    BY <1>2, <2>1 DEF ExplorerInv, PutIsStored
  <2> HIDE DEF row
  <2> QED BY <1>2, <2>1, <2>2, <2>3, UploadGoesOn
<1>3. CASE Initiate(u) \/ BeginUpload(u)
  <2>1. CASE SelectTarget(u)
    BY <1>1, <1>3, <2>1 DEF Initiate, BeginUpload, SelectTarget, UploadAt
  <2>2. CASE BeginUpload(u) /\ UploadGoes(u, "ended")
    BY <1>2, <2>2 DEF BeginUpload, UploadAt, UploadSteps, Told, Ghosts
  <2> QED BY <1>3, <2>1, <2>2 DEF Initiate, BeginUpload
<1>4. CASE OpenSession(u) BY <1>2, <1>4 DEF OpenSession, UploadAt, UploadSteps, Told, Ghosts
<1>5. CASE CloseSession(u)
  <2>1. u \in Gateway /\ upload[u].at = "open" /\ UploadGoes(u, "ended") /\ UNCHANGED <<deletion, misreported, unheard>>
    BY <1>5 DEF CloseSession, UploadAt, Ghosts
  <2>2. record[KeyOf[u]].state = "absent"
    <3>1. u \notin misreported BY <2>1 DEF ExplorerInv, ExplorerTyped
    <3>2. record[KeyOf[u]].by # u BY <2>1, <3>1 DEF ExplorerInv, Unpublished
    <3> QED BY <2>1, <3>2 DEF ExplorerInv, OfItsKey
  <2>3. CASE Publish(u) /\ stored' = stored \cup {u} BY <2>1, <2>2, <2>3, UploadPublishes
  <2>4. CASE UNCHANGED <<record, stored>> BY <1>2, <2>1, <2>4 DEF UploadSteps, Told
  <2> QED BY <1>5, <2>3, <2>4 DEF CloseSession
<1>6. CASE CreateFolder(u) BY <1>2, <1>6 DEF CreateFolder, UploadAt, UploadSteps, Told, Ghosts
<1>7. CASE Reserve(u) BY <1>2, <1>7 DEF Reserve, UploadAt, UploadSteps, Told, Ghosts
<1>8. CASE PutAndHead(u)
  <2>1. u \in Explorer BY <1>8 DEF PutAndHead, UploadAt, ExplorerInv, PutIsStored
  <2> QED BY <1>2, <1>8, <2>1 DEF PutAndHead, UploadAt, UploadSteps, Told, Ghosts
<1>9. CASE PublishUpload(u)
  <2>1. u \in Explorer /\ u \in stored /\ upload[u].at = "put" /\ UNCHANGED <<stored, deletion, unheard>>
    BY <1>9 DEF PublishUpload, UploadAt, ExplorerInv, PutIsStored
  <2>2. CASE record[KeyOf[u]].state = "absent" /\ Publish(u)
             /\ \/ UploadGoes(u, "ended") /\ UNCHANGED misreported
                \/ UploadGoes(u, "unpublished") /\ misreported' = misreported \cup {u}
    <3>1. {u} \cap Explorer = {u} BY <2>1
    <3> QED BY <2>1, <2>2, <3>1, UploadPublishes
  <2>3. CASE UploadGoes(u, "unpublished") /\ UNCHANGED <<record, counter, misreported>>
    BY <1>2, <2>1, <2>3 DEF UploadSteps, Told
  <2> QED BY <1>9, <2>2, <2>3 DEF PublishUpload, NameIsTaken
<1>10. CASE ReleaseReservation(u)
  <2>1. u \in Explorer /\ upload[u].at # "ended" BY <1>10 DEF ReleaseReservation, ExplorerInv, PutIsStored
  <2> QED BY <1>2, <1>10, <2>1 DEF Told, ReleaseReservation, UploadSteps, Ghosts
<1>11. CASE EraseUpload(u) BY <1>2, <1>11 DEF EraseUpload, UploadAt, UploadSteps, Told, Ghosts
<1>12. CASE Abandon(u) BY <1>2, <1>12 DEF Told, Abandon, UploadSteps, Ghosts
<1> QED BY <1>3, <1>4, <1>5, <1>6, <1>7, <1>8, <1>9, <1>10, <1>11, <1>12

LEMMA DeleteStepKeeps ==
  ASSUME ExplorerInv, NEW k \in Keys, ClaimDelete(k) \/ EraseDeleted(k) \/ FinalizeDelete(k)
  PROVE  ExplorerInv'
<1> USE ExplorerFacts
<1>1. UNCHANGED <<upload, misreported>> BY DEF ClaimDelete, EraseDeleted, FinalizeDelete, Ghosts
<1>2. PICK state \in {"AVAILABLE", "DELETING", "DELETED"} : record' = [record EXCEPT ![k].state = state] \/ record' = record
  BY DEF ClaimDelete, EraseDeleted, FinalizeDelete
<1>3. record[k].state \in {"AVAILABLE", "DELETING"}
  BY DEF ClaimDelete, EraseDeleted, FinalizeDelete, ExplorerInv, DeletionHolds
<1>4. /\ \A j \in Keys : record'[j].by = record[j].by /\ (j # k => record'[j] = record[j])
      /\ record' \in [Keys -> [state : {"absent", "AVAILABLE", "DELETING", "DELETED"},
                               by : Uploads \cup {NoTarget}]]
  <2>1. CASE record' = record BY <2>1 DEF ExplorerInv, ExplorerTyped
  <2>2. CASE record' = [record EXCEPT ![k].state = state]
    <3>1. record[k] \in [state : {"absent", "AVAILABLE", "DELETING", "DELETED"}, by : Uploads \cup {NoTarget}]
      BY DEF ExplorerInv, ExplorerTyped
    <3>2. [record[k] EXCEPT !.state = state]
            \in [state : {"absent", "AVAILABLE", "DELETING", "DELETED"}, by : Uploads \cup {NoTarget}]
      BY <3>1
    <3>3. record' = [record EXCEPT ![k] = [record[k] EXCEPT !.state = state]] BY <2>2
    <3> QED BY <3>2, <3>3 DEF ExplorerInv, ExplorerTyped
  <2> QED BY <1>2, <2>1, <2>2
<1>5. OfItsKey'
  <2>1. ASSUME NEW j \in Keys, record'[j].state # "absent"
        PROVE  record[j].by \in Uploads /\ KeyOf[record[j].by] = j
    BY <1>3, <1>4, <2>1 DEF ExplorerInv, OfItsKey
  <2>2. \A j \in Keys : record'[j].by = record[j].by BY <1>4
  <2> QED BY <2>1, <2>2 DEF OfItsKey
<1>6. Unpublished' BY <1>1, <1>4 DEF ExplorerInv, Unpublished
<1>7. CASE ClaimDelete(k)
  <2>1. /\ record'[k].state = "DELETING" /\ deletion' = [deletion EXCEPT ![k] = "claimed"]
        /\ UNCHANGED <<stored, unheard>> /\ record[k].state = "AVAILABLE"
    BY <1>7 DEF ClaimDelete, Ghosts, ExplorerInv, ExplorerTyped
  <2>2. ExplorerTyped' BY <1>1, <1>4, <2>1 DEF ExplorerInv, ExplorerTyped
  <2>3. DeletionHolds' BY <1>4, <2>1 DEF ExplorerInv, DeletionHolds, ExplorerTyped
  <2>4. RestorableIsStored' BY <1>1, <1>4, <2>1 DEF ExplorerInv, RestorableIsStored, Restorable, ExplorerTyped
  <2>5. PutIsStored' BY <1>1, <2>1 DEF ExplorerInv, PutIsStored
  <2> QED BY <1>5, <1>6, <2>2, <2>3, <2>4, <2>5 DEF ExplorerInv
<1>8. CASE EraseDeleted(k)
  <2>1. CASE stored' = stored \ {record[k].by} /\ deletion' = [deletion EXCEPT ![k] = "erased"]
             /\ UNCHANGED <<record, reverted, unheard>>
    <3>1. record[k].state = "DELETING" /\ deletion[k] = "claimed"
      BY <1>8 DEF EraseDeleted, ExplorerInv, DeletionHolds
    <3>2. record[k].by \in Uploads /\ KeyOf[record[k].by] = k BY <3>1 DEF ExplorerInv, OfItsKey
    <3>3. ExplorerTyped' BY <1>1, <1>4, <2>1 DEF ExplorerInv, ExplorerTyped
    <3>4. DeletionHolds' BY <2>1, <3>1 DEF ExplorerInv, DeletionHolds, ExplorerTyped
    <3>5. ASSUME NEW j \in Keys, Restorable(j)' PROVE record[j].by \in stored' \cup misreported \cup unheard
      <4>1. j # k BY <2>1, <3>1, <3>5 DEF Restorable, ExplorerInv, ExplorerTyped
      <4>2. Restorable(j) BY <2>1, <3>5, <4>1 DEF Restorable, ExplorerInv, ExplorerTyped
      <4>3. record[j].by \in stored \cup misreported \cup unheard BY <4>2 DEF ExplorerInv, RestorableIsStored
      <4>4. record[j].state # "absent" BY <4>2 DEF Restorable, ExplorerInv, DeletionHolds
      <4>5. KeyOf[record[j].by] = j BY <4>4 DEF ExplorerInv, OfItsKey
      <4> QED BY <2>1, <3>2, <4>1, <4>3, <4>5
    <3>6. RestorableIsStored' BY <1>1, <2>1, <3>5 DEF RestorableIsStored
    <3>7. PutIsStored'
      <4>1. ASSUME NEW u \in Uploads, upload[u].at = "put" PROVE u \in stored'
        <5>1. u \in stored /\ u \notin misreported BY <4>1 DEF ExplorerInv, PutIsStored, Told
        <5>2. record[KeyOf[u]].by # u BY <4>1, <5>1 DEF ExplorerInv, Unpublished
        <5> QED BY <2>1, <3>2, <5>1, <5>2
      <4> QED BY <1>1, <4>1 DEF ExplorerInv, PutIsStored
    <3> QED BY <1>5, <1>6, <3>3, <3>4, <3>6, <3>7 DEF ExplorerInv
  <2>2. CASE /\ record' = [record EXCEPT ![k].state = "AVAILABLE"]
             /\ deletion' = [deletion EXCEPT ![k] = "idle"]
             /\ \/ UNCHANGED <<stored, unheard>>
                \/ stored' = stored \ {record[k].by} /\ unheard' = unheard \cup {record[k].by}
    <3>1. deletion[k] = "claimed" /\ record[k].state = "DELETING"
      BY <1>8 DEF EraseDeleted, ExplorerInv, DeletionHolds
    <3>2. record[k].by \in Uploads /\ KeyOf[record[k].by] = k BY <3>1 DEF ExplorerInv, OfItsKey
    <3>3. ExplorerTyped' BY <1>1, <1>4, <2>2, <3>2 DEF ExplorerInv, ExplorerTyped
    <3>4. DeletionHolds' BY <1>4, <2>2 DEF ExplorerInv, DeletionHolds, ExplorerTyped
    <3>5. \A u \in stored \cup misreported \cup unheard : u \in stored' \cup misreported' \cup unheard'
      BY <1>1, <2>2
    <3>6. \A j \in Keys : Restorable(j)' => Restorable(j)
      BY <1>4, <2>2, <3>1 DEF Restorable, ExplorerInv, ExplorerTyped
    <3>7. RestorableIsStored' BY <1>4, <3>5, <3>6 DEF ExplorerInv, RestorableIsStored
    <3>8. ASSUME NEW u \in Uploads, upload[u].at = "put" PROVE u \in stored'
      <4>1. u \in stored /\ u \notin misreported BY <3>8 DEF ExplorerInv, PutIsStored, Told
      <4>2. record[KeyOf[u]].by # u BY <3>8, <4>1 DEF ExplorerInv, Unpublished
      <4> QED BY <2>2, <3>2, <4>1, <4>2
    <3>9. PutIsStored' BY <1>1, <3>8 DEF ExplorerInv, PutIsStored
    <3> QED BY <1>5, <1>6, <3>3, <3>4, <3>7, <3>9 DEF ExplorerInv
  <2> QED BY <1>8, <2>1, <2>2 DEF EraseDeleted
<1>9. CASE FinalizeDelete(k)
  <2>1. /\ record'[k].state = "DELETED" /\ deletion' = [deletion EXCEPT ![k] = "idle"]
        /\ UNCHANGED <<stored, unheard>>
    BY <1>9 DEF FinalizeDelete, Ghosts, ExplorerInv, ExplorerTyped
  <2>2. ExplorerTyped' BY <1>1, <1>4, <2>1 DEF ExplorerInv, ExplorerTyped
  <2>3. DeletionHolds' BY <1>4, <2>1 DEF ExplorerInv, DeletionHolds, ExplorerTyped
  <2>4. RestorableIsStored' BY <1>1, <1>4, <2>1 DEF ExplorerInv, RestorableIsStored, Restorable, ExplorerTyped
  <2>5. PutIsStored' BY <1>1, <2>1 DEF ExplorerInv, PutIsStored
  <2> QED BY <1>5, <1>6, <2>2, <2>3, <2>4, <2>5 DEF ExplorerInv
<1> QED BY <1>7, <1>8, <1>9

LEMMA ExplorerKeeps == ASSUME ExplorerInv, [ExplorerNext]_explorer PROVE ExplorerInv'
<1>1. CASE UNCHANGED explorer
  BY <1>1 DEF explorer, ExplorerInv, ExplorerTyped, OfItsKey, Unpublished, PutIsStored,
     DeletionHolds, RestorableIsStored, Restorable
<1> QED BY <1>1, UploadStepKeeps, DeleteStepKeeps DEF ExplorerNext

\* An object the explorer shows is at the provider, however failed uploads clean up
\* and deletes are given back; except one whose publication, or whose erasure, took
\* effect and was reported as failed.
THEOREM ShownStaysStored == ExplorerSpec => []ShownIsStored
<1>1. ExplorerInv => ShownIsStored
  BY DEF ExplorerInv, RestorableIsStored, Restorable, ShownIsStored
<1> QED BY <1>1, ExplorerKeeps, ExplorerStart, PTL DEF ExplorerSpec

-----------------------------------------------------------------------------
(* The namespace's counter *)

\* The counter has its type, and a target is chosen once.
CountsTyped ==
  /\ counter \in [used : Nat, reserved : Nat] /\ reverted \subseteq Uploads
  /\ \A u \in Uploads : upload[u].at = "new" => upload[u].target = NoTarget

LEMMA BytesFacts ==
  ASSUME NEW S \in SUBSET Uploads
  PROVE  /\ Bytes(S) \in Nat
         /\ \A u \in Uploads : SizeOf[u] \in Nat
         /\ \A u \in Uploads : u \notin S => Bytes(S \cup {u}) = Bytes(S) + SizeOf[u]
         /\ \A u \in S : Bytes(S) = Bytes(S \ {u}) + SizeOf[u]
         /\ \A T \in SUBSET S : Bytes(T) <= Bytes(S)
<1>1. \A T : Bytes(T) = Total(SizeOf, T) BY DEF Bytes, Total
<1> QED BY <1>1, ExplorerAssumption, TotalFacts

LEMMA BytesOfNone == Bytes({}) = 0
<1>1. Bytes({}) = Total(SizeOf, {}) BY DEF Bytes, Total
<1> QED BY <1>1, TotalEmpty

\* How a step moves the counter together with what is kept and what is in flight.
Idle == Kept' = Kept /\ InFlight' \subseteq InFlight /\ counter' = counter
Reserves(u) ==
  /\ u \notin InFlight /\ InFlight' = InFlight \cup {u} /\ Kept' = Kept
  /\ WithinNamespaceQuota(u) /\ counter' = [counter EXCEPT !.reserved = @ + SizeOf[u]]
Releases(u) ==
  /\ u \in InFlight /\ InFlight' = InFlight \ {u} /\ Kept' = Kept
  /\ Covered(u) /\ counter' = [counter EXCEPT !.reserved = @ - SizeOf[u]]
Publishes(u) ==
  /\ u \in InFlight /\ (InFlight' = InFlight \ {u} \/ misreported' # {})
  /\ u \notin Kept /\ Kept' = Kept \cup {u} /\ Covered(u)
  /\ counter' = [used |-> counter.used + SizeOf[u], reserved |-> counter.reserved - SizeOf[u]]
Deletes(u) ==
  /\ u \in Kept /\ Kept' = Kept \ {u} /\ InFlight' = InFlight
  /\ counter' = [counter EXCEPT !.used = @ - SizeOf[u]]
UsageStep ==
  /\ misreported \subseteq misreported'
  /\ Idle \/ \E u \in Uploads : Reserves(u) \/ Releases(u) \/ Publishes(u) \/ Deletes(u)

Flying == {"reserved", "put", "failed", "unpublished", "open"}

LEMMA InFlightMoves ==
  ASSUME ExplorerInv, NEW u \in Uploads, NEW step, UploadGoes(u, step)
  PROVE  InFlight' = IF step \in Flying THEN InFlight \cup {u} ELSE InFlight \ {u}
BY DEF InFlight, Flying, UploadGoes, ExplorerInv, ExplorerTyped

LEMMA PublishMoves ==
  ASSUME ExplorerInv, NEW u \in Uploads, record[KeyOf[u]].state = "absent", Publish(u)
  PROVE  u \notin Kept /\ Kept' = Kept \cup {u}
<1> USE ExplorerFacts
<1>1. record' = [record EXCEPT ![KeyOf[u]] = [state |-> "AVAILABLE", by |-> u]] BY DEF Publish
<1>2. \A v \in Uploads : v \in Kept' <=> v = u \/ v \in Kept
  BY <1>1 DEF Kept, ExplorerInv, ExplorerTyped
<1> QED BY <1>2 DEF Kept

LEMMA UploadUsage ==
  ASSUME ExplorerInv, NEW u \in Uploads,
         \/ Initiate(u) \/ OpenSession(u) \/ CloseSession(u)
         \/ CreateFolder(u) \/ BeginUpload(u) \/ Reserve(u) \/ PutAndHead(u)
         \/ PublishUpload(u) \/ ReleaseReservation(u) \/ EraseUpload(u) \/ Abandon(u)
  PROVE  UsageStep
<1> USE ExplorerFacts DEF Flying
<1>0. /\ UNCHANGED record => Kept' = Kept
      /\ upload[u].at \in Flying <=> u \in InFlight
  BY DEF Kept, InFlight
<1>1. ASSUME NEW step, UploadGoes(u, step), step \in Flying => upload[u].at \in Flying,
             UNCHANGED <<record, counter, misreported>>
      PROVE  UsageStep
  BY <1>0, <1>1, InFlightMoves DEF UsageStep, Idle
<1>2. CASE Initiate(u) \/ BeginUpload(u)
  <2>1. ASSUME NEW t \in Targets, upload[u].at = "new",
               upload' = [upload EXCEPT ![u] = [at |-> "selected", target |-> t]]
        PROVE  InFlight' = InFlight
    BY <2>1 DEF InFlight, ExplorerInv, ExplorerTyped
  <2>2. CASE SelectTarget(u)
    BY <1>0, <1>2, <2>1, <2>2 DEF Initiate, BeginUpload, SelectTarget, UploadAt, Ghosts, UsageStep, Idle
  <2>3. CASE BeginUpload(u) /\ UploadGoes(u, "ended")
    BY <1>1, <2>3 DEF BeginUpload, Ghosts
  <2> QED BY <1>2, <2>2, <2>3 DEF Initiate, BeginUpload
<1>3. ASSUME NEW step \in {"reserved", "open"}, upload[u].at = "selected", UploadGoes(u, step),
             WithinNamespaceQuota(u), counter' = [counter EXCEPT !.reserved = @ + SizeOf[u]],
             UNCHANGED <<record, misreported>>
      PROVE  UsageStep
  BY <1>0, <1>3, InFlightMoves DEF UsageStep, Reserves
<1>4. CASE OpenSession(u) BY <1>3, <1>4 DEF OpenSession, UploadAt, Ghosts
<1>5. CASE Reserve(u)
  BY <1>1, <1>3, <1>5 DEF Reserve, UploadAt, Ghosts
<1>6. ASSUME NEW step \in {"ended", "released"}, upload[u].at \in Flying, UploadGoes(u, step),
             Covered(u), counter' = [counter EXCEPT !.reserved = @ - SizeOf[u]],
             UNCHANGED <<record, misreported>>
      PROVE  UsageStep
  BY <1>0, <1>6, InFlightMoves DEF UsageStep, Releases
<1>7. ASSUME NEW step \in {"ended", "unpublished"}, upload[u].at \in Flying, UploadGoes(u, step),
             record[KeyOf[u]].state = "absent", Covered(u), Publish(u),
             misreported \subseteq misreported', step = "unpublished" => u \in misreported'
      PROVE  UsageStep
  <2>1. u \in InFlight /\ (InFlight' = InFlight \ {u} \/ misreported' # {})
    BY <1>0, <1>7, InFlightMoves
  <2>2. counter' = [used |-> counter.used + SizeOf[u], reserved |-> counter.reserved - SizeOf[u]]
    BY <1>7 DEF Publish
  <2> QED BY <1>7, <2>1, <2>2, PublishMoves DEF UsageStep, Publishes
<1>8. CASE CloseSession(u)
  <2>1. /\ u \in Gateway /\ upload[u].at = "open" /\ UploadGoes(u, "ended") /\ Covered(u)
        /\ misreported' = misreported
    BY <1>8 DEF CloseSession, UploadAt, Ghosts
  <2>2. record[KeyOf[u]].state = "absent"
    <3>1. u \notin misreported BY <2>1 DEF ExplorerInv, ExplorerTyped
    <3>2. record[KeyOf[u]].by # u BY <2>1, <3>1 DEF ExplorerInv, Unpublished
    <3> QED BY <2>1, <3>2 DEF ExplorerInv, OfItsKey
  <2>3. CASE Publish(u) BY <1>7, <2>1, <2>2, <2>3
  <2>4. CASE counter' = [counter EXCEPT !.reserved = @ - SizeOf[u]] /\ UNCHANGED record
    BY <1>6, <2>1, <2>4
  <2> QED BY <1>8, <2>3, <2>4 DEF CloseSession
<1>9. CASE PublishUpload(u)
  <2>0. upload[u].at \in Flying BY <1>9 DEF PublishUpload, UploadAt
  <2>1. CASE /\ ~NameIsTaken(KeyOf[u]) /\ Covered(u) /\ Publish(u)
             /\ \/ UploadGoes(u, "ended") /\ UNCHANGED misreported
                \/ UploadGoes(u, "unpublished") /\ misreported' = misreported \cup {u}
    BY <1>7, <2>0, <2>1 DEF NameIsTaken
  <2>2. CASE UploadGoes(u, "unpublished") /\ UNCHANGED <<record, counter, misreported>>
    BY <1>1, <1>9, <2>2 DEF PublishUpload, UploadAt
  <2> QED BY <1>9, <2>1, <2>2 DEF PublishUpload
<1>10. CASE ReleaseReservation(u)
  BY <1>1, <1>6, <1>10 DEF ReleaseReservation, UploadAt, Ghosts
<1>11. CASE CreateFolder(u) \/ PutAndHead(u) \/ EraseUpload(u) \/ Abandon(u)
  BY <1>1, <1>11 DEF CreateFolder, PutAndHead, EraseUpload, Abandon, UploadAt, Ghosts
<1> QED BY <1>2, <1>4, <1>5, <1>8, <1>9, <1>10, <1>11

LEMMA DeleteUsage ==
  ASSUME ExplorerInv, NEW k \in Keys, ClaimDelete(k) \/ EraseDeleted(k) \/ FinalizeDelete(k)
  PROVE  UsageStep
<1> USE ExplorerFacts
<1>1. UNCHANGED misreported /\ InFlight' = InFlight
  BY DEF ClaimDelete, EraseDeleted, FinalizeDelete, Ghosts, InFlight
<1>2. record[k].state \in {"AVAILABLE", "DELETING"}
  BY DEF ClaimDelete, EraseDeleted, FinalizeDelete, ExplorerInv, DeletionHolds
<1>3. CASE ClaimDelete(k) \/ EraseDeleted(k)
  <2>1. counter' = counter BY <1>3 DEF ClaimDelete, EraseDeleted
  <2>2. Kept' = Kept BY <1>2, <1>3 DEF ClaimDelete, EraseDeleted, Kept, ExplorerInv, ExplorerTyped
  <2> QED BY <1>1, <2>1, <2>2 DEF UsageStep, Idle
<1>4. CASE FinalizeDelete(k)
  <2> DEFINE u == record[k].by
  <2>1. u \in Uploads /\ KeyOf[u] = k BY <1>2 DEF ExplorerInv, OfItsKey
  <2>2. u \in Kept BY <1>2, <2>1 DEF Kept
  <2>3. Kept' = Kept \ {u}
    BY <1>2, <1>4, <2>1 DEF FinalizeDelete, Kept, ExplorerInv, ExplorerTyped
  <2>4. counter' = [counter EXCEPT !.used = @ - SizeOf[u]] BY <1>4 DEF FinalizeDelete
  <2> QED BY <1>1, <2>1, <2>2, <2>3, <2>4 DEF UsageStep, Deletes
<1> QED BY <1>3, <1>4

LEMMA UsageKeeps ==
  ASSUME CountsTyped, NamespaceUsage, UsageStep, Kept' \subseteq Uploads, InFlight' \subseteq Uploads
  PROVE  counter' \in [used : Nat, reserved : Nat] /\ NamespaceUsage'
<1> SUFFICES /\ counter' \in [used : Nat, reserved : Nat]
             /\ counter'.used + counter'.reserved <= Quota
             /\ counter'.used = Bytes(Kept')
             /\ misreported' = {} => counter'.reserved >= Bytes(InFlight')
  BY DEF NamespaceUsage
<1>0. /\ Kept \in SUBSET Uploads /\ InFlight \in SUBSET Uploads
      /\ Bytes(Kept) \in Nat /\ Bytes(InFlight) \in Nat
      /\ Bytes(Kept') \in Nat /\ Bytes(InFlight') \in Nat
      /\ counter \in [used : Nat, reserved : Nat] /\ Quota \in Nat
      /\ \A u \in Uploads : SizeOf[u] \in Nat
  BY BytesFacts, ExplorerAssumption DEF Kept, InFlight, CountsTyped
<1>1. /\ counter.used + counter.reserved <= Quota /\ counter.used = Bytes(Kept)
      /\ misreported' = {} => counter.reserved >= Bytes(InFlight)
  BY DEF NamespaceUsage, UsageStep
<1>2. CASE Idle
  <2>1. Bytes(InFlight') <= Bytes(InFlight) BY <1>0, <1>2, BytesFacts DEF Idle
  <2> QED BY <1>0, <1>1, <1>2, <2>1 DEF Idle
<1>3. ASSUME NEW u \in Uploads, Reserves(u)
      PROVE  /\ counter' \in [used : Nat, reserved : Nat]
             /\ counter'.used + counter'.reserved <= Quota
             /\ counter'.used = Bytes(Kept')
             /\ misreported' = {} => counter'.reserved >= Bytes(InFlight')
  <2>1. Bytes(InFlight') = Bytes(InFlight) + SizeOf[u] BY <1>0, <1>3, BytesFacts DEF Reserves
  <2>2. Bytes(Kept') = Bytes(Kept) BY <1>3 DEF Reserves
  <2>3. counter'.used = counter.used /\ counter'.reserved = counter.reserved + SizeOf[u]
        /\ counter.used + counter.reserved + SizeOf[u] <= Quota
        /\ counter' \in [used : Nat, reserved : Nat]
    BY <1>0, <1>3 DEF Reserves, WithinNamespaceQuota
  <2> QED BY <1>0, <1>1, <2>1, <2>2, <2>3
<1>4. ASSUME NEW u \in Uploads, Releases(u)
      PROVE  /\ counter' \in [used : Nat, reserved : Nat]
             /\ counter'.used + counter'.reserved <= Quota
             /\ counter'.used = Bytes(Kept')
             /\ misreported' = {} => counter'.reserved >= Bytes(InFlight')
  <2>1. Bytes(InFlight) = Bytes(InFlight') + SizeOf[u] BY <1>0, <1>4, BytesFacts DEF Releases
  <2>2. Bytes(Kept') = Bytes(Kept) BY <1>4 DEF Releases
  <2>3. counter'.used = counter.used /\ counter'.reserved = counter.reserved - SizeOf[u]
        /\ counter' \in [used : Nat, reserved : Nat]
    BY <1>0, <1>4 DEF Releases, Covered
  <2> QED BY <1>0, <1>1, <2>1, <2>2, <2>3
<1>5. ASSUME NEW u \in Uploads, Publishes(u)
      PROVE  /\ counter' \in [used : Nat, reserved : Nat]
             /\ counter'.used + counter'.reserved <= Quota
             /\ counter'.used = Bytes(Kept')
             /\ misreported' = {} => counter'.reserved >= Bytes(InFlight')
  <2>1. misreported' = {} => Bytes(InFlight) = Bytes(InFlight') + SizeOf[u]
    BY <1>0, <1>5, BytesFacts DEF Publishes
  <2>2. Bytes(Kept') = Bytes(Kept) + SizeOf[u] BY <1>0, <1>5, BytesFacts DEF Publishes
  <2>3. counter'.used = counter.used + SizeOf[u] /\ counter'.reserved = counter.reserved - SizeOf[u]
        /\ counter' \in [used : Nat, reserved : Nat]
    BY <1>0, <1>5 DEF Publishes, Covered
  <2> QED BY <1>0, <1>1, <2>1, <2>2, <2>3
<1>6. ASSUME NEW u \in Uploads, Deletes(u)
      PROVE  /\ counter' \in [used : Nat, reserved : Nat]
             /\ counter'.used + counter'.reserved <= Quota
             /\ counter'.used = Bytes(Kept')
             /\ misreported' = {} => counter'.reserved >= Bytes(InFlight')
  <2>1. Bytes(Kept) = Bytes(Kept') + SizeOf[u] BY <1>0, <1>6, BytesFacts DEF Deletes
  <2>2. Bytes(InFlight') = Bytes(InFlight) BY <1>6 DEF Deletes
  <2>3. counter'.used = counter.used - SizeOf[u] /\ counter'.reserved = counter.reserved
        /\ counter' = [used |-> counter.used - SizeOf[u], reserved |-> counter.reserved]
    BY <1>0, <1>6 DEF Deletes
  <2>4. counter' \in [used : Nat, reserved : Nat] BY <1>0, <1>1, <2>1, <2>3
  <2> QED BY <1>0, <1>1, <2>1, <2>2, <2>3, <2>4
<1> QED BY <1>2, <1>3, <1>4, <1>5, <1>6 DEF UsageStep

-----------------------------------------------------------------------------
(* The capacity of a target *)

Charged(t) == {u \in InBucketOf(t) \ reverted : Shown(u) \/ UploadAt(u, "open")}
Alone(t) == \A u \in InBucketOf(t) : u \in Gateway /\ upload[u].target = t

\* An upload's step, seen from its target.
LEMMA UploadMoves ==
  ASSUME ExplorerInv, CountsTyped, NEW u \in Uploads,
         \/ Initiate(u) \/ OpenSession(u) \/ CloseSession(u)
         \/ CreateFolder(u) \/ BeginUpload(u) \/ Reserve(u) \/ PutAndHead(u)
         \/ PublishUpload(u) \/ ReleaseReservation(u) \/ EraseUpload(u) \/ Abandon(u)
  PROVE  /\ \A v \in Uploads : v # u => upload'[v] = upload[v]
         /\ upload[u].target # NoTarget => upload'[u].target = upload[u].target
         /\ upload[u].at = "new" \/ upload'[u].target = upload[u].target
         /\ upload'[u].at # "new" /\ reverted' = reverted
         /\ upload'[u].at = "open" => OpenSession(u)
<1> USE ExplorerFacts
<1>1. ASSUME NEW step \in UploadSteps, UploadGoes(u, step)
      PROVE  /\ \A v \in Uploads : v # u => upload'[v] = upload[v]
             /\ upload'[u].target = upload[u].target /\ upload'[u].at = step
  BY <1>1 DEF UploadGoes, ExplorerInv, ExplorerTyped
<1>2. ASSUME SelectTarget(u), upload[u].at = "new"
      PROVE  /\ \A v \in Uploads : v # u => upload'[v] = upload[v]
             /\ upload[u].target = NoTarget /\ upload'[u].at = "selected"
  BY <1>2 DEF SelectTarget, CountsTyped, ExplorerInv, ExplorerTyped
<1>3. reverted' = reverted
  BY DEF Initiate, OpenSession, CloseSession, CreateFolder, BeginUpload, Reserve, PutAndHead,
     PublishUpload, ReleaseReservation, EraseUpload, Abandon, Ghosts
<1>4. CASE Initiate(u) BY <1>2, <1>3, <1>4 DEF Initiate, UploadAt
<1>5. CASE BeginUpload(u) BY <1>1, <1>2, <1>3, <1>5 DEF BeginUpload, UploadAt, UploadSteps
<1>6. CASE OpenSession(u) BY <1>1, <1>3, <1>6 DEF OpenSession, UploadSteps
<1>7. CASE CloseSession(u) \/ CreateFolder(u) \/ Reserve(u) \/ PutAndHead(u)
  BY <1>1, <1>3, <1>7 DEF CloseSession, CreateFolder, Reserve, PutAndHead, UploadSteps
<1>8. CASE PublishUpload(u) \/ ReleaseReservation(u) \/ EraseUpload(u) \/ Abandon(u)
  BY <1>1, <1>3, <1>8 DEF PublishUpload, ReleaseReservation, EraseUpload, Abandon, UploadSteps
<1> QED BY <1>4, <1>5, <1>6, <1>7, <1>8

LEMMA DeleteMoves ==
  ASSUME ExplorerInv, NEW k \in Keys, ClaimDelete(k) \/ EraseDeleted(k) \/ FinalizeDelete(k)
  PROVE  /\ UNCHANGED upload /\ reverted \subseteq reverted'
         /\ reverted' \subseteq Uploads \cup reverted
         /\ \A v \in Uploads : Shown(v)' => Shown(v) \/ v \in reverted'
<1> USE ExplorerFacts
<1>0. record[k].state \in {"AVAILABLE", "DELETING"}
  BY DEF ClaimDelete, EraseDeleted, FinalizeDelete, ExplorerInv, DeletionHolds
<1>1. record[k].by \in Uploads BY <1>0 DEF ExplorerInv, OfItsKey
<1>2. CASE ClaimDelete(k) \/ FinalizeDelete(k)
  <2>1. PICK state \in {"DELETING", "DELETED"} : record' = [record EXCEPT ![k].state = state]
    BY <1>2 DEF ClaimDelete, FinalizeDelete
  <2>2. UNCHANGED <<upload, reverted>> BY <1>2 DEF ClaimDelete, FinalizeDelete, Ghosts
  <2> QED BY <2>1, <2>2 DEF Shown, ExplorerInv, ExplorerTyped
<1>3. CASE EraseDeleted(k)
  <2>1. CASE UNCHANGED <<record, reverted>> BY <1>3, <2>1 DEF EraseDeleted, Shown
  <2>2. CASE record' = [record EXCEPT ![k].state = "AVAILABLE"] /\ reverted' = reverted \cup {record[k].by}
    BY <1>1, <1>3, <2>2 DEF EraseDeleted, Shown, ExplorerInv, ExplorerTyped
  <2> QED BY <1>3, <2>1, <2>2 DEF EraseDeleted
<1> QED BY <1>2, <1>3

\* What an upload's step shows anew is a session it closes, or the explorer's.
LEMMA ShownMoves ==
  ASSUME ExplorerInv, NEW u \in Uploads,
         \/ Initiate(u) \/ OpenSession(u) \/ CloseSession(u)
         \/ CreateFolder(u) \/ BeginUpload(u) \/ Reserve(u) \/ PutAndHead(u)
         \/ PublishUpload(u) \/ ReleaseReservation(u) \/ EraseUpload(u) \/ Abandon(u)
  PROVE  /\ \A v \in Uploads : Shown(v)' => Shown(v) \/ (v = u /\ (upload[u].at = "open" \/ u \in Explorer))
         /\ upload[u].at = "new" => ~Shown(u)
<1> USE ExplorerFacts
<1>1. upload[u].at = "new" => ~Shown(u)
  BY DEF ExplorerInv, Unpublished, PutIsStored, Told, Shown
<1>2. CASE CloseSession(u) BY <1>1, <1>2 DEF CloseSession, Publish, UploadAt, Shown, ExplorerInv, ExplorerTyped
<1>3. CASE PublishUpload(u)
  <2>1. u \in Explorer BY <1>3 DEF PublishUpload, UploadAt, ExplorerInv, PutIsStored
  <2> QED BY <1>1, <1>3, <2>1 DEF PublishUpload, Publish, Shown, ExplorerInv, ExplorerTyped
<1>4. CASE ~CloseSession(u) /\ ~PublishUpload(u)
  <2>1. UNCHANGED record
    BY <1>4 DEF Initiate, OpenSession, CreateFolder, BeginUpload, Reserve, PutAndHead,
       ReleaseReservation, EraseUpload, Abandon
  <2> QED BY <1>1, <2>1 DEF Shown
<1> QED BY <1>2, <1>3, <1>4

LEMMA CapacityKeeps ==
  ASSUME ExplorerInv, CountsTyped, CapacityKept, [ExplorerNext]_explorer
  PROVE  CapacityKept'
<1> USE ExplorerFacts
<1> SUFFICES ASSUME NEW t \in Targets, Alone(t)' PROVE Bytes(Charged(t)') <= Capacity[t]
  BY DEF CapacityKept, Charged, Alone
<1>0. Charged(t) \in SUBSET Uploads /\ Capacity[t] \in Nat
  BY ExplorerAssumption DEF Charged, InBucketOf
<1>1. ASSUME Charged(t)' \subseteq Charged(t), Alone(t) PROVE Bytes(Charged(t)') <= Capacity[t]
  <2>1. Bytes(Charged(t)) <= Capacity[t] BY <1>1 DEF CapacityKept, Charged, Alone
  <2>2. Bytes(Charged(t)') <= Bytes(Charged(t)) /\ Bytes(Charged(t)) \in Nat /\ Bytes(Charged(t)') \in Nat
    BY <1>0, <1>1, BytesFacts
  <2> QED BY <1>0, <2>1, <2>2
<1>2. CASE UNCHANGED explorer
  <2>1. Charged(t)' = Charged(t) /\ Alone(t)
    BY <1>2 DEF explorer, Charged, Alone, InBucketOf, Shown, UploadAt
  <2> QED BY <1>1, <2>1
<1>3. ASSUME NEW u \in Uploads,
             \/ Initiate(u) \/ OpenSession(u) \/ CloseSession(u)
             \/ CreateFolder(u) \/ BeginUpload(u) \/ Reserve(u) \/ PutAndHead(u)
             \/ PublishUpload(u) \/ ReleaseReservation(u) \/ EraseUpload(u) \/ Abandon(u)
      PROVE  Bytes(Charged(t)') <= Capacity[t]
  <2>1. /\ \A v \in Uploads : v # u => upload'[v] = upload[v]
        /\ upload[u].target # NoTarget => upload'[u].target = upload[u].target
        /\ upload[u].at = "new" \/ upload'[u].target = upload[u].target
        /\ reverted' = reverted
        /\ upload'[u].at = "open" => OpenSession(u)
    BY <1>3, UploadMoves
  <2>2. /\ \A v \in Uploads : Shown(v)' => Shown(v) \/ (v = u /\ (upload[u].at = "open" \/ u \in Explorer))
        /\ upload[u].at = "new" => ~Shown(u)
    BY <1>3, ShownMoves
  <2>3. /\ \A v \in Uploads : v \in InBucketOf(t) => v \in InBucketOf(t)' /\ upload'[v].target = upload[v].target
        /\ \A v \in Uploads : v # u /\ v \in InBucketOf(t)' => v \in InBucketOf(t)
    BY <2>1 DEF InBucketOf
  <2>4. Alone(t) BY <2>3 DEF Alone, InBucketOf
  <2>5. ASSUME NEW v \in Charged(t)', v # u PROVE v \in Charged(t)
    <3>1. v \in Uploads /\ v \in InBucketOf(t)' /\ v \notin reverted' /\ (Shown(v)' \/ UploadAt(v, "open")')
      BY DEF Charged, InBucketOf
    <3>2. v \in InBucketOf(t) BY <2>3, <2>5, <3>1
    <3>3. Shown(v) \/ UploadAt(v, "open") BY <2>1, <2>2, <2>5, <3>1 DEF UploadAt
    <3> QED BY <2>1, <3>1, <3>2, <3>3 DEF Charged
  <2>6. CASE u \in Charged(t)' /\ u \notin Charged(t)
    <3>1. u \in InBucketOf(t)' /\ u \in Gateway /\ upload'[u].target = t
      BY <2>6 DEF Charged, Alone
    <3>2. OpenSession(u)
      <4>1. Shown(u)' \/ upload'[u].at = "open" BY <2>6 DEF Charged, UploadAt
      <4>2. CASE Shown(u)' /\ upload'[u].at # "open"
        <5>1. upload[u].at = "open" \/ Shown(u) BY <2>2, <3>1, <4>2
        <5>2. upload'[u].target = upload[u].target BY <2>1, <2>2, <5>1
        <5>3. u \in InBucketOf(t) BY <3>1, <5>2 DEF InBucketOf
        <5> QED BY <2>1, <2>6, <5>1, <5>3 DEF Charged, UploadAt
      <4> QED BY <2>1, <4>1, <4>2
    <3>3. upload[u].target = t /\ Fits(t, SizeOf[u])
      BY <2>1, <3>1, <3>2 DEF OpenSession, AssertTargetCapacity, UploadAt
    <3> DEFINE seen == {v \in InBucketOf(t) : Shown(v) \/ UploadAt(v, "open")}
    <3>4. seen \in SUBSET Uploads /\ Charged(t) \subseteq seen BY DEF Charged, InBucketOf
    <3>5. Bytes(seen) + SizeOf[u] <= Capacity[t] BY <3>3 DEF Fits, TargetUsedBytes
    <3>6. Charged(t)' = (Charged(t)' \ {u}) \cup {u} /\ Charged(t)' \ {u} \subseteq Charged(t)
      BY <2>5, <2>6
    <3> HIDE DEF seen
    <3> DEFINE others == Charged(t)' \ {u}
    <3>7. others \in SUBSET seen /\ others \in SUBSET Uploads BY <3>4, <3>6
    <3>8. Bytes(others) <= Bytes(seen) /\ Bytes(others) \in Nat /\ Bytes(seen) \in Nat /\ SizeOf[u] \in Nat
      BY <3>4, <3>7, BytesFacts
    <3>9. Bytes(others \cup {u}) = Bytes(others) + SizeOf[u] BY <3>7, BytesFacts
    <3>10. Bytes(Charged(t)') = Bytes(others) + SizeOf[u] BY <3>6, <3>9
    <3> QED BY <1>0, <3>5, <3>8, <3>10
  <2>7. CASE ~(u \in Charged(t)' /\ u \notin Charged(t))
    <3>1. Charged(t)' \subseteq Charged(t) BY <2>5, <2>7
    <3> QED BY <1>1, <2>4, <3>1
  <2> QED BY <2>6, <2>7
<1>4. ASSUME NEW k \in Keys, ClaimDelete(k) \/ EraseDeleted(k) \/ FinalizeDelete(k)
      PROVE  Bytes(Charged(t)') <= Capacity[t]
  <2>1. InBucketOf(t)' = InBucketOf(t) /\ Alone(t)
    BY <1>4, DeleteMoves DEF InBucketOf, Alone
  <2>2. Charged(t)' \subseteq Charged(t)
    BY <1>4, <2>1, DeleteMoves DEF Charged, UploadAt, InBucketOf
  <2> QED BY <1>1, <2>1, <2>2
<1> QED BY <1>2, <1>3, <1>4 DEF ExplorerNext

-----------------------------------------------------------------------------
(* What follows *)

CountsInv == CountsTyped /\ NamespaceUsage /\ CapacityKept

LEMMA CountsStart == ASSUME ExplorerInit PROVE CountsInv
<1> USE ExplorerFacts DEF ExplorerInit
<1>1. CountsTyped BY DEF CountsTyped
<1>2. Kept = {} /\ InFlight = {} BY DEF Kept, InFlight, NoObject
<1>3. NamespaceUsage BY <1>2, BytesOfNone, ExplorerAssumption DEF NamespaceUsage
<1>4. ASSUME NEW t \in Targets PROVE Bytes(Charged(t)) <= Capacity[t]
  <2>1. Charged(t) = {} BY DEF Charged, InBucketOf
  <2>2. Bytes(Charged(t)) = 0 /\ Capacity[t] \in Nat BY <2>1, BytesOfNone, ExplorerAssumption
  <2> QED BY <2>2
<1>5. CapacityKept BY <1>4 DEF CapacityKept, Charged
<1> QED BY <1>1, <1>3, <1>5 DEF CountsInv

LEMMA CountsKeep ==
  ASSUME ExplorerInv, CountsInv, [ExplorerNext]_explorer
  PROVE  CountsInv'
<1> USE DEF CountsInv
<1>1. UsageStep
  <2>1. CASE UNCHANGED explorer BY <2>1 DEF explorer, UsageStep, Idle, Kept, InFlight
  <2> QED BY <2>1, UploadUsage, DeleteUsage DEF ExplorerNext
<1>2. Kept' \subseteq Uploads /\ InFlight' \subseteq Uploads BY DEF Kept, InFlight
<1>3. counter' \in [used : Nat, reserved : Nat] /\ NamespaceUsage' BY <1>1, <1>2, UsageKeeps
<1>4. CountsTyped'
  <2>1. CASE UNCHANGED explorer BY <2>1 DEF explorer, CountsTyped
  <2>2. ASSUME NEW u \in Uploads,
               \/ Initiate(u) \/ OpenSession(u) \/ CloseSession(u)
               \/ CreateFolder(u) \/ BeginUpload(u) \/ Reserve(u) \/ PutAndHead(u)
               \/ PublishUpload(u) \/ ReleaseReservation(u) \/ EraseUpload(u) \/ Abandon(u)
        PROVE  CountsTyped'
    <3>1. /\ \A v \in Uploads : v # u => upload'[v] = upload[v]
          /\ upload'[u].at # "new" /\ reverted' = reverted
      BY <2>2, UploadMoves
    <3> QED BY <1>3, <3>1 DEF CountsTyped
  <2>3. ASSUME NEW k \in Keys, ClaimDelete(k) \/ EraseDeleted(k) \/ FinalizeDelete(k)
        PROVE  CountsTyped'
    <3>1. UNCHANGED upload /\ reverted' \subseteq Uploads BY <2>3, DeleteMoves DEF CountsTyped
    <3> QED BY <1>3, <3>1 DEF CountsTyped
  <2> QED BY <2>1, <2>2, <2>3 DEF ExplorerNext
<1>5. CapacityKept' BY CapacityKeeps
<1> QED BY <1>3, <1>4, <1>5

LEMMA CountsHold == ExplorerSpec => [](ExplorerInv /\ CountsInv)
BY ExplorerStart, ExplorerKeeps, CountsStart, CountsKeep, PTL DEF ExplorerSpec

\* The namespace's quota holds for what is used and reserved, used is exactly what
\* is kept, and every upload in flight is reserved for; unless a publication was
\* reported as failed, and released on top of being published.
THEOREM UsageHolds == ExplorerSpec => []NamespaceUsage
<1>1. CountsInv => NamespaceUsage BY DEF CountsInv
<1> QED BY <1>1, CountsHold, PTL

\* Uploads of the gateway that alone are placed on a bucket never fill it beyond its
\* target's capacity, however many are placed at once.
THEOREM CapacityHolds == ExplorerSpec => []CapacityKept
<1>1. CountsInv => CapacityKept BY DEF CountsInv
<1> QED BY <1>1, CountsHold, PTL

\* Every variable of the explorer has its type.
THEOREM ExplorerTypes == ExplorerSpec => []ExplorerOK
<1>1. ExplorerInv /\ CountsInv => ExplorerOK
  BY DEF ExplorerInv, ExplorerTyped, CountsInv, CountsTyped, ExplorerOK
<1> QED BY <1>1, CountsHold, PTL
=============================================================================

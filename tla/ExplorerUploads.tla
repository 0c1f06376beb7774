--------------------------- MODULE ExplorerUploads ---------------------------
(***************************************************************************)
(* Uploads through the Object Explorer, which reserve bytes without a      *)
(* session row, and the placement of these and of the gateway's uploads on *)
(* the targets of one namespace.                                           *)
(*                                                                         *)
(* A gateway upload is taken at its two ends, the session it opens and the *)
(* way it closes; UploadService has the steps between.  Weights become a   *)
(* free choice, the threshold is part of a target's capacity, and targets  *)
(* stay enabled and healthy.  A physical object is named by its upload;    *)
(* what a failed upload or erasure leaves at the provider is left out.     *)
(***************************************************************************)
EXTENDS Naturals, FiniteSets, FiniteSetsExt

CONSTANTS
  Gateway, Explorer,   \* uploads of each kind
  KeyOf,               \* the logical key of each, one of its own for a gateway upload
  SizeOf,              \* the size of each; 0 for the marker of a folder
  Targets, NoTarget, BucketAt,  \* placement targets (NoTarget: none, or no upload) and their buckets
  Capacity, Tier,      \* of a target
  Quota                \* of the namespace

Uploads == Gateway \cup Explorer
Keys == {KeyOf[u] : u \in Uploads}

ASSUME ExplorerAssumption ==
  /\ IsFiniteSet(Uploads)
  /\ SizeOf \in [Uploads -> Nat] /\ Capacity \in [Targets -> Nat] /\ Tier \in [Targets -> Nat]
  /\ Quota \in Nat /\ NoTarget \notin Targets \cup Uploads /\ Gateway \cap Explorer = {}
  /\ \A u \in Gateway, v \in Uploads : KeyOf[u] = KeyOf[v] => u = v

VARIABLES
  record,     \* ObjectRecord and its location: state, the upload whose object it is
  counter,    \* UsageCounter: used and reserved bytes
  stored,     \* uploads whose object is at the provider
  upload,     \* where each upload is, and its target
  deletion,   \* where the delete of each key is, and of which upload's object
  misreported, \* ghost: uploads whose publication was committed and reported as failed
  reverted,   \* ghost: uploads whose object was to be deleted and was shown again
  unheard     \* ghost: those of them whose object was deleted by a call that failed to answer

explorer == <<record, counter, stored, upload, deletion, misreported, reverted, unheard>>

UploadSteps == {"new", "selected", "reserved", "put", "failed", "released", "unpublished", "open", "ended"}
NoObject == [state |-> "absent", by |-> NoTarget]

ExplorerOK ==
  /\ record \in [Keys -> [state : {"absent", "AVAILABLE", "DELETING", "DELETED"},
                          by : Uploads \cup {NoTarget}]]
  /\ counter \in [used : Nat, reserved : Nat]
  /\ stored \subseteq Uploads /\ misreported \subseteq Explorer
  /\ reverted \subseteq Uploads /\ unheard \subseteq Uploads
  /\ upload \in [Uploads -> [at : UploadSteps, target : Targets \cup {NoTarget}]]
  /\ deletion \in [Keys -> {"idle", "claimed", "erased"}]

ExplorerInit ==
  /\ record = [k \in Keys |-> NoObject]
  /\ counter = [used |-> 0, reserved |-> 0]
  /\ stored = {} /\ misreported = {} /\ reverted = {} /\ unheard = {}
  /\ upload = [u \in Uploads |-> [at |-> "new", target |-> NoTarget]]
  /\ deletion = [k \in Keys |-> "idle"]

Bytes(uploads) == MapThenSumSet(LAMBDA u : SizeOf[u], uploads)
UploadAt(u, step) == upload[u].at = step
UploadGoes(u, step) == upload' = [upload EXCEPT ![u].at = step]
Ghosts == <<misreported, reverted, unheard>>
Shown(u) == record[KeyOf[u]].by = u /\ record[KeyOf[u]].state = "AVAILABLE"

-----------------------------------------------------------------------------
(* Placement *)

\* targetUsedBytes: what is AVAILABLE in the target's bucket and what the open
\* sessions reserve there; it has no way to see what the explorer has reserved.
InBucketOf(t) == {u \in Uploads : upload[u].target # NoTarget /\ BucketAt[upload[u].target] = BucketAt[t]}
TargetUsedBytes(t) == Bytes({u \in InBucketOf(t) : Shown(u) \/ UploadAt(u, "open")})
Fits(t, size) == TargetUsedBytes(t) + size <= Capacity[t]

\* selectTarget: any target of the lowest tier that fits.
SelectTarget(u) ==
  LET eligible == {t \in Targets : Fits(t, SizeOf[u])} IN
  \E t \in eligible : /\ \A other \in eligible : Tier[t] <= Tier[other]
                      /\ upload' = [upload EXCEPT ![u] = [at |-> "selected", target |-> t]]

\* assertTargetCapacity: looked at again in the reserving transaction, with the
\* target's row locked.  (The first form trusts the selection.)
TrustSelection(u) == TRUE
AssertTargetCapacity(u) == Fits(upload[u].target, SizeOf[u])

\* The namespace's counter is locked, and what is reserved counts.  (The first form
\* looks at what is used.)
WithinUsedQuota(u) == counter.used + SizeOf[u] <= Quota
WithinNamespaceQuota(u) == counter.used + counter.reserved + SizeOf[u] <= Quota

-----------------------------------------------------------------------------
(* The gateway's uploads *)

Initiate(u) ==
  /\ u \in Gateway /\ UploadAt(u, "new") /\ SelectTarget(u)
  /\ UNCHANGED <<record, counter, stored, deletion, Ghosts>>
OpenSession(u) ==
  /\ u \in Gateway /\ UploadAt(u, "selected")
  /\ WithinNamespaceQuota(u) /\ AssertTargetCapacity(u)
  /\ UploadGoes(u, "open") /\ counter' = [counter EXCEPT !.reserved = @ + SizeOf[u]]
  /\ UNCHANGED <<record, stored, deletion, Ghosts>>
\* The counter's CHECK refuses to return more than is reserved.
Covered(u) == counter.reserved >= SizeOf[u]
Publish(u) ==
  /\ counter' = [used |-> counter.used + SizeOf[u], reserved |-> counter.reserved - SizeOf[u]]
  /\ record' = [record EXCEPT ![KeyOf[u]] = [state |-> "AVAILABLE", by |-> u]]
CloseSession(u) ==
  /\ u \in Gateway /\ UploadAt(u, "open") /\ Covered(u) /\ UploadGoes(u, "ended")
  /\ \/ Publish(u) /\ stored' = stored \cup {u}
     \/ counter' = [counter EXCEPT !.reserved = @ - SizeOf[u]] /\ UNCHANGED <<record, stored>>
  /\ UNCHANGED <<deletion, Ghosts>>

-----------------------------------------------------------------------------
(* The explorer's uploads *)

\* A folder whose marker exists needs no upload; the lookup is not limited to the
\* namespace, so a folder of that name elsewhere ends it too.
CreateFolder(u) ==
  /\ u \in Explorer /\ SizeOf[u] = 0 /\ UploadAt(u, "new") /\ UploadGoes(u, "ended")
  /\ UNCHANGED <<record, counter, stored, deletion, Ghosts>>

\* A key that is AVAILABLE is a conflict.
BeginUpload(u) ==
  /\ u \in Explorer /\ UploadAt(u, "new")
  /\ \/ record[KeyOf[u]].state # "AVAILABLE" /\ SelectTarget(u)
     \/ record[KeyOf[u]].state = "AVAILABLE" /\ UploadGoes(u, "ended")
  /\ UNCHANGED <<record, counter, stored, deletion, Ghosts>>

Reserve(u) ==
  /\ u \in Explorer /\ UploadAt(u, "selected")
  /\ \/ /\ WithinNamespaceQuota(u) /\ AssertTargetCapacity(u)
        /\ UploadGoes(u, "reserved") /\ counter' = [counter EXCEPT !.reserved = @ + SizeOf[u]]
     \/ ~(WithinNamespaceQuota(u) /\ AssertTargetCapacity(u)) /\ UploadGoes(u, "ended")
        /\ UNCHANGED counter
  /\ UNCHANGED <<record, stored, deletion, Ghosts>>

\* putObject and headObject: both answer, or the upload has failed.  (The first form
\* takes the object for stored.)
PutOnly(u) ==
  /\ UploadAt(u, "reserved") /\ UploadGoes(u, "put")
  /\ (stored' = stored \cup {u} \/ UNCHANGED stored)
  /\ UNCHANGED <<record, counter, deletion, Ghosts>>
PutAndHead(u) ==
  /\ UploadAt(u, "reserved")
  /\ \/ UploadGoes(u, "put") /\ stored' = stored \cup {u}
     \/ UploadGoes(u, "failed") /\ UNCHANGED stored
  /\ UNCHANGED <<record, counter, deletion, Ghosts>>

\* The publishing transaction inserts a record, which the unique name refuses if
\* the key has one, in whatever state.  Its commit may be reported as an error.
NameIsTaken(k) == record[k].state # "absent"
PublishUpload(u) ==
  /\ UploadAt(u, "put")
  /\ \/ /\ ~NameIsTaken(KeyOf[u]) /\ Covered(u) /\ Publish(u)
        /\ \/ UploadGoes(u, "ended") /\ UNCHANGED misreported
           \/ UploadGoes(u, "unpublished") /\ misreported' = misreported \cup {u}
     \/ UploadGoes(u, "unpublished") /\ UNCHANGED <<record, counter, misreported>>
  /\ UNCHANGED <<stored, deletion, reverted, unheard>>

\* releaseReservation, which the counter's CHECK can refuse.  After a failed put an
\* error of the release ends the request; after a failed publication it does not.
ReleaseReservation(u) ==
  /\ upload[u].at \in {"failed", "unpublished"}
  /\ \/ /\ Covered(u) /\ UploadGoes(u, "released")
        /\ counter' = [counter EXCEPT !.reserved = @ - SizeOf[u]]
     \/ /\ UNCHANGED counter
        /\ UploadGoes(u, IF UploadAt(u, "failed") THEN "ended" ELSE "released")
  /\ UNCHANGED <<record, stored, deletion, Ghosts>>

EraseUpload(u) ==
  /\ UploadAt(u, "released") /\ UploadGoes(u, "ended")
  /\ stored' = stored \ {u}
  /\ UNCHANGED <<record, counter, deletion, Ghosts>>

\* The API stops; nothing finds the reservation again.
Abandon(u) ==
  /\ upload[u].at \in {"selected", "reserved", "put", "failed", "unpublished", "released"} /\ u \in Explorer
  /\ UploadGoes(u, "ended")
  /\ UNCHANGED <<record, counter, stored, deletion, Ghosts>>

-----------------------------------------------------------------------------
(* A delete of the explorer, one at a time: claim, erase, finalize or revert *)

ClaimDelete(k) ==
  /\ record[k].state = "AVAILABLE" /\ \A other \in Keys : deletion[other] = "idle"
  /\ record' = [record EXCEPT ![k].state = "DELETING"]
  /\ deletion' = [deletion EXCEPT ![k] = "claimed"]
  /\ UNCHANGED <<counter, stored, upload, Ghosts>>
\* deleteObject may fail, or take effect and fail to answer: either way the record is
\* shown again.
EraseDeleted(k) ==
  LET u == record[k].by IN
  /\ deletion[k] = "claimed"
  /\ \/ stored' = stored \ {u} /\ deletion' = [deletion EXCEPT ![k] = "erased"]
        /\ UNCHANGED <<record, reverted, unheard>>
     \/ /\ record' = [record EXCEPT ![k].state = "AVAILABLE"]
        /\ deletion' = [deletion EXCEPT ![k] = "idle"] /\ reverted' = reverted \cup {u}
        /\ \/ UNCHANGED <<stored, unheard>>
           \/ stored' = stored \ {u} /\ unheard' = unheard \cup {u}
  /\ UNCHANGED <<counter, upload, misreported>>
FinalizeDelete(k) ==
  /\ deletion[k] = "erased" /\ deletion' = [deletion EXCEPT ![k] = "idle"]
  /\ record' = [record EXCEPT ![k].state = "DELETED"]
  /\ counter' = [counter EXCEPT !.used = @ - SizeOf[record[k].by]]
  /\ UNCHANGED <<stored, upload, Ghosts>>

ExplorerNext ==
  \/ \E u \in Uploads :
       \/ Initiate(u) \/ OpenSession(u) \/ CloseSession(u)
       \/ CreateFolder(u) \/ BeginUpload(u) \/ Reserve(u) \/ PutAndHead(u)
       \/ PublishUpload(u) \/ ReleaseReservation(u) \/ EraseUpload(u) \/ Abandon(u)
  \/ \E k \in Keys : ClaimDelete(k) \/ EraseDeleted(k) \/ FinalizeDelete(k)

ExplorerSpec == ExplorerInit /\ [][ExplorerNext]_explorer

-----------------------------------------------------------------------------
\* The namespace's quota holds for what is used and reserved; used is exactly the
\* objects that have not been deleted; and the reservation covers every upload in
\* flight, unless a publication that was reported as failed has been released on
\* top of being published.
InFlight == {u \in Uploads : upload[u].at \in {"reserved", "put", "failed", "unpublished", "open"}}
Kept == {u \in Uploads : record[KeyOf[u]].by = u /\ record[KeyOf[u]].state \in {"AVAILABLE", "DELETING"}}
NamespaceUsage ==
  /\ counter.used + counter.reserved <= Quota
  /\ counter.used = Bytes(Kept)
  /\ misreported = {} => counter.reserved >= Bytes(InFlight)

\* An AVAILABLE object is at the provider.  Two lost answers are the exceptions: the
\* same publication, whose cleanup erases what is shown, and an erasure that took
\* effect and is given back as if it had not.
ShownIsStored ==
  \A k \in Keys :
    record[k].state = "AVAILABLE" => record[k].by \in stored \cup misreported \cup unheard

\* Uploads of the gateway never fill a bucket beyond the capacity of the target
\* they were placed on, however many are placed at once, as long as the explorer
\* and other targets leave the bucket alone.  An object whose delete failed is not
\* counted: placement did not count it either while it was DELETING.
CapacityKept ==
  \A t \in Targets :
    (\A u \in InBucketOf(t) : u \in Gateway /\ upload[u].target = t) =>
      Bytes({u \in InBucketOf(t) \ reverted : Shown(u) \/ UploadAt(u, "open")}) <= Capacity[t]
=============================================================================

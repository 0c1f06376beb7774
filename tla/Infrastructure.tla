--------------------------- MODULE Infrastructure ---------------------------
(***************************************************************************)
(* The connections that objects are stored through: providers and their    *)
(* health, the buckets imported from them, namespaces and the placement    *)
(* targets of their policies, and the upload sessions that refer to all of *)
(* these.  Requests of administrators, the worker's health checks and      *)
(* uploads run at the same time; each statement sees what is committed.    *)
(*                                                                         *)
(* The foreign keys are those of the schema: a row that another refers to  *)
(* is not deleted, except that a namespace takes its policy and targets    *)
(* with it.  Names, quotas, capacities and the activity log are left out.  *)
(***************************************************************************)
EXTENDS FiniteSets

CONSTANTS
  Providers,                \* provider connections
  BucketIds, ProviderOf,    \* bucket connections, and the provider of each
  Namespaces,
  TargetSets,               \* the sets of buckets that a policy is given
  Jobs                      \* requests, checks and uploads in flight

ASSUME InfrastructureAssumption ==
  /\ IsFiniteSet(BucketIds) /\ ProviderOf \in [BucketIds -> Providers]
  /\ TargetSets \subseteq SUBSET BucketIds

VARIABLES
  provider,    \* ProviderConnection.status
  bucket,      \* BucketConnection.status
  namespace,   \* VirtualNamespace.status
  target,      \* PlacementTarget: the buckets of a namespace's policy
  uploading,   \* UploadSession: pairs of a namespace and a bucket
  appended,    \* targets added since a policy was last replaced
  job          \* where each job is

infrastructure == <<provider, bucket, namespace, target, uploading, appended, job>>
Rows == <<provider, bucket, namespace, target, uploading, appended>>

Healths == {"absent", "PENDING", "HEALTHY", "UNHEALTHY"}
ConnectionStates == {"absent", "ACTIVE", "DISABLED"}
JobSteps == {"idle", "edit", "delete provider", "test", "check", "import",
             "delete bucket", "delete namespace", "policy", "replacing", "target", "place"}

\* gone: the targets that a running replacement has deleted.
NoJob == [at |-> "idle", on |-> {}, buckets |-> {}, gone |-> {}]

InfrastructureOK ==
  /\ provider \in [Providers -> Healths]
  /\ bucket \in [BucketIds -> ConnectionStates] /\ namespace \in [Namespaces -> ConnectionStates]
  /\ target \in [Namespaces -> SUBSET BucketIds] /\ appended \in [Namespaces -> SUBSET BucketIds]
  /\ uploading \subseteq Namespaces \X BucketIds
  /\ job \in [Jobs -> [at : JobSteps, on : SUBSET (Providers \cup Namespaces \cup BucketIds),
                       buckets : SUBSET BucketIds, gone : SUBSET BucketIds]]

InfrastructureInit ==
  /\ provider = [p \in Providers |-> "absent"]
  /\ bucket = [b \in BucketIds |-> "absent"]
  /\ namespace = [n \in Namespaces |-> "absent"]
  /\ target = [n \in Namespaces |-> {}] /\ appended = [n \in Namespaces |-> {}]
  /\ uploading = {}
  /\ job = [j \in Jobs |-> NoJob]

ProviderExists(p) == provider[p] # "absent"
JobOn(j, x) == job[j].on = {x}
JobAt(j, step) == job[j].at = step
JobEnds(j) == job' = [job EXCEPT ![j] = NoJob]
JobRejected(j) == JobEnds(j) /\ UNCHANGED Rows
JobBegins(j, step, x, buckets) ==
  /\ JobAt(j, "idle") /\ UNCHANGED Rows
  /\ job' = [job EXCEPT ![j] = [NoJob EXCEPT !.at = step, !.on = {x}, !.buckets = buckets]]

\* A statement that changes one table, or fails.
JobEither(j, possible, change) ==
  \/ possible /\ change /\ JobEnds(j)
  \/ ~possible /\ JobRejected(j)

-----------------------------------------------------------------------------
(* Providers *)

PendingAgain(p) == [provider EXCEPT ![p] = "PENDING"]

CreateProvider(j, p) ==
  /\ JobAt(j, "idle") /\ ~ProviderExists(p)
  /\ provider' = PendingAgain(p)
  /\ UNCHANGED <<bucket, namespace, target, uploading, appended, job>>

\* A new endpoint, region, addressing mode or credential.
PatchProvider(j, p) == ProviderExists(p) /\ JobBegins(j, "edit", p, {})
UpdateProvider(j, p) ==
  /\ JobAt(j, "edit") /\ JobOn(j, p)
  /\ JobEither(j, ProviderExists(p),
       provider' = PendingAgain(p) /\ UNCHANGED <<bucket, namespace, target, uploading, appended>>)

\* The buckets are counted first, and looked for again by the foreign key.
BucketCount(p) == Cardinality({b \in BucketIds : ProviderOf[b] = p /\ bucket[b] # "absent"})
DeleteProviderRoute(j, p) ==
  ProviderExists(p) /\ BucketCount(p) = 0 /\ JobBegins(j, "delete provider", p, {})
DeleteProvider(j, p) ==
  /\ JobAt(j, "delete provider") /\ JobOn(j, p)
  /\ JobEither(j, ProviderExists(p) /\ BucketCount(p) = 0,
       /\ provider' = [provider EXCEPT ![p] = "absent"]
       /\ UNCHANGED <<bucket, namespace, target, uploading, appended>>)

\* adapterFor reads the connection; the answer is recorded when it comes, whatever
\* has been edited since.
AdapterFor(j, p, step) == ProviderExists(p) /\ JobBegins(j, step, p, {})
TestProvider(j, p) == AdapterFor(j, p, "test")
HealthRecorded(j, p) ==
  /\ \E health \in {"HEALTHY", "UNHEALTHY"} : provider' = [provider EXCEPT ![p] = health]
  /\ UNCHANGED <<bucket, namespace, target, uploading, appended>>
RecordTestResult(j, p) ==
  JobAt(j, "test") /\ JobOn(j, p) /\ JobEither(j, ProviderExists(p), HealthRecorded(j, p))

\* The worker checks one provider after the other.
CheckHealth(j, p) == (\A i \in Jobs : ~JobAt(i, "check")) /\ AdapterFor(j, p, "check")
RecordHealth(j, p) ==
  JobAt(j, "check") /\ JobOn(j, p) /\ JobEither(j, ProviderExists(p), HealthRecorded(j, p))

-----------------------------------------------------------------------------
(* Buckets *)

\* The bucket is tried at the provider before it is inserted.
PostBucket(j, b) == AdapterFor(j, ProviderOf[b], "import")
ImportBucket(j, b) ==
  /\ JobAt(j, "import") /\ JobOn(j, ProviderOf[b])
  /\ JobEither(j, bucket[b] = "absent" /\ ProviderExists(ProviderOf[b]),
       /\ bucket' = [bucket EXCEPT ![b] = "ACTIVE"]
       /\ UNCHANGED <<provider, namespace, target, uploading, appended>>)

UpdateBucketStatus(j, b, status) ==
  /\ JobAt(j, "idle") /\ bucket[b] # "absent"
  /\ bucket' = [bucket EXCEPT ![b] = status]
  /\ UNCHANGED <<provider, namespace, target, uploading, appended, job>>

\* What the foreign keys look for.  (The first form has none.)
Unchecked(b) == FALSE
BucketReferred(b) ==
  (\E n \in Namespaces : b \in target[n]) \/ (\E s \in uploading : s[2] = b)
DeleteBucketRoute(j, b) == bucket[b] = "DISABLED" /\ JobBegins(j, "delete bucket", b, {})
DeleteBucket(j, b) ==
  /\ JobAt(j, "delete bucket") /\ JobOn(j, b)
  /\ JobEither(j, bucket[b] # "absent" /\ ~BucketReferred(b),
       /\ bucket' = [bucket EXCEPT ![b] = "absent"]
       /\ UNCHANGED <<provider, namespace, target, uploading, appended>>)

-----------------------------------------------------------------------------
(* Namespaces and their placement policies *)

CreateNamespace(j, n) ==
  /\ JobAt(j, "idle") /\ namespace[n] = "absent"
  /\ namespace' = [namespace EXCEPT ![n] = "ACTIVE"]
  /\ UNCHANGED <<provider, bucket, target, uploading, appended, job>>

UpdateNamespace(j, n, status) ==
  /\ JobAt(j, "idle") /\ namespace[n] # "absent"
  /\ namespace' = [namespace EXCEPT ![n] = status]
  /\ UNCHANGED <<provider, bucket, target, uploading, appended, job>>

NamespaceReferred(n) == \E s \in uploading : s[1] = n
DeleteNamespaceRoute(j, n) == namespace[n] = "DISABLED" /\ JobBegins(j, "delete namespace", n, {})
DeleteNamespace(j, n) ==
  /\ JobAt(j, "delete namespace") /\ JobOn(j, n)
  /\ JobEither(j, namespace[n] # "absent" /\ ~NamespaceReferred(n),
       /\ namespace' = [namespace EXCEPT ![n] = "absent"]
       /\ target' = [target EXCEPT ![n] = {}] /\ appended' = [appended EXCEPT ![n] = {}]
       /\ UNCHANGED <<provider, bucket, uploading>>)

\* A policy is replaced in one transaction.  It looks for the buckets, writes the
\* policy's row, which locks it, and deletes the targets, unless an upload
\* session refers to one ...
Known(buckets) == \A b \in buckets : bucket[b] # "absent"
PutPolicy(j, n, buckets) == namespace[n] # "absent" /\ Known(buckets) /\ JobBegins(j, "policy", n, buckets)

\* (The first form does not wait for the row.)
PolicyUnlocked(n) == TRUE
PolicyFree(n) == \A j \in Jobs : ~(JobAt(j, "replacing") /\ JobOn(j, n))
TargetsReferred(n, buckets) == \E b \in buckets : <<n, b>> \in uploading
UpdatePolicy(j, n) ==
  /\ JobAt(j, "policy") /\ JobOn(j, n) /\ PolicyFree(n)
  /\ \/ /\ namespace[n] # "absent" /\ ~TargetsReferred(n, target[n])
        /\ job' = [job EXCEPT ![j].at = "replacing", ![j].gone = target[n]] /\ UNCHANGED Rows
     \/ (namespace[n] = "absent" \/ TargetsReferred(n, target[n])) /\ JobRejected(j)

\* ... and inserts the new ones.
ReplaceTargets(j, n) ==
  LET left == target[n] \ job[j].gone IN
  /\ JobAt(j, "replacing") /\ JobOn(j, n)
  /\ JobEither(j, /\ namespace[n] # "absent" /\ Known(job[j].buckets)
               /\ left \cap job[j].buckets = {} /\ ~TargetsReferred(n, job[j].gone),
       /\ target' = [target EXCEPT ![n] = left \cup job[j].buckets]
       /\ appended' = [appended EXCEPT ![n] = @ \cap left]
       /\ UNCHANGED <<provider, bucket, namespace, uploading>>)

\* addTarget writes no row of the policy.
PostTarget(j, n, b) == namespace[n] # "absent" /\ Known({b}) /\ JobBegins(j, "target", n, {b})
AddTarget(j, n) ==
  /\ JobAt(j, "target") /\ JobOn(j, n)
  /\ JobEither(j, namespace[n] # "absent" /\ Known(job[j].buckets) /\ job[j].buckets \cap target[n] = {},
       /\ target' = [target EXCEPT ![n] = @ \cup job[j].buckets]
       /\ appended' = [appended EXCEPT ![n] = @ \cup job[j].buckets]
       /\ UNCHANGED <<provider, bucket, namespace, uploading>>)

-----------------------------------------------------------------------------
(* Uploads: a target is selected, checked again, and referred to *)

Placeable(n, b) ==
  b \in target[n] /\ bucket[b] = "ACTIVE" /\ provider[ProviderOf[b]] = "HEALTHY"
PlaceUpload(j, n, b) ==
  /\ namespace[n] = "ACTIVE" /\ Placeable(n, b) /\ JobBegins(j, "place", n, {b})
OpenUpload(j, n) ==
  /\ JobAt(j, "place") /\ JobOn(j, n)
  /\ JobEither(j, \A b \in job[j].buckets : Placeable(n, b),
       /\ uploading' = uploading \cup {<<n, b>> : b \in job[j].buckets}
       /\ UNCHANGED <<provider, bucket, namespace, target, appended>>)

\* The session is pruned after it has ended.
PruneUpload(s) ==
  /\ uploading' = uploading \ {s}
  /\ UNCHANGED <<provider, bucket, namespace, target, appended, job>>

ProviderJob(j) ==
  \E p \in Providers :
    \/ CreateProvider(j, p) \/ PatchProvider(j, p) \/ UpdateProvider(j, p)
    \/ DeleteProviderRoute(j, p) \/ DeleteProvider(j, p) \/ TestProvider(j, p)
    \/ RecordTestResult(j, p) \/ CheckHealth(j, p) \/ RecordHealth(j, p)
BucketJob(j) ==
  \E b \in BucketIds :
    \/ PostBucket(j, b) \/ ImportBucket(j, b) \/ DeleteBucketRoute(j, b) \/ DeleteBucket(j, b)
    \/ \E status \in {"ACTIVE", "DISABLED"} : UpdateBucketStatus(j, b, status)
NamespaceJob(j) ==
  \E n \in Namespaces :
    \/ CreateNamespace(j, n) \/ DeleteNamespaceRoute(j, n) \/ DeleteNamespace(j, n)
    \/ \E status \in {"ACTIVE", "DISABLED"} : UpdateNamespace(j, n, status)
    \/ \E buckets \in TargetSets : PutPolicy(j, n, buckets)
    \/ UpdatePolicy(j, n) \/ ReplaceTargets(j, n) \/ AddTarget(j, n) \/ OpenUpload(j, n)
    \/ \E b \in BucketIds : PostTarget(j, n, b) \/ PlaceUpload(j, n, b)

InfrastructureNext ==
  \/ \E j \in Jobs : ProviderJob(j) \/ BucketJob(j) \/ NamespaceJob(j)
  \/ \E s \in uploading : PruneUpload(s)

InfrastructureSpec == InfrastructureInit /\ [][InfrastructureNext]_infrastructure

-----------------------------------------------------------------------------
\* No row refers to one that is gone, whatever was deleted while it was inserted.
NothingDangles ==
  /\ \A b \in BucketIds : bucket[b] # "absent" => ProviderExists(ProviderOf[b])
  /\ \A n \in Namespaces : \A b \in target[n] : namespace[n] # "absent" /\ bucket[b] # "absent"
  /\ \A s \in uploading : s[2] \in target[s[1]]

\* Policies that are replaced at the same time do not mix: the targets are those
\* of one request, and what was added since.
PolicyIsOneRequest ==
  \A n \in Namespaces : target[n] \ appended[n] \in TargetSets \cup {{}}
=============================================================================

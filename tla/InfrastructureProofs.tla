------------------------ MODULE InfrastructureProofs ------------------------
(***************************************************************************)
(* What holds of the storage connections and of the encryption of their    *)
(* credentials for every number of rows and of requests.                   *)
(***************************************************************************)
EXTENDS Infrastructure, CredentialKeys, SumTheorems

-----------------------------------------------------------------------------
(* Connections *)

ConnectionJobs == [at : JobSteps, on : SUBSET (Providers \cup Namespaces \cup BucketIds),
                   buckets : SUBSET BucketIds, gone : SUBSET BucketIds]

RowsOK ==
  /\ provider \in [Providers -> Healths]
  /\ bucket \in [BucketIds -> ConnectionStates] /\ namespace \in [Namespaces -> ConnectionStates]
  /\ target \in [Namespaces -> SUBSET BucketIds] /\ appended \in [Namespaces -> SUBSET BucketIds]
  /\ uploading \subseteq Namespaces \X BucketIds

\* A replacement that is running holds the policy, asks for one set of buckets, and
\* has deleted every target but those added since.
PoliciesHeld ==
  /\ \A j \in Jobs : job[j].at \in {"policy", "replacing"} => job[j].buckets \in TargetSets
  /\ \A n \in Namespaces : target[n] \ appended[n] \in TargetSets \cup {{}}
  /\ \A j \in Jobs, n \in Namespaces : JobAt(j, "replacing") /\ JobOn(j, n) =>
       target[n] \ job[j].gone \subseteq appended[n]
  /\ \A i, j \in Jobs, n \in Namespaces :
       JobAt(i, "replacing") /\ JobAt(j, "replacing") /\ JobOn(i, n) /\ JobOn(j, n) => i = j

InfrastructureInv ==
  RowsOK /\ job \in [Jobs -> ConnectionJobs] /\ NothingDangles /\ PoliciesHeld

LEMMA InfrastructureStart == InfrastructureInit => InfrastructureInv
BY InfrastructureAssumption
DEF InfrastructureInit, InfrastructureInv, RowsOK, Healths, ConnectionStates, ConnectionJobs, JobSteps,
    NoJob, NothingDangles, PoliciesHeld, JobAt

LEMMA NoBuckets ==
  ASSUME NEW p \in Providers, BucketCount(p) = 0
  PROVE  \A b \in BucketIds : ProviderOf[b] = p => bucket[b] = "absent"
<1> DEFINE left == {b \in BucketIds : ProviderOf[b] = p /\ bucket[b] # "absent"}
<1>1. IsFiniteSet(left)
  BY InfrastructureAssumption, FS_Subset
<1>2. Cardinality(left) = 0 BY DEF BucketCount
<1>3. left = {} BY <1>1, <1>2, FS_EmptySet
<1> QED BY <1>3

LEMMA NoJobRow == NoJob \in ConnectionJobs /\ NoJob.at = "idle"
BY DEF NoJob, ConnectionJobs, JobSteps

\* A job that begins, or that is over, changes no row.
LEMMA JobMoves ==
  ASSUME InfrastructureInv, NEW j \in Jobs, NEW row \in ConnectionJobs,
         job' = [job EXCEPT ![j] = row], UNCHANGED Rows,
         row.at = "policy" => row.buckets \in TargetSets, row.at # "replacing"
  PROVE  InfrastructureInv'
<1>1. job' \in [Jobs -> ConnectionJobs] BY DEF InfrastructureInv
<1>2. PoliciesHeld' BY DEF InfrastructureInv, PoliciesHeld, Rows, JobAt, JobOn
<1> QED BY <1>1, <1>2 DEF InfrastructureInv, RowsOK, Rows, NothingDangles, ProviderExists

LEMMA JobLeaves ==
  ASSUME InfrastructureInv, NEW j \in Jobs, JobRejected(j)
  PROVE  InfrastructureInv'
BY NoJobRow, JobMoves DEF JobRejected, JobEnds

LEMMA JobStarts ==
  ASSUME InfrastructureInv, NEW j \in Jobs, NEW step \in JobSteps \ {"replacing"},
         NEW x \in Providers \cup Namespaces \cup BucketIds, NEW buckets \in SUBSET BucketIds,
         step = "policy" => buckets \in TargetSets, JobBegins(j, step, x, buckets)
  PROVE  InfrastructureInv'
<1> DEFINE row == [NoJob EXCEPT !.at = step, !.on = {x}, !.buckets = buckets]
<1>1. row \in ConnectionJobs /\ row.at = step /\ row.buckets = buckets
  BY DEF NoJob, ConnectionJobs
<1>2. job' = [job EXCEPT ![j] = row] /\ UNCHANGED Rows BY DEF JobBegins
<1> HIDE DEF row
<1> QED BY <1>1, <1>2, JobMoves

\* The policies are as they were, and at most the job that moved is over.
LEMMA PoliciesUntouched ==
  ASSUME InfrastructureInv, UNCHANGED <<target, appended>>,
         job' = job \/ \E j \in Jobs : JobEnds(j)
  PROVE  PoliciesHeld' /\ job' \in [Jobs -> ConnectionJobs]
BY NoJobRow DEF InfrastructureInv, PoliciesHeld, JobEnds, JobAt, JobOn

LEMMA ProviderJobKeeps ==
  ASSUME InfrastructureInv, NEW j \in Jobs, ProviderJob(j)
  PROVE  InfrastructureInv'
<1>0. PICK p \in Providers :
        \/ CreateProvider(j, p) \/ PatchProvider(j, p) \/ UpdateProvider(j, p)
        \/ DeleteProviderRoute(j, p) \/ DeleteProvider(j, p) \/ TestProvider(j, p)
        \/ RecordTestResult(j, p) \/ CheckHealth(j, p) \/ RecordHealth(j, p)
  BY DEF ProviderJob
\* Another status of a provider, which only a delete takes away.
<1>a. ASSUME NEW health \in Healths, provider' = [provider EXCEPT ![p] = health],
             UNCHANGED <<bucket, namespace, target, uploading, appended>>,
             job' = job \/ JobEnds(j),
             health = "absent" => \A b \in BucketIds : ProviderOf[b] = p => bucket[b] = "absent"
      PROVE  InfrastructureInv'
  <2>1. PoliciesHeld' /\ job' \in [Jobs -> ConnectionJobs] BY <1>a, PoliciesUntouched
  <2> QED BY <1>a, <2>1, InfrastructureAssumption
       DEF InfrastructureInv, RowsOK, NothingDangles, ProviderExists
<1>1. CASE CreateProvider(j, p)
  BY <1>1, <1>a DEF CreateProvider, PendingAgain, Healths
<1>2. CASE PatchProvider(j, p) \/ DeleteProviderRoute(j, p) \/ TestProvider(j, p) \/ CheckHealth(j, p)
  <2>1. PICK step \in {"edit", "delete provider", "test", "check"} : JobBegins(j, step, p, {})
    BY <1>2 DEF PatchProvider, DeleteProviderRoute, TestProvider, CheckHealth, AdapterFor
  <2>2. step \in JobSteps \ {"replacing"} /\ step # "policy" BY DEF JobSteps
  <2>3. p \in Providers \cup Namespaces \cup BucketIds /\ {} \in SUBSET BucketIds OBVIOUS
  <2> QED BY <2>1, <2>2, <2>3, JobStarts
<1>3. CASE UpdateProvider(j, p)
  BY <1>3, <1>a, JobLeaves DEF UpdateProvider, JobEither, PendingAgain, Healths
<1>4. CASE DeleteProvider(j, p)
  <2>1. BucketCount(p) = 0 => \A b \in BucketIds : ProviderOf[b] = p => bucket[b] = "absent"
    BY NoBuckets
  <2> QED BY <1>4, <2>1, <1>a, JobLeaves DEF DeleteProvider, JobEither, Healths
<1>5. CASE RecordTestResult(j, p) \/ RecordHealth(j, p)
  BY <1>5, <1>a, JobLeaves DEF RecordTestResult, RecordHealth, JobEither, HealthRecorded, Healths
<1> QED BY <1>0, <1>1, <1>2, <1>3, <1>4, <1>5

LEMMA BucketJobKeeps ==
  ASSUME InfrastructureInv, NEW j \in Jobs, BucketJob(j)
  PROVE  InfrastructureInv'
<1>0. PICK b \in BucketIds :
        \/ PostBucket(j, b) \/ ImportBucket(j, b) \/ DeleteBucketRoute(j, b) \/ DeleteBucket(j, b)
        \/ \E status \in {"ACTIVE", "DISABLED"} : UpdateBucketStatus(j, b, status)
  BY DEF BucketJob
<1>p. ProviderOf[b] \in Providers BY InfrastructureAssumption
<1>a. ASSUME NEW state \in ConnectionStates, bucket' = [bucket EXCEPT ![b] = state],
             UNCHANGED <<provider, namespace, target, uploading, appended>>,
             job' = job \/ JobEnds(j),
             state = "absent" => ~BucketReferred(b),
             state # "absent" => ProviderExists(ProviderOf[b])
      PROVE  InfrastructureInv'
  <2>1. PoliciesHeld' /\ job' \in [Jobs -> ConnectionJobs] BY <1>a, PoliciesUntouched
  <2>2. RowsOK' BY <1>a DEF InfrastructureInv, RowsOK
  <2>3. NothingDangles'
    BY <1>a, InfrastructureAssumption
    DEF InfrastructureInv, RowsOK, NothingDangles, ProviderExists, BucketReferred
  <2> QED BY <2>1, <2>2, <2>3 DEF InfrastructureInv
<1>1. CASE PostBucket(j, b) \/ DeleteBucketRoute(j, b)
  <2>1. PICK step \in {"import", "delete bucket"}, x \in Providers \cup BucketIds : JobBegins(j, step, x, {})
    BY <1>p, <1>1 DEF PostBucket, DeleteBucketRoute, AdapterFor
  <2>2. step \in JobSteps \ {"replacing"} /\ step # "policy" BY DEF JobSteps
  <2>3. x \in Providers \cup Namespaces \cup BucketIds /\ {} \in SUBSET BucketIds OBVIOUS
  <2> QED BY <2>1, <2>2, <2>3, JobStarts
<1>2. CASE ImportBucket(j, b)
  BY <1>2, <1>a, JobLeaves DEF ImportBucket, JobEither, ConnectionStates
<1>3. CASE DeleteBucket(j, b)
  BY <1>3, <1>a, JobLeaves DEF DeleteBucket, JobEither, ConnectionStates
<1>4. CASE \E status \in {"ACTIVE", "DISABLED"} : UpdateBucketStatus(j, b, status)
  BY <1>4, <1>a DEF UpdateBucketStatus, ConnectionStates, InfrastructureInv, NothingDangles
<1> QED BY <1>0, <1>1, <1>2, <1>3, <1>4

\* A namespace's targets change: each one is there, the uploads' targets stay, and
\* what was not added since is one request's.
LEMMA TargetsChange ==
  ASSUME InfrastructureInv, NEW j \in Jobs, NEW n \in Namespaces, JobEnds(j),
         NEW now \in SUBSET BucketIds, NEW since \in SUBSET BucketIds,
         target' = [target EXCEPT ![n] = now], appended' = [appended EXCEPT ![n] = since],
         UNCHANGED <<provider, bucket, namespace, uploading>>,
         namespace[n] # "absent", \A b \in now : bucket[b] # "absent",
         \A s \in uploading : s[1] = n => s[2] \in now,
         now \ since \in TargetSets \cup {{}},
         \A i \in Jobs \ {j} : JobAt(i, "replacing") /\ JobOn(i, n) => now \ job[i].gone \subseteq since
  PROVE  InfrastructureInv'
<1>1. job' \in [Jobs -> ConnectionJobs] /\ \A i \in Jobs : job'[i] = job[i] \/ (i = j /\ job'[i] = NoJob)
  BY NoJobRow DEF InfrastructureInv, JobEnds
<1>2. RowsOK' BY DEF InfrastructureInv, RowsOK
<1>3. NothingDangles'
  BY DEF InfrastructureInv, RowsOK, NothingDangles, ProviderExists
<1>4. \A i \in Jobs : job'[i].at # "idle" => i # j /\ job'[i] = job[i]
  BY <1>1, NoJobRow DEF JobEnds, InfrastructureInv
<1>5. PoliciesHeld'
  <2>1. \A i \in Jobs : job'[i].at \in {"policy", "replacing"} => job'[i].buckets \in TargetSets
    BY <1>4 DEF InfrastructureInv, PoliciesHeld
  <2>2. \A m \in Namespaces : target'[m] \ appended'[m] \in TargetSets \cup {{}}
    BY DEF InfrastructureInv, RowsOK, PoliciesHeld
  <2>3. \A i \in Jobs, m \in Namespaces : job'[i].at = "replacing" /\ job'[i].on = {m} =>
          target'[m] \ job'[i].gone \subseteq appended'[m]
    BY <1>4 DEF InfrastructureInv, RowsOK, PoliciesHeld, JobAt, JobOn
  <2>4. \A h, i \in Jobs, m \in Namespaces :
          job'[h].at = "replacing" /\ job'[i].at = "replacing" /\ job'[h].on = {m} /\ job'[i].on = {m} => h = i
    BY <1>4 DEF InfrastructureInv, PoliciesHeld, JobAt, JobOn
  <2> QED BY <2>1, <2>2, <2>3, <2>4 DEF PoliciesHeld, JobAt, JobOn
<1> QED BY <1>1, <1>2, <1>3, <1>5 DEF InfrastructureInv

LEMMA PolicyTaken ==
  ASSUME InfrastructureInv, NEW j \in Jobs, NEW n \in Namespaces, UpdatePolicy(j, n)
  PROVE  InfrastructureInv'
<1>1. CASE JobRejected(j) BY <1>1, JobLeaves
<1>2. CASE job' = [job EXCEPT ![j].at = "replacing", ![j].gone = target[n]] /\ UNCHANGED Rows
  <2>1. job[j] \in ConnectionJobs /\ target[n] \in SUBSET BucketIds
    BY DEF InfrastructureInv, RowsOK
  <2>2. job' \in [Jobs -> ConnectionJobs] BY <1>2, <2>1 DEF InfrastructureInv, ConnectionJobs, JobSteps
  <2>3. /\ job'[j].at = "replacing" /\ job'[j].gone = target[n]
        /\ job'[j].on = {n} /\ job'[j].buckets \in TargetSets
    BY <1>2, <2>1
    DEF UpdatePolicy, JobOn, JobAt, InfrastructureInv, PoliciesHeld, ConnectionJobs
  <2>4. \A i \in Jobs \ {j} : job'[i] = job[i] BY <1>2 DEF InfrastructureInv
  <2>5. \A i \in Jobs : ~(job[i].at = "replacing" /\ job[i].on = {n})
    BY DEF UpdatePolicy, PolicyFree, JobAt, JobOn
  <2>6. target' = target /\ appended' = appended BY <1>2 DEF Rows
  <2>7. PoliciesHeld'
    <3>1. \A i \in Jobs : job'[i].at \in {"policy", "replacing"} => job'[i].buckets \in TargetSets
      BY <2>3, <2>4 DEF InfrastructureInv, PoliciesHeld
    <3>2. \A m \in Namespaces : target'[m] \ appended'[m] \in TargetSets \cup {{}}
      BY <2>6 DEF InfrastructureInv, PoliciesHeld
    <3>3. \A i \in Jobs, m \in Namespaces : job'[i].at = "replacing" /\ job'[i].on = {m} =>
            target'[m] \ job'[i].gone \subseteq appended'[m]
      BY <2>3, <2>4, <2>6 DEF InfrastructureInv, PoliciesHeld, JobAt, JobOn
    <3>4. \A h, i \in Jobs, m \in Namespaces :
            job'[h].at = "replacing" /\ job'[i].at = "replacing" /\ job'[h].on = {m} /\ job'[i].on = {m} => h = i
      BY <2>3, <2>4, <2>5 DEF InfrastructureInv, PoliciesHeld, JobAt, JobOn
    <3> QED BY <3>1, <3>2, <3>3, <3>4 DEF PoliciesHeld, JobAt, JobOn
  <2> QED BY <1>2, <2>2, <2>7 DEF InfrastructureInv, RowsOK, Rows, NothingDangles, ProviderExists
<1> QED BY <1>1, <1>2 DEF UpdatePolicy

LEMMA TargetsReplaced ==
  ASSUME InfrastructureInv, NEW j \in Jobs, NEW n \in Namespaces, ReplaceTargets(j, n)
  PROVE  InfrastructureInv'
<1> DEFINE left == target[n] \ job[j].gone
           asked == job[j].buckets
<1>1. CASE JobRejected(j) BY <1>1, JobLeaves
<1>2. CASE ~JobRejected(j)
  <2>1. /\ namespace[n] # "absent" /\ Known(asked) /\ left \cap asked = {}
        /\ ~TargetsReferred(n, job[j].gone)
        /\ target' = [target EXCEPT ![n] = left \cup asked]
        /\ appended' = [appended EXCEPT ![n] = appended[n] \cap left]
        /\ UNCHANGED <<provider, bucket, namespace, uploading>> /\ JobEnds(j)
    BY <1>2 DEF ReplaceTargets, JobEither, InfrastructureInv, RowsOK
  <2>2. /\ job[j] \in ConnectionJobs /\ target[n] \in SUBSET BucketIds
        /\ appended[n] \in SUBSET BucketIds
    BY DEF InfrastructureInv, RowsOK
  <2>3. asked \in TargetSets /\ asked \in SUBSET BucketIds /\ left \subseteq appended[n]
    BY <2>2 DEF ReplaceTargets, JobAt, JobOn, InfrastructureInv, PoliciesHeld, ConnectionJobs
  <2>4. \A b \in left \cup asked : bucket[b] # "absent"
    BY <2>1, <2>2 DEF Known, InfrastructureInv, NothingDangles
  <2>5. \A s \in uploading : s[1] = n => s[2] \in left \cup asked
    <3> SUFFICES ASSUME NEW s \in uploading, s[1] = n PROVE s[2] \in left
      OBVIOUS
    <3>1. s[2] \in target[n] /\ s = <<n, s[2]>>
      BY DEF InfrastructureInv, RowsOK, NothingDangles
    <3>2. s[2] \notin job[j].gone BY <2>1, <3>1 DEF TargetsReferred
    <3> QED BY <3>1, <3>2
  <2>6. (left \cup asked) \ (appended[n] \cap left) = asked BY <2>1, <2>3
  <2>7. \A i \in Jobs \ {j} : ~(JobAt(i, "replacing") /\ JobOn(i, n))
    BY DEF ReplaceTargets, InfrastructureInv, PoliciesHeld
  <2> DEFINE now == left \cup asked
             since == appended[n] \cap left
  <2>8. now \in SUBSET BucketIds /\ since \in SUBSET BucketIds BY <2>2, <2>3
  <2>9. now \ since \in TargetSets \cup {{}} BY <2>3, <2>6
  <2>10. target' = [target EXCEPT ![n] = now] /\ appended' = [appended EXCEPT ![n] = since] BY <2>1
  <2>11. (\A b \in now : bucket[b] # "absent") /\ (\A s \in uploading : s[1] = n => s[2] \in now)
    BY <2>4, <2>5
  <2>12. \A i \in Jobs \ {j} : JobAt(i, "replacing") /\ JobOn(i, n) => now \ job[i].gone \subseteq since
    BY <2>7
  <2>13. namespace[n] # "absent" /\ UNCHANGED <<provider, bucket, namespace, uploading>> /\ JobEnds(j)
    BY <2>1
  <2> HIDE DEF now, since
  <2> QED BY <2>8, <2>9, <2>10, <2>11, <2>12, <2>13, TargetsChange
<1> QED BY <1>1, <1>2

LEMMA TargetAdded ==
  ASSUME InfrastructureInv, NEW j \in Jobs, NEW n \in Namespaces, AddTarget(j, n)
  PROVE  InfrastructureInv'
<1> DEFINE asked == job[j].buckets
           now == target[n] \cup asked
           since == appended[n] \cup asked
<1>1. CASE JobRejected(j) BY <1>1, JobLeaves
<1>2. CASE ~JobRejected(j)
  <2>1. /\ namespace[n] # "absent" /\ Known(asked) /\ asked \cap target[n] = {}
        /\ target' = [target EXCEPT ![n] = now] /\ appended' = [appended EXCEPT ![n] = since]
        /\ UNCHANGED <<provider, bucket, namespace, uploading>> /\ JobEnds(j)
    BY <1>2 DEF AddTarget, JobEither, InfrastructureInv, RowsOK
  <2>2. /\ job[j] \in ConnectionJobs /\ target[n] \in SUBSET BucketIds
        /\ appended[n] \in SUBSET BucketIds
    BY DEF InfrastructureInv, RowsOK
  <2>3. now \in SUBSET BucketIds /\ since \in SUBSET BucketIds BY <2>2 DEF ConnectionJobs
  <2>4. \A b \in now : bucket[b] # "absent"
    BY <2>1, <2>2 DEF Known, InfrastructureInv, NothingDangles
  <2>5. \A s \in uploading : s[1] = n => s[2] \in now
    BY DEF InfrastructureInv, RowsOK, NothingDangles
  <2>6. now \ since = target[n] \ appended[n] BY <2>1
  <2>7. now \ since \in TargetSets \cup {{}} BY <2>6 DEF InfrastructureInv, PoliciesHeld
  <2>8. \A i \in Jobs \ {j} : JobAt(i, "replacing") /\ JobOn(i, n) => now \ job[i].gone \subseteq since
    BY DEF InfrastructureInv, PoliciesHeld
  <2> HIDE DEF now, since, asked
  <2> QED BY <2>1, <2>3, <2>4, <2>5, <2>7, <2>8, TargetsChange
<1> QED BY <1>1, <1>2

LEMMA NamespaceJobKeeps ==
  ASSUME InfrastructureInv, NEW j \in Jobs, NamespaceJob(j)
  PROVE  InfrastructureInv'
<1>0. PICK n \in Namespaces :
        \/ CreateNamespace(j, n) \/ DeleteNamespaceRoute(j, n) \/ DeleteNamespace(j, n)
        \/ \E status \in {"ACTIVE", "DISABLED"} : UpdateNamespace(j, n, status)
        \/ \E buckets \in TargetSets : PutPolicy(j, n, buckets)
        \/ UpdatePolicy(j, n) \/ ReplaceTargets(j, n) \/ AddTarget(j, n) \/ OpenUpload(j, n)
        \/ \E b \in BucketIds : PostTarget(j, n, b) \/ PlaceUpload(j, n, b)
  BY DEF NamespaceJob
\* Another status, which is not that of a row that is gone.
<1>a. ASSUME NEW status \in {"ACTIVE", "DISABLED"}, namespace' = [namespace EXCEPT ![n] = status],
             UNCHANGED <<provider, bucket, target, uploading, appended, job>>
      PROVE  InfrastructureInv'
  <2>1. PoliciesHeld' /\ job' \in [Jobs -> ConnectionJobs] BY <1>a, PoliciesUntouched
  <2>2. RowsOK' BY <1>a DEF InfrastructureInv, RowsOK, ConnectionStates
  <2>3. NothingDangles' BY <1>a DEF InfrastructureInv, RowsOK, NothingDangles, ProviderExists
  <2> QED BY <2>1, <2>2, <2>3 DEF InfrastructureInv
<1>1. CASE CreateNamespace(j, n) BY <1>1, <1>a DEF CreateNamespace
<1>2. CASE \E status \in {"ACTIVE", "DISABLED"} : UpdateNamespace(j, n, status)
  BY <1>2, <1>a DEF UpdateNamespace
<1>3. CASE \/ DeleteNamespaceRoute(j, n) \/ \E buckets \in TargetSets : PutPolicy(j, n, buckets)
           \/ \E b \in BucketIds : PostTarget(j, n, b) \/ PlaceUpload(j, n, b)
  <2>1. PICK step \in {"delete namespace", "policy", "target", "place"}, buckets \in SUBSET BucketIds :
          JobBegins(j, step, n, buckets) /\ (step = "policy" => buckets \in TargetSets)
    <3>1. CASE DeleteNamespaceRoute(j, n)
      <4>1. JobBegins(j, "delete namespace", n, {}) BY <3>1 DEF DeleteNamespaceRoute
      <4>2. {} \in SUBSET BucketIds /\ "delete namespace" # "policy" OBVIOUS
      <4> QED BY <4>1, <4>2 DEF JobBegins
    <3>2. CASE \E buckets \in TargetSets : PutPolicy(j, n, buckets)
      BY <3>2, InfrastructureAssumption DEF PutPolicy
    <3>3. CASE \E b \in BucketIds : PostTarget(j, n, b) \/ PlaceUpload(j, n, b)
      <4>1. PICK b \in BucketIds : PostTarget(j, n, b) \/ PlaceUpload(j, n, b) BY <3>3
      <4>2. {b} \in SUBSET BucketIds OBVIOUS
      <4> QED BY <4>1, <4>2 DEF PostTarget, PlaceUpload
    <3> QED BY <1>3, <3>1, <3>2, <3>3
  <2>2. step \in JobSteps \ {"replacing"} BY DEF JobSteps
  <2>3. n \in Providers \cup Namespaces \cup BucketIds OBVIOUS
  <2> QED BY <2>1, <2>2, <2>3, JobStarts
<1>4. CASE DeleteNamespace(j, n)
  <2>1. CASE JobRejected(j) BY <2>1, JobLeaves
  <2>2. CASE ~JobRejected(j)
    <3>1. /\ ~NamespaceReferred(n) /\ namespace' = [namespace EXCEPT ![n] = "absent"]
          /\ target' = [target EXCEPT ![n] = {}] /\ appended' = [appended EXCEPT ![n] = {}]
          /\ UNCHANGED <<provider, bucket, uploading>> /\ JobEnds(j)
      BY <1>4, <2>2 DEF DeleteNamespace, JobEither
    <3>2. RowsOK' BY <3>1 DEF InfrastructureInv, RowsOK, ConnectionStates
    <3>3. NothingDangles'
      BY <3>1 DEF InfrastructureInv, RowsOK, NothingDangles, ProviderExists, NamespaceReferred
    <3>4. job' \in [Jobs -> ConnectionJobs]
      BY <3>1, NoJobRow DEF InfrastructureInv, JobEnds
    <3>5. PoliciesHeld'
      BY <3>1, NoJobRow DEF InfrastructureInv, RowsOK, PoliciesHeld, JobEnds, JobAt, JobOn
    <3> QED BY <3>2, <3>3, <3>4, <3>5 DEF InfrastructureInv
  <2> QED BY <2>1, <2>2
<1>5. CASE OpenUpload(j, n)
  <2>1. CASE JobRejected(j) BY <2>1, JobLeaves
  <2>2. CASE ~JobRejected(j)
    <3>1. /\ \A b \in job[j].buckets : Placeable(n, b)
          /\ uploading' = uploading \cup {<<n, b>> : b \in job[j].buckets}
          /\ UNCHANGED <<provider, bucket, namespace, target, appended>> /\ JobEnds(j)
      BY <1>5, <2>2 DEF OpenUpload, JobEither
    <3>2. PoliciesHeld' /\ job' \in [Jobs -> ConnectionJobs] BY <3>1, PoliciesUntouched
    <3>3. job[j].buckets \subseteq BucketIds BY DEF InfrastructureInv, ConnectionJobs
    <3>4. RowsOK' BY <3>1, <3>3 DEF InfrastructureInv, RowsOK
    <3>5. NothingDangles'
      BY <3>1, <3>3 DEF InfrastructureInv, RowsOK, NothingDangles, ProviderExists, Placeable
    <3> QED BY <3>2, <3>4, <3>5 DEF InfrastructureInv
  <2> QED BY <2>1, <2>2
<1> QED BY <1>0, <1>1, <1>2, <1>3, <1>4, <1>5, PolicyTaken, TargetsReplaced, TargetAdded

LEMMA InfrastructureStep ==
  ASSUME InfrastructureInv, [InfrastructureNext]_infrastructure
  PROVE  InfrastructureInv'
<1>1. CASE \E j \in Jobs : ProviderJob(j) \/ BucketJob(j) \/ NamespaceJob(j)
  BY <1>1, ProviderJobKeeps, BucketJobKeeps, NamespaceJobKeeps
<1>2. CASE \E s \in uploading : PruneUpload(s)
  <2>1. uploading' \subseteq uploading /\ UNCHANGED <<provider, bucket, namespace, target, appended, job>>
    BY <1>2 DEF PruneUpload
  <2>2. PoliciesHeld' /\ job' \in [Jobs -> ConnectionJobs] BY <2>1, PoliciesUntouched
  <2>3. RowsOK' BY <2>1 DEF InfrastructureInv, RowsOK
  <2>4. NothingDangles' BY <2>1 DEF InfrastructureInv, NothingDangles, ProviderExists
  <2> QED BY <2>2, <2>3, <2>4 DEF InfrastructureInv
<1>3. CASE UNCHANGED infrastructure
  BY <1>3
  DEF infrastructure, InfrastructureInv, RowsOK, NothingDangles, ProviderExists, PoliciesHeld, JobAt, JobOn
<1> QED BY <1>1, <1>2, <1>3 DEF InfrastructureNext

LEMMA InfrastructureTyped == InfrastructureSpec => []InfrastructureOK
<1>1. InfrastructureInv => InfrastructureOK
  BY DEF InfrastructureInv, RowsOK, ConnectionJobs, InfrastructureOK
<1> QED BY <1>1, InfrastructureStart, InfrastructureStep, PTL DEF InfrastructureSpec

\* Whatever is deleted while it is checked or referred to, no bucket, target or
\* upload session of the schema is left pointing at a row that is gone.
THEOREM NothingLeftDangling == InfrastructureSpec => []NothingDangles
<1>1. InfrastructureInv => NothingDangles BY DEF InfrastructureInv
<1> QED BY <1>1, InfrastructureStart, InfrastructureStep, PTL DEF InfrastructureSpec

\* Placement policies that several requests replace and extend at the same time
\* are those of one request, and what was added since.
THEOREM PoliciesDoNotMix == InfrastructureSpec => []PolicyIsOneRequest
<1>1. InfrastructureInv => PolicyIsOneRequest
  BY DEF InfrastructureInv, PoliciesHeld, PolicyIsOneRequest
<1> QED BY <1>1, InfrastructureStart, InfrastructureStep, PTL DEF InfrastructureSpec

-----------------------------------------------------------------------------
(* Credentials *)

LEMMA MinIsIn ==
  ASSUME NEW S \in SUBSET Nat, S # {}
  PROVE  Min(S) \in S /\ \A y \in S : Min(S) =< y
BY LeastNumber DEF Min

\* The rows the script holds are those it read, as the API last wrote them or raced.
RowsHeld ==
  \A i \in rotation.page : /\ rotation.read[i].key = rotation.read[i].label
                           /\ rotation.read[i].payload = latest[i] \/ i \in raced

RotationOK ==
  rotation \in [at : {"idle", "running", "done"}, cursor : {rotation.cursor}, page : SUBSET Ids,
                read : [Ids -> Envelopes], clean : BOOLEAN]

KeysInv ==
  /\ sealed \in [Ids -> Envelopes] /\ latest \in [Ids -> 0 .. MaxPayload] /\ RotationOK
  /\ \A i \in Ids : sealed[i].key = sealed[i].label
  /\ \A i \in Ids : CredentialRow(i) => sealed[i].payload = latest[i] \/ i \in raced
  /\ RowsHeld

LEMMA NoRotationOK ==
  /\ MaxPayload \in Nat /\ NoEnvelope \in Envelopes
  /\ NoEnvelope.key = NoEnvelope.label /\ NoEnvelope.payload = 0
  /\ NoRotation.page = {} /\ NoRotation \in
       [at : {"idle"}, cursor : {0}, page : {{}}, read : [Ids -> Envelopes], clean : BOOLEAN]
BY CredentialKeysAssumption DEF NoEnvelope, Envelopes, KeyNames, NoRotation

LEMMA KeysStart == CredentialKeysInit => KeysInv
BY NoRotationOK DEF CredentialKeysInit, KeysInv, RotationOK, RowsHeld, CredentialRow

LEMMA KeysKeep == ASSUME KeysInv, [CredentialKeysNext]_credentialKeys PROVE KeysInv'
<1> USE NoRotationOK
<1>1. ASSUME NEW i \in Ids, WriteCredential(i) PROVE KeysInv'
  <2>1. Min(Unwritten) \in 1 .. MaxPayload
    <3>1. Unwritten \in SUBSET Nat /\ Unwritten # {} BY <1>1 DEF WriteCredential, Unwritten
    <3> QED BY <3>1, MinIsIn DEF Unwritten
  <2>2. /\ latest' = [latest EXCEPT ![i] = Min(Unwritten)] /\ latest'[i] = Min(Unwritten)
        /\ sealed' = [sealed EXCEPT ![i] = [payload |-> latest'[i], key |-> OldKey, label |-> OldKey]]
        /\ raced' = raced \cup ({i} \cap rotation.page) /\ rotation' = rotation
    BY <1>1 DEF WriteCredential, Encrypt, KeysInv
  <2>3. sealed' \in [Ids -> Envelopes] /\ latest' \in [Ids -> 0 .. MaxPayload]
    BY <2>1, <2>2 DEF KeysInv, Envelopes, KeyNames
  <2>4. RotationOK' BY <2>2 DEF KeysInv, RotationOK
  <2>5. RowsHeld' BY <2>2 DEF KeysInv, RowsHeld, RotationOK
  <2> QED BY <2>2, <2>3, <2>4, <2>5 DEF KeysInv, CredentialRow
<1>2. ASSUME NEW i \in Ids, DeleteCredential(i) PROVE KeysInv'
  <2>1. sealed' = [sealed EXCEPT ![i] = NoEnvelope] /\ UNCHANGED <<latest, rotation, raced>>
    BY <1>2 DEF DeleteCredential
  <2>2. RotationOK' /\ RowsHeld' BY <2>1 DEF KeysInv, RotationOK, RowsHeld
  <2>3. ~CredentialRow(i)' BY <2>1 DEF KeysInv, CredentialRow
  <2> QED BY <2>1, <2>2, <2>3 DEF KeysInv, CredentialRow
<1>3. ASSUME NEW i \in Ids, Rotated(i) PROVE KeysInv'
  <2> DEFINE old == rotation.read[i]
  <2>1. rotation.page \in SUBSET Nat /\ rotation.page # {} /\ old \in Envelopes
    BY <1>3, CredentialKeysAssumption DEF Rotated, KeysInv, RotationOK
  <2>2. i \in rotation.page BY <1>3, <2>1, MinIsIn DEF Rotated
  <2>3. old.key = old.label /\ (old.payload = latest[i] \/ i \in raced)
    BY <2>2 DEF KeysInv, RowsHeld
  <2>4. /\ rotation'.page = rotation.page \ {i} /\ rotation'.read = rotation.read
        /\ RotationOK' /\ UNCHANGED <<latest, raced>>
    BY <1>3 DEF Rotated, KeysInv, RotationOK
  <2>5. RowsHeld' BY <2>4 DEF KeysInv, RowsHeld
  <2>6. \/ sealed' = sealed
        \/ sealed' = [sealed EXCEPT ![i] = [payload |-> old.payload, key |-> NewKey, label |-> NewKey]]
    BY <1>3 DEF Rotated, Encrypt
  <2>7. [payload |-> old.payload, key |-> NewKey, label |-> NewKey] \in Envelopes
    BY <2>1 DEF Envelopes, KeyNames
  <2>8. \A k \in Ids : k # i => sealed'[k] = sealed[k] BY <2>6 DEF KeysInv
  <2>9. /\ sealed' \in [Ids -> Envelopes] /\ sealed'[i].key = sealed'[i].label
        /\ sealed'[i] = sealed[i] \/ sealed'[i].payload = old.payload
    BY <2>6, <2>7 DEF KeysInv
  <2> HIDE DEF old
  <2> QED BY <2>3, <2>4, <2>5, <2>8, <2>9 DEF KeysInv, CredentialRow
<1>4. CASE StartRotation \/ StopRotation
  <2>1. /\ UNCHANGED <<sealed, latest, raced>> /\ rotation'.page = {}
        /\ rotation' = NoRotation \/ rotation' = [NoRotation EXCEPT !.at = "running"]
    BY <1>4 DEF StartRotation, StopRotation
  <2>2. RotationOK' BY <2>1 DEF RotationOK
  <2> QED BY <2>1, <2>2 DEF KeysInv, RowsHeld, CredentialRow
<1>5. CASE ReadPage
  <2>1. UNCHANGED <<sealed, latest, raced>> /\ rotation.page = {} BY <1>5 DEF ReadPage
  <2>2. CASE rotation' = [rotation EXCEPT !.at = "done"]
    <3>1. RotationOK' /\ rotation'.page = {} BY <2>1, <2>2 DEF KeysInv, RotationOK
    <3> QED BY <2>1, <3>1 DEF KeysInv, RowsHeld, CredentialRow
  <2>3. ASSUME NEW page, page \subseteq {k \in Ids : CredentialRow(k)},
               rotation' = [rotation EXCEPT !.cursor = Max(page), !.page = page, !.read = sealed]
        PROVE  KeysInv'
    <3>1. RotationOK' /\ rotation'.page = page /\ rotation'.read = sealed
      BY <2>3 DEF KeysInv, RotationOK
    <3>2. RowsHeld' BY <2>1, <2>3, <3>1 DEF KeysInv, RowsHeld
    <3> QED BY <2>1, <3>1, <3>2 DEF KeysInv, CredentialRow
  <2> DEFINE rest == IF rotation.cursor = 0 THEN {k \in Ids : CredentialRow(k)}
                       ELSE AfterCursor(rotation.cursor)
  <2>4. FirstOf(rest) \subseteq {k \in Ids : CredentialRow(k)} BY DEF FirstOf, AfterCursor
  <2> QED BY <1>5, <2>2, <2>3, <2>4 DEF ReadPage
<1>6. CASE UNCHANGED credentialKeys
  BY <1>6 DEF credentialKeys, KeysInv, RotationOK, RowsHeld, CredentialRow
<1> QED BY <1>1, <1>2, <1>3, <1>4, <1>5, <1>6 DEF CredentialKeysNext

\* Whatever page the script holds when it stops or the API writes, every credential
\* opens, and only one the API wrote meanwhile can be an older one.
THEOREM CredentialsStayOpen == CredentialKeysSpec => []CredentialsOpen
<1>1. KeysInv => CredentialsOpen
  BY DEF KeysInv, CredentialsOpen, Opens, Envelopes
<1> QED BY <1>1, KeysStart, KeysKeep, PTL DEF CredentialKeysSpec

-----------------------------------------------------------------------------
(* The old key after a rotation *)

LEMMA MaxIsIn ==
  ASSUME NEW S \in SUBSET Ids, S # {}
  PROVE  Max(S) \in S /\ \A y \in S : y =< Max(S)
<1> DEFINE Above(x) == {k \in S : x < k}
           T == {Cardinality(Above(x)) : x \in S}
<1>0. S \subseteq Nat BY CredentialKeysAssumption
<1>1. \A x \in S : IsFiniteSet(Above(x)) /\ Cardinality(Above(x)) \in Nat
  <2>1. IsFiniteSet(S) BY CredentialKeysAssumption, FS_Subset
  <2> SUFFICES ASSUME NEW x \in S PROVE IsFiniteSet(Above(x)) /\ Cardinality(Above(x)) \in Nat OBVIOUS
  <2>2. Above(x) \subseteq S OBVIOUS
  <2> HIDE DEF Above
  <2> QED BY <2>1, <2>2, FS_Subset, FS_CardinalityType
<1>2. T \in SUBSET Nat /\ T # {} BY <1>1
<1>3. Min(T) \in T /\ \A n \in T : Min(T) =< n
  <2> HIDE DEF T
  <2> QED BY <1>2, MinIsIn
<1>4. PICK x \in S : \A y \in S : Cardinality(Above(x)) =< Cardinality(Above(y)) BY <1>3
<1>5. ASSUME NEW y \in S PROVE y =< x
  <2>0. x \in Nat /\ y \in Nat /\ \A k \in S : k \in Nat BY <1>0
  <2>1. SUFFICES ASSUME x < y PROVE FALSE BY <2>0
  <2>l. (\A k \in S : y < k => x < k) /\ ~(y < y) BY <2>0, <2>1
  <2>2. Above(y) \subseteq Above(x) /\ y \in Above(x) /\ y \notin Above(y) BY <2>1, <2>l, Zenon
  <2> HIDE DEF Above
  <2>3. Cardinality(Above(y)) < Cardinality(Above(x)) BY <1>1, <2>2, FS_Subset
  <2> QED BY <1>1, <1>4, <2>3
<1> QED BY <1>5 DEF Max

\* A page has no gaps, and is empty only when nothing is left.
LEMMA PageIsInitial ==
  ASSUME NEW rows \in SUBSET Ids
  PROVE  /\ \A m \in FirstOf(rows), i \in rows : i =< m => i \in FirstOf(rows)
         /\ FirstOf(rows) = {} => rows = {}
<1> DEFINE Below(i) == {j \in rows : j < i}
<1>0. rows \subseteq Nat /\ BatchSize \in Nat \ {0} BY CredentialKeysAssumption
<1>1. \A i \in rows : IsFiniteSet(Below(i)) /\ Cardinality(Below(i)) \in Nat
  <2>1. IsFiniteSet(rows) BY CredentialKeysAssumption, FS_Subset
  <2> SUFFICES ASSUME NEW i \in rows PROVE IsFiniteSet(Below(i)) /\ Cardinality(Below(i)) \in Nat OBVIOUS
  <2>2. Below(i) \subseteq rows OBVIOUS
  <2> HIDE DEF Below
  <2> QED BY <2>1, <2>2, FS_Subset, FS_CardinalityType
<1>2. FirstOf(rows) = {i \in rows : Cardinality(Below(i)) < BatchSize} BY DEF FirstOf
<1>3. ASSUME NEW m \in FirstOf(rows), NEW i \in rows, i =< m PROVE i \in FirstOf(rows)
  <2>1. m \in rows /\ Cardinality(Below(m)) < BatchSize BY <1>2
  <2>l. \A j \in rows : j < i => j < m
    <3>1. i \in Nat /\ m \in Nat /\ \A j \in rows : j \in Nat BY <1>0, <2>1
    <3> QED BY <1>3, <3>1
  <2>2. Below(i) \subseteq Below(m) BY <2>l, Zenon
  <2> HIDE DEF Below
  <2>3. Cardinality(Below(i)) =< Cardinality(Below(m)) BY <1>1, <2>1, <2>2, FS_Subset
  <2> QED BY <1>0, <1>1, <1>2, <2>1, <2>3
<1>4. ASSUME rows # {} PROVE FirstOf(rows) # {}
  <2>1. Min(rows) \in rows /\ \A j \in rows : Min(rows) =< j BY <1>0, <1>4, MinIsIn
  <2>l. \A j \in rows : ~(j < Min(rows))
    <3>1. Min(rows) \in Nat /\ \A j \in rows : j \in Nat BY <1>0, <2>1
    <3> QED BY <2>1, <3>1
  <2>2. Below(Min(rows)) = {} BY <2>l, Zenon
  <2>3. Cardinality(Below(Min(rows))) = 0 BY <2>2, FS_EmptySet
  <2> QED BY <1>0, <1>2, <2>1, <2>3
<1> QED BY <1>3, <1>4

\* A credential was deleted since the script began.
Gone == \E i \in touched : ~CredentialRow(i)

\* The API has written every row there is or was.
RowsWritten == \A i \in Ids : CredentialRow(i) \/ i \in touched => latest[i] > 0

CursorOK ==
  /\ rotation.cursor \in Nat
  /\ rotation.cursor > 0 =>
       rotation.cursor \in Ids /\ (CredentialRow(rotation.cursor) \/ rotation.cursor \in touched)
  /\ \A i \in rotation.page : rotation.read[i].payload > 0

\* A row that the script holds is as it was read; one it has passed is rotated.
Passed(i) == rotation.at = "done" \/ (i \notin rotation.page /\ rotation.cursor > 0 /\ i =< rotation.cursor)
RowsPassed ==
  rotation.at # "idle" /\ rotation.clean /\ ~Gone =>
    \A i \in Ids \ touched : CredentialRow(i) =>
      /\ i \in rotation.page => sealed[i] = rotation.read[i]
      /\ Passed(i) => sealed[i].label = NewKey

RetireInv == KeysInv /\ touched \subseteq Ids /\ RowsWritten /\ CursorOK /\ RowsPassed

LEMMA RetireStart == CredentialKeysInit => RetireInv
<1> SUFFICES ASSUME CredentialKeysInit PROVE RetireInv OBVIOUS
<1>1. rotation.cursor = 0 /\ rotation.page = {} /\ rotation.at = "idle" BY DEF CredentialKeysInit, NoRotation
<1>2. touched = {} /\ \A i \in Ids : ~CredentialRow(i)
  BY NoRotationOK DEF CredentialKeysInit, CredentialRow
<1> QED BY <1>1, <1>2, KeysStart DEF RetireInv, RowsWritten, CursorOK, RowsPassed

LEMMA RetireKeeps == ASSUME RetireInv, [CredentialKeysNext]_credentialKeys PROVE RetireInv'
<1> USE NoRotationOK
<1>0. KeysInv' /\ Ids \subseteq Nat BY KeysKeep, CredentialKeysAssumption DEF RetireInv
<1>1. ASSUME NEW i \in Ids, WriteCredential(i) PROVE RetireInv'
  <2>1. Min(Unwritten) \in 1 .. MaxPayload
    <3>1. Unwritten \in SUBSET Nat /\ Unwritten # {} BY <1>1 DEF WriteCredential, Unwritten
    <3> QED BY <3>1, MinIsIn DEF Unwritten
  <2>2. /\ latest' = [latest EXCEPT ![i] = Min(Unwritten)] /\ latest'[i] = Min(Unwritten)
        /\ sealed' = [sealed EXCEPT ![i] = Encrypt(latest'[i], OldKey, sealed[i])]
        /\ touched' = touched \cup {i} /\ rotation' = rotation
        /\ CredentialRow(i) \/ latest[i] = 0
    BY <1>1 DEF WriteCredential, RetireInv, KeysInv
  <2>3. CredentialRow(i)' BY <2>1, <2>2 DEF CredentialRow, Encrypt, RetireInv, KeysInv
  <2>4. \A k \in Ids : k # i => sealed'[k] = sealed[k] /\ latest'[k] = latest[k]
    BY <2>2 DEF RetireInv, KeysInv
  <2>5. RowsWritten' BY <2>1, <2>2, <2>4 DEF RetireInv, RowsWritten, CredentialRow
  <2>6. CursorOK' BY <2>2, <2>3, <2>4 DEF RetireInv, CursorOK, CredentialRow
  <2>7. Gone => Gone'
    <3>1. ASSUME NEW j \in touched, ~CredentialRow(j) PROVE j # i
      BY <2>2, <3>1 DEF RetireInv, RowsWritten
    <3> QED BY <2>2, <2>4, <3>1 DEF Gone, CredentialRow, RetireInv
  <2>8. RowsPassed' BY <2>2, <2>4, <2>7 DEF RetireInv, RowsPassed, Passed, CredentialRow
  <2> QED BY <1>0, <2>2, <2>5, <2>6, <2>8 DEF RetireInv
<1>2. ASSUME NEW i \in Ids, DeleteCredential(i) PROVE RetireInv'
  <2>1. /\ sealed' = [sealed EXCEPT ![i] = NoEnvelope] /\ UNCHANGED <<latest, rotation>>
        /\ touched' = touched \cup {i} /\ CredentialRow(i)
    BY <1>2 DEF DeleteCredential
  <2>2. ~CredentialRow(i)' BY <2>1 DEF RetireInv, KeysInv, CredentialRow
  <2>3. \A k \in Ids : k # i => sealed'[k] = sealed[k] BY <2>1 DEF RetireInv, KeysInv
  <2>4. RowsWritten' BY <2>1, <2>2, <2>3 DEF RetireInv, RowsWritten, CredentialRow
  <2>5. CursorOK' BY <2>1, <2>3 DEF RetireInv, CursorOK, CredentialRow
  <2>6. Gone' BY <2>1, <2>2 DEF Gone
  <2> QED BY <1>0, <2>1, <2>4, <2>5, <2>6 DEF RetireInv, RowsPassed
<1>3. ASSUME NEW i \in Ids, Rotated(i) PROVE RetireInv'
  <2> DEFINE old == rotation.read[i]
             writes == old.label # NewKey /\ Opens(old, KeyNames) /\ CredentialRow(i) /\ sealed[i].label = old.label
  <2>1. /\ rotation'.at = rotation.at /\ rotation'.cursor = rotation.cursor /\ rotation'.read = rotation.read
        /\ rotation'.page = rotation.page \ {i} /\ rotation.at = "running"
        /\ rotation'.clean => rotation.clean /\ (old.label = NewKey \/ writes)
        /\ UNCHANGED <<latest, touched>>
    BY <1>3 DEF Rotated, RetireInv, KeysInv, RotationOK
  <2>2. sealed' = IF writes THEN [sealed EXCEPT ![i] = Encrypt(old.payload, NewKey, old)] ELSE sealed
    BY <1>3 DEF Rotated
  <2>3. /\ \A k \in Ids : k # i => sealed'[k] = sealed[k]
        /\ writes => sealed'[i] = Encrypt(old.payload, NewKey, old) /\ CredentialRow(i)
        /\ ~writes => sealed'[i] = sealed[i]
    BY <2>2 DEF RetireInv, KeysInv
  <2>p. i \in rotation.page
    <3>1. rotation.page \in SUBSET Nat /\ rotation.page # {} /\ i = Min(rotation.page)
      BY <1>0, <1>3 DEF Rotated, RetireInv, KeysInv, RotationOK
    <3> QED BY <3>1, MinIsIn
  <2> HIDE DEF writes, old
  <2>4. \A k \in Ids : CredentialRow(k)' => CredentialRow(k) BY <2>3 DEF CredentialRow
  <2>5. RowsWritten' BY <2>1, <2>4 DEF RetireInv, RowsWritten
  <2>e. ASSUME writes PROVE CredentialRow(i)' \/ i \notin touched \/ Gone'
    BY <2>1 DEF Gone
  <2>6. CursorOK'
    <3>1. CASE rotation.cursor # i BY <2>1, <2>3, <3>1 DEF RetireInv, CursorOK, CredentialRow
    <3>2. CASE rotation.cursor = i /\ ~writes BY <2>1, <2>3, <3>2 DEF RetireInv, CursorOK, CredentialRow
    <3>3. CASE rotation.cursor = i /\ writes
      <4>1. old.payload > 0 BY <2>p DEF RetireInv, CursorOK, old
      <4>2. CredentialRow(i)' BY <2>3, <3>3, <4>1 DEF CredentialRow, Encrypt
      <4> QED BY <2>1, <3>3, <4>2 DEF RetireInv, CursorOK
    <3> QED BY <3>1, <3>2, <3>3
  <2>7. RowsPassed'
    <3> SUFFICES ASSUME rotation'.clean, ~Gone', NEW k \in Ids \ touched, CredentialRow(k)'
                 PROVE  /\ k \in rotation'.page => sealed'[k] = rotation'.read[k]
                        /\ Passed(k)' => sealed'[k].label = NewKey
      BY <2>1 DEF RowsPassed
    <3>1. ~Gone BY <2>1, <2>4 DEF Gone, RetireInv
    <3>2. /\ k \in rotation.page => sealed[k] = rotation.read[k]
          /\ Passed(k) => sealed[k].label = NewKey
      BY <2>1, <2>4, <3>1 DEF RetireInv, RowsPassed
    <3>3. CASE k # i
      <4>1. sealed'[k] = sealed[k] /\ (k \in rotation'.page <=> k \in rotation.page) /\ (Passed(k)' <=> Passed(k))
        BY <2>1, <2>3, <3>3 DEF Passed
      <4> QED BY <2>1, <3>2, <4>1
    <3>4. CASE k = i
      <4>1. sealed[i] = old BY <2>p, <3>2, <3>4 DEF old
      <4>2. sealed'[i].label = NewKey
        <5>1. CASE writes BY <2>3, <5>1 DEF Encrypt
        <5>2. CASE ~writes BY <2>1, <2>3, <4>1, <5>2
        <5> QED BY <5>1, <5>2
      <4> QED BY <2>1, <3>4, <4>2
    <3> QED BY <3>3, <3>4
  <2> QED BY <1>0, <2>1, <2>5, <2>6, <2>7 DEF RetireInv
<1>4. CASE StartRotation \/ StopRotation
  <2>1. /\ UNCHANGED <<sealed, latest>> /\ rotation'.page = {} /\ rotation'.cursor = 0
        /\ rotation'.at \in {"idle", "running"} /\ (touched' = touched \/ touched' = {})
    BY <1>4 DEF StartRotation, StopRotation, NoRotation
  <2>2. RowsWritten' BY <2>1 DEF RetireInv, RowsWritten, CredentialRow
  <2>3. CursorOK' /\ RowsPassed' BY <2>1 DEF CursorOK, RowsPassed, Passed
  <2> QED BY <1>0, <2>1, <2>2, <2>3 DEF RetireInv
<1>5. CASE ReadPage
  <2>1. UNCHANGED <<sealed, latest, touched>> /\ rotation.page = {} /\ rotation.at = "running"
    BY <1>5 DEF ReadPage
  <2>2. RowsWritten' BY <2>1 DEF RetireInv, RowsWritten, CredentialRow
  <2> DEFINE rest == IF rotation.cursor = 0 THEN {k \in Ids : CredentialRow(k)}
                       ELSE AfterCursor(rotation.cursor)
             page == FirstOf(rest)
  <2>3. /\ rest \in SUBSET Ids /\ page \subseteq rest /\ rest \subseteq {k \in Ids : CredentialRow(k)}
        /\ \A k \in Ids : CredentialRow(k) /\ (rotation.cursor = 0 \/ rotation.cursor < k) => k \in rest
    BY DEF AfterCursor, FirstOf
  <2>4. CASE (CursorLost \/ page = {}) /\ rotation' = [rotation EXCEPT !.at = "done"]
    <3>1. /\ rotation'.page = {} /\ rotation'.cursor = rotation.cursor /\ rotation'.clean = rotation.clean
      BY <2>1, <2>4 DEF RetireInv, KeysInv, RotationOK
    <3>2. CursorOK' BY <2>1, <3>1 DEF RetireInv, CursorOK, CredentialRow
    <3>3. RowsPassed'
      <4> SUFFICES ASSUME rotation.clean, ~Gone, NEW k \in Ids \ touched, CredentialRow(k)
                   PROVE  sealed[k].label = NewKey
        BY <2>1, <3>1 DEF RowsPassed, Gone, CredentialRow
      <4>1. ~CursorLost BY DEF CursorLost, RetireInv, CursorOK, Gone
      <4>2. page = {} BY <2>4, <4>1
      <4> HIDE DEF rest
      <4>3. k \notin rest BY <2>3, <4>2, PageIsInitial
      <4>4. rotation.cursor \in Nat BY DEF RetireInv, CursorOK
      <4>5. rotation.cursor > 0 /\ k =< rotation.cursor BY <1>0, <2>3, <4>3, <4>4
      <4> QED BY <2>1, <4>5 DEF RetireInv, RowsPassed, Passed
    <3> QED BY <1>0, <2>1, <2>2, <3>2, <3>3 DEF RetireInv
  <2>5. CASE page # {} /\ rotation' = [rotation EXCEPT !.cursor = Max(page), !.page = page, !.read = sealed]
    <3> HIDE DEF rest
    <3>1. /\ rotation'.page = page /\ rotation'.cursor = Max(page) /\ rotation'.clean = rotation.clean
          /\ rotation'.at = "running" /\ rotation'.read = sealed
      BY <2>1, <2>5 DEF RetireInv, KeysInv, RotationOK
    <3>2. Max(page) \in page /\ \A k \in page : k =< Max(page)
      <4>1. page \in SUBSET Ids BY <2>3
      <4> HIDE DEF page
      <4> QED BY <2>5, <4>1, MaxIsIn
    <3>3. CursorOK' BY <1>0, <2>1, <2>3, <3>1, <3>2 DEF CursorOK, CredentialRow
    <3>4. RowsPassed'
      <4> SUFFICES ASSUME rotation.clean, ~Gone, NEW k \in Ids \ touched, CredentialRow(k),
                          k \notin page, k =< Max(page)
                   PROVE  sealed[k].label = NewKey
        BY <2>1, <3>1 DEF RowsPassed, Gone, CredentialRow, Passed
      <4>1. k \notin rest BY <2>3, <3>2, PageIsInitial
      <4>2. rotation.cursor \in Nat BY DEF RetireInv, CursorOK
      <4>3. rotation.cursor > 0 /\ k =< rotation.cursor BY <1>0, <2>3, <4>1, <4>2
      <4> QED BY <2>1, <4>3 DEF RetireInv, RowsPassed, Passed
    <3> QED BY <1>0, <2>1, <2>2, <3>3, <3>4 DEF RetireInv
  <2> QED BY <1>5, <2>4, <2>5 DEF ReadPage
<1>6. CASE UNCHANGED credentialKeys
  BY <1>0, <1>6 DEF credentialKeys, RetireInv, RowsWritten, CursorOK, RowsPassed, Passed, Gone, CredentialRow
<1> QED BY <1>1, <1>2, <1>3, <1>4, <1>5, <1>6 DEF CredentialKeysNext

\* After a rotation without conflicts, failures or deletions, only what the API
\* wrote since it began still needs the old key, whatever the size of the pages.
THEOREM OldKeyIsRetired == CredentialKeysSpec => []OldKeyRetired
<1>1. RetireInv => OldKeyRetired
  BY DEF RetireInv, RowsPassed, OldKeyRetired, Gone, Passed
<1> QED BY <1>1, RetireStart, RetireKeeps, PTL DEF CredentialKeysSpec

LEMMA CredentialKeysTyped == CredentialKeysSpec => []CredentialKeysOK
<1>1. RetireInv /\ raced \subseteq Ids => CredentialKeysOK
  BY CredentialKeysAssumption DEF RetireInv, KeysInv, RotationOK, CursorOK, CredentialKeysOK
<1>2. CredentialKeysInit => raced \subseteq Ids BY DEF CredentialKeysInit
<1>3. raced \subseteq Ids /\ [CredentialKeysNext]_credentialKeys => (raced \subseteq Ids)'
  BY DEF CredentialKeysNext, credentialKeys, WriteCredential, DeleteCredential, Rotated, StartRotation,
         ReadPage, StopRotation
<1> QED BY <1>1, <1>2, <1>3, RetireStart, RetireKeeps, PTL DEF CredentialKeysSpec
=============================================================================

# Verification of the multi-object storage provider

Formal models of this repository in TLA+: what its storage core, its worker, its
gateway and its control plane do when requests, passes, object providers and the
database interleave, fail and restart; what must stay true all the while; and what
does not.  The small instances are checked with TLC, the theorems with TLAPS.

    tlc -workers 2 -config MCObjectStorage_uploads.cfg MCObjectStorage.tla
    tlapm ObjectStorageProofs.tla

`PROJECT.json` maps every definition to the lines it models and lists the runs,
the hazards, the findings, the theorems and, for each property, a wrong form of
the code that the property catches.

## 1. The system

The gateway gives an organization a *namespace* of logical keys; the bytes live
in buckets of S3-compatible providers under random physical keys.  Metadata is in
PostgreSQL.  The API process serves clients and administrators; one worker process
repairs, migrates and watches the providers' health; a web console talks to the API.

| component | state it keeps | operations | what makes it correct | module |
|---|---|---|---|---|
| Metadata tables (`packages/db`) | upload session, counter, record and location rows | the transactions of the services | counters equal what the rows say; pointer and locations agree | `StorageTables` |
| Gateway uploads (`storage/upload-service.ts`) | a session row per attempt; a reservation; bytes or open multipart uploads at the provider | initiate, proxyUpload, presignPart, complete, abort | a session ends once, its reservation is taken and returned once, only verified bytes are published | `UploadService` |
| Gateway and explorer delete | record state `AVAILABLE -> DELETING -> DELETED` | delete | charged once, nothing left behind, nothing else touched | `ObjectDeletion` |
| Worker: upload reconciliation | lists read at the start of each phase | expire sessions, finish deletes, remove retained locations, prune | what a crash leaves is settled, nothing alive is harmed | `UploadReconciliation` |
| Migration runs (API, worker) | `MigrationRun`, `MigrationItem` | create, start, pause, cancel; claim, copy, verify, switch, fail, complete | a record only moves to a verified copy; a completed run is done; usage unchanged | `Migration` |
| Object Explorer, placement | a reservation without a session; none | upload, createFolder, delete; selectTarget, assertTargetCapacity | usage covers what is there; a target is not filled beyond its capacity | `ExplorerUploads` |
| Authentication sessions (and the console's API client) | refresh token rows, cookie, access token | login, refresh, logout, authorize | one usable token; what ended stays ended | `Sessions` |
| Organizations, members, roles | roles, permissions, memberships | create, update, delete, assign | concurrent changes do not mix | `Organizations` |
| API credentials, folder grants, gateway reads | credentials, grants | create, rotate, revoke; assign, withdraw; authenticate, canAccess | a retired token serves nothing; only what was granted is served | `StorageAccess` |
| Providers, health, buckets, namespaces, policies | their rows and foreign keys | create, update, test, check, delete, import, replace policy, open session | no row refers to one that is gone; policies do not mix | `Infrastructure` |
| Platform settings | versioned rows | update several at once | no deadlock | `PlatformSettings` |
| Request limits and the gateway's middleware | in-flight count, windows per address | consume, acquire, finish, close | the count is that of open responses; never more than the limit | `GatewayRequests` |
| Worker process | timer, running flag | passes, shutdown | passes never overlap | `WorkerLoop` |
| Credential encryption, rotation script | envelopes under versions of a key | write, rotate in pages | every credential opens; the old key can be retired | `CredentialKeys` |
| Console: bucket browser | selection, listing, request ids | select, open, page, load | the listing shown is the one selected | `BucketBrowser` |

Interactions.  A request calls the database and the provider in turn, with no
transaction around the two; every `await` is a point where another request or
the worker runs, where either side can fail, and where the process can stop.
Requests and the worker never call each other: they meet in the rows and in the
bucket.  The client writes to the provider directly, with presigned urls.  The
control plane's services meet in the rows too, and READ COMMITTED lets other
transactions commit between two statements of one.

What is hard is therefore the pairs of effects that no transaction joins: which comes
first, what the other actors see in between, and who repairs when only one of
the two happened.  `PROJECT.json` lists these hazards at their lines.

## 2. Modules

    StorageTables            rows, bytes and transactions
      UploadService          upload requests \
      ObjectDeletion         delete requests  > ObjectStorage --> ObjectLibrary (abstract)
      UploadReconciliation   the worker      /        MCObjectStorage   ObjectStorageProofs
      Migration              runs and items
        + ObjectDeletion + UploadReconciliation = ObjectMigration
                                                      MCObjectMigration  MigrationProofs

    Sessions             AccessProofs     \
    Organizations        AccessProofs      |
    StorageAccess        AccessProofs      |
    Infrastructure       InfrastructureProofs
    PlatformSettings     RequestsProofs    |
    ExplorerUploads      ExplorerProofs     > MCControlPlane  ControlPlaneProofs
    GatewayRequests      RequestsProofs    |
    WorkerLoop           RequestsProofs    |
    CredentialKeys       InfrastructureProofs
    BucketBrowser        RequestsProofs   /

    SumTheorems          sums over finite sets, for the proof modules

### The object index

**StorageTables.**  An upload *attempt* `u` stands for one call of `initiate`
that got a random upload id and physical key; its request (key, size, transfer
mode, idempotency key, credential, overwrite) is constant.  `session[u]`,
`due` (past `expiresAt`), `finalized` (`providerUploadFinalized`) are the session
row; `record[k]` is the record of a key with `at`, the attempt whose location is
`activeObjectLocation`; `location[u]` is that location's state; the four counters
are the `UsageCounter` row.  `blob[u]` is the object under the attempt's physical
key ("good": as the request announced it, "bad": of another size or checksum),
`parts` the multipart uploads open at the provider, `signed` the clients holding
a presigned url.

Each transaction is one operator (`ReserveTx`, `PublishTx`, ...): PostgreSQL runs
at READ COMMITTED, and a transaction whose first statement is a guarded
`updateMany`, or takes the counter's row lock, is serialised with its rivals by
that row.  Two transactions are *not* so: `releaseReservation` and `expire` read
the session with a plain `findFirst` and then update it by id.  They are two steps
in the model (`ReleaseRead`, `ReleaseCommit`).  `COMPLETING` exists only inside
`PublishTx`, as `PENDING` does.

`Transaction` and `Call` are the failures: a transaction commits or rolls back, a
provider call takes effect or not, and, if `LostAnswers` says so, something that
took effect is reported as failed.

**UploadService.**  `req[r]` is what a request in flight does next (`at`), on which
attempt (`on`), and the `providerUploadFinalized` it read or set (`fin`).
One action per segment of code between two awaits that matter.  The `try`/`catch`
structure is in the steps: `Throw` is where an error goes (the caller, or
`cleanupFailedUpload` inside `proxyUpload`), "reject" is `cleanupFailedUpload`,
"discard" is `cleanupFinalizedProviderObject`, "release"/"releasing" and
"expire"/"expiring" the two statements of the release.  `Initiate` is the reads
before the first effect; `InitiateAgain` is the idempotent repeat, which signs a
new url.  `RequestLost` stops a request anywhere, as a crash of the process does.

**ObjectDeletion.**  `del[d]` likewise: read, claim, provider, finalise or revert.

**UploadReconciliation.**  `worker` holds the phase, the list as it was read, the
entry in hand and the `providerUploadFinalized` flags as listed, so that entries
are stale when reached.  `bare` are the DELETING records that were listed without an ACTIVE
location: `CloseUnlocated` closes each of them later, for its state alone.  A failed entry is
skipped until the next pass; a failed query is a pass that ends, as a restart is.

**ObjectStorage** is their conjunction over the same tables, and the properties.
**ObjectLibrary** is the contract: an attempt is open, then kept or dropped, once;
a key shows the attempt kept last; a delete holds a key, and gives it back or
removes it, and while it does nothing replaces it.

**Migration.**  An item is named by the location it creates, an attempt in `Copies`
without a session.  `run[r]` has the run's state, `totalItems` and `completedItems`;
`item[u]` its state and source; `task[u]` what the pass in flight does next with
the item: claim, read the source, put, verify, the two halves of `switchLocation`
(`SwitchRead`, `SwitchCommit`), `markFailed`, or the erasure in the `catch`.  The waves of
at most `MaxConcurrent` items run in parallel, and their steps interleave.  A pass can break off
(`PassFails`, or a `markFailed` that throws): the copies of its last wave go on, beside the next
pass and outside its `wave`.  `sweep[u]` is what the pass does next with an item of a cancelled
run, a copy still under way included, and `MoveTx` commits whether or not the item is still
COPYING (`Held`).  Creating a run reads the records in one statement and inserts items in
another.  An item is as large as the object it was made for (`Fits`), so an instance names copies per run, key and size.
`Named` is the bound this puts on the model: a run is created only when there is a name for
each object found.  Every instance has enough names, and `Named` refuses nothing in them.

**ObjectMigration** composes it with the deletes and with the upload pass, which
erases retained locations and finishes deletes; uploads appear as the publication of
an attempt that was open at the start.  The worker runs one pass after the other;
`PassBroken` ends one early, `Restart` stops the process anywhere.

Abstractions of the index, all named: placement (one bucket per attempt, fixed);
grants, namespace status and input validation (they refuse before any effect);
the client's part list (a multipart completion with wrong parts is refused before
any effect); `MultipartPart` rows and traffic counters (written, never read); the
batch bound of a worker pass; audit rows (in the same transaction as what they
record).  A url is never revoked from `signed`, although it expires after
`PRESIGNED_URL_TTL_SECONDS`; that only adds behaviours.  Attempt ids are never
reused, as random UUIDs are not.  Of migrations: `failedItems`, `attempts` and
`lastError`, which nothing reads to decide; a second worker process; and a copy in
progress that is older than `STALE_COPYING_MS` while its own process still works on it.

### Around the index

Each of these modules has the rows of one component and the requests in flight; a
request's `at` is the next statement it will run.

**Sessions**: one browser with parallel calls.  Refresh is a transaction in two halves
(the read, then the guarded `updateMany`, on which it rolls back); an answer may be lost; the
browser repeats a refused call after a refresh.  `late` marks a call sent after its
session had ended.

**Organizations**: a request is authorized first and changes the tables later.
`updateRole` is look up, delete, insert, and a request with a name also updates the role's row
first, which locks it; one that gives only permissions locks nothing.  `replaced` are the rows
its delete has found, `crossed` the updates that ran beside it without a lock between them.

**StorageAccess**: `rotate` and `revoke` read in one statement and write in another;
authentication is a read, then the `lastUsedAt` update; `canAccess` reads the principal
and then the grants.  `late` and `granted` remember that the token was retired before
the read was sent, and that a grant covered it at some moment.

**Infrastructure**: each check of "is it there", "is it in use" is a step before the
statement that relies on it; what remains safe is the foreign keys' doing.

**PlatformSettings**: the keys an update still has to write are a function to their
places in the order it writes them (`Place`); `Holds` are the row locks of a transaction that wrote
keys; one that needs a held row waits.  **ExplorerUploads**: the explorer's steps in full, the
gateway's at the two ends that placement sees.  **GatewayRequests**: limiter with sweep
and eviction, the middleware chain and the two events `finish` and `close`.
**WorkerLoop**: `setInterval`, the flag, three reconciliations of which one may throw, and
the shutdown with its timeout.  **CredentialKeys**: an envelope opens only with its key and
its label; pages by id, guarded updates, and API writes between read and update.
**BucketBrowser**: every request carries the `requestId` it was made with, and is
answered in any order.

Ghost variables, read by properties only: `late`, `granted`; `appended` (targets added
since the policy was replaced); `misreported` (a publication committed but reported
as failed); `reverted` (an object whose delete failed) and `unheard` (one whose delete took
effect all the same); `mixed` (roles whose last update had crossed another) and `crossed`;
`strayed` (locations left ACTIVE by a close on a stale list); `evicted`; `allowed`; `latest`,
`touched`, `raced` (rows the API wrote during the rotation).

## 3. What is checked

### The core (`MCObjectStorage`)

Attempt `u1` is direct (1 byte), `u2` multipart (2), `u3` proxied (1), all
for one key: interference needs two attempts on one key, and no transaction reads
two keys.  Two requests, two deletes and one worker are every pair of actors,
and a request can be lost and started again any number of times.  Nothing in the
state is capped: attempts are the only thing that is used up.  In every run the
worker, crashes, restarts and lost answers are enabled, and deadlock is checked.

| run | instance | shows |
|---|---|---|
| `uploads` | `u1`, `u2`, two requests; quota 2, so the two cannot both be open | `TypeOK`, `ActiveUploadsOwned`, `ReservedBytesOwned`, `WithinQuota`: with double releases included, no slot or byte stays reserved without an open session |
| `overwrites` | `u2`, `u3` with overwrite, one request, two deletes; foreign key checked at commit | `UsedBytesExact`, `ObjectCountExact`, `IndexAgreesWithLocations`: every delete and overwrite is charged once; `DeletedIsGone`; `ImplementsLibrary` |
| `retries` | `u1`, `u3` with one idempotency key, two requests | `OneSessionPerToken`, also after pruning; `ImplementsLibrary`: no attempt is published after it was dropped, nor dropped after it was published, when two requests and the worker race for it |
| `reclaim` | `u2`, two requests, one delete, fair worker | `DeletionsSettle`, `ExpiredSessionsClose` |

*The foreign key.*  `complete` points an existing record at the new location
before it inserts that location.  `DeferredPointer` says when the database looks:
FALSE is the deployed schema (see finding `tombstone`), under which no existing
record can be published over.  `overwrites`, `migration` and `progress` set it to TRUE, the
schema for which the statement order works, so that the logic of overwrite and of
reusing deleted keys is checked too; that only adds publications to those of the deployed
schema.  The theorems hold for both.

### Migrations (`MCObjectMigration`)

| run | instance | shows |
|---|---|---|
| `migration` | objects deleted and overwritten while they are moved; moved by one run and back by another; two objects in one run | `TypeOK`; `ActiveIsShown`, `NothingResurrected`: no delete or overwrite between the halves of a switch leaves a copy live or brings an object back; `ShownIsCharged`; `LiveCopiesStored`: after any crash, broken pass or retry a copy goes live only with its bytes verified, unless its run was cancelled; `CompletedRunIsDone` |
| `progress` | one object that may be deleted, or two that are not; fair worker | `RunsSettle`: a run that keeps running ends, unless it is `Stuck` |
| `erased` | as `progress`, any schedule, the deployed foreign key | finding `erased` |

The exceptions that two of these name are real, and in the model.  The worker closes a record
on a list that may be stale: a delete claimed in the middle of a switch leaves a DELETING record
on a RETAINED location; listed, given back, overwritten and claimed again, it is closed with its
new location ACTIVE.  (In the instance that takes an overwrite, and so `DeferredPointer`: with
the deployed foreign key TLC finds no such close.)  `ActiveIsShown` leaves out the locations of
exactly such closes (`strayed`).  And the cleanup of cancelled runs erases what an earlier pass is still copying
(finding `erased`), so `LiveCopiesStored` speaks of runs that are not cancelled.

In each a client may delete one of the keys and an operator pause, resume and cancel at any
time; two copies run at once, and answers of both services may be lost.  The object that overwrites,
and its copy, are 2 bytes, the others 1, with a quota of 4.  A switch touches one record and one run,
so that two copies of one run and two runs over one object are all the pairs there are.  What the
instances bound, the theorems of section 5 do not.

`Stuck` names two real exceptions.  A switch that finds its run paused marks the item
SKIPPED without counting it (`migration-reconciliation.ts:269`), after which a resumed run never
reaches its total; and an object that was deleted, or overwritten and cleaned up, before it was
copied fails for ever.  Two of `ShownIsCharged`'s neighbours are false and not claimed:
that usage is *exact* (the retained location of a record being deleted is closed without
returning usage), and that a copy *stays* stored once live (the answer of the commit is
lost, and the `catch` erases it; or a delete claimed in the middle of a switch and given
back leaves a record on a retained location, which is reclaimed).

### The control plane (`MCControlPlane`)

`parts` runs the ten components one per behaviour: they share no state, and `part` says which
one moves.  Components whose requests are used up stop, hence `CHECK_DEADLOCK FALSE`.
Requests are numbered twins in most of them (`p1`, `p2`, `p3`); symmetry is over the two
gateway uploads, the only ones that no definition tells apart.

| component | instance | properties |
|---|---|---|
| Sessions | 3 refresh tokens (a login, a rotation and one to race it), 2 calls | `OneRefreshToken`, `EndedStaysEnded`, `LateIsRefused` |
| Organizations | 2 roles, 2 members, 2 requests, with or without a name | `RoleIsOneRequest` |
| StorageAccess | 1 credential, 3 tokens, 1 read, 2 managers; a key, a folder with it and a name that only shares its first letters | `RetiredIsRefused`, `ServedWasGranted` |
| Infrastructure | 1 provider, 2 buckets, 1 namespace, 2 jobs | `NothingDangles`, `PolicyIsOneRequest` |
| PlatformSettings | 2 keys, 3 requests (a circle of three is possible) | `NoCircularWait` |
| ExplorerUploads | 2 gateway uploads, a file and a folder, 2 targets, quota 2 | `NamespaceUsage`, `ShownIsStored`, `CapacityKept` |
| GatewayRequests | 3 requests, 2 addresses, 2 slots, 1 per window of 2, a table of 1, time to 3 (more than one window) | `InFlightExact`, `WindowLimit` |
| WorkerLoop | 3 ticks | `OnePass` |
| CredentialKeys | 3 rows in pages of 2, 3 writes | `CredentialsOpen`, `OldKeyRetired` |
| BucketBrowser | 2 organizations, 3 buckets, 2 prefixes, 1 further page, 6 requests | `ShownIsSelected` |

Bounds that are not in the code: `Ticks`, `MaxTime`, `MaxPayload`, `MaxPage`, `MaxAsked` (and the
finite sets of tokens and requests, each used once or returned to idle).  Each is
large enough for the wrong forms of the code in `PROJECT.json` to break its property.

The properties name their exceptions: `CapacityKept` leaves out buckets that the
explorer or another target also fills, `WindowLimit` addresses whose entry was evicted,
`NamespaceUsage` publications that were misreported, `ShownIsStored` these and erasures
whose answer was lost, `RoleIsOneRequest` roles whose last update crossed one with no lock,
`CredentialsOpen` rows written between the script's read and update of them, whose newer
payload may be lost, and `OldKeyRetired` runs in which a credential was deleted.

### Fairness

Only the worker is fair: `main.ts` runs a pass at start and then on a timer, one at
a time.  Requests are not: clients owe nothing.  `WorkerFairness` (core) asks weak fairness
of the worker as a whole and strong fairness of each kind of step succeeding: the
calls it makes do not fail *every* time they are tried, and it is not restarted in
every pass.  A call that cannot succeed (its guard is false) is owed nothing, which is
what finding `stranded` turns on.  Because the batch bound is abstracted, the
liveness runs speak of a backlog that fits in one pass.

`ExpiredSessionsClose` has two premises, both real exceptions: `[]ReservedExact`,
because after a double release the counters' CHECK constraint can refuse the rightful
release (that is finding `quota`), and `Stranded` (finding `stranded`).

`Fairness` of `ObjectMigration` is weak for the upload pass, the migration pass and each
copy in flight (a promise that was started goes on even if its pass has ended), and
strong for beginning a pass, which is possible only between upload passes.
`<>[][Undisturbed]_vars` says that failures and restarts come to an end and that what has
failed becomes due again; an operator's pauses and a client's deletes may go on for ever.

## 4. Findings

Five statements of the repository that the code does not keep, each a run in
which TLC finds the counterexample.

* `quota` - *"concurrent uploads cannot cross quota"* (a test's name).  Two releases of
  one session both read it INITIATED and both decrement the counters.  The
  reservation then misses one open upload.
* `lost` - *"verified before its metadata becomes available"*.  Abort and expiry delete
  at the provider first and claim the session afterwards; a completion in between
  publishes a deleted object.
* `tombstone` - *"reusing a deleted logical key reuses the tombstone row"*.  The pointer is
  set before its target exists, and the foreign key is immediate.
* `stranded` - *"abort or expiry releases the reservation"*.  A multipart upload aborted at
  the provider by a request that then fails is refused in every later pass.
* `erased` - *"destination verification, atomic location switch"*.  A pass that breaks off
  leaves copies under way; the next one cleans up their cancelled run, erases a verified copy,
  and the switch moves the record to it afterwards.

## 5. What is proved

The eight proof modules prove the theorems below for every value of the constants under
the assumptions named in the modules: finite sets of attempts and keys, any sizes,
quota, limits, page sizes and numbers of requests, any lost answers, both settings of the
foreign key.  Every invariant and action property that a passing run checks is
the subject of one, `ImplementsLibrary` included.

| theorems | properties | argument |
|---|---|---|
| `TypeCorrect`, `SlotsOwned`, `QuotaHolds`, `TokensUnique`, `PublishedIsClosed`, `IndexAgrees`, `ObjectCountHolds`, `ReservationOwned`, `UsageExact`, `LibraryImplemented`, `NothingLeftBehind` | of the core | below |
| `ActiveCopiesShown`, `CompletedRunsDone`, `DeletedStayDeleted`, `LiveCopiesVerified` | `ActiveIsShown`, `CompletedRunIsDone`, `NothingResurrected`, `LiveCopiesStored` | `MigrationInv`: pointers are to locations of their keys; a step that makes a location ACTIVE also shows it, and one that takes a record away from an ACTIVE location leaves it `strayed`; actors work on published attempts; a run that is not cancelled never counts more items than have ended (`RunsCounted`), so that a full count means that all have; only items of cancelled runs are swept (`SweepOK`), so that a task past its verification has a good copy or a cancelled run (`Verified`): nobody else erases it, since copies of unfinished items are not shown (`CopiesFresh`) |
| `ShownCharged`, `MigrationTyped` | `ShownIsCharged`, `TypeOK` of the migrations | `ChargeInv`: a copy is as large as the object its item was made from (`CopiesFit`), and a switch requires that the record still shows that object, so that it leaves the sum of what is shown alone; every other transaction changes the usage by at least what it adds to the sum |
| `SessionsTypeCorrect`, `OneRefreshTokenHolds`, `SessionsStayEnded`, `LateCallsRefused` | of `Sessions` | `SessionsInv`: a token belongs to a session, and to one that began; a late call is still to be looked at, and then its session has ended |
| `RolesDoNotMix` | `RoleIsOneRequest` | `RolesInv`: two updates under way on one role have crossed; one that has crossed none finds only rows that its delete has taken, and leaves its own |
| `RetiredStaysRefused`, `ServedOnlyGranted` | of `StorageAccess` | `AccessInv`: tokens are unique, and a retired one is only that of a revoked credential, even where `rotate` and `revoke` overlap |
| `NothingLeftDangling`, `PoliciesDoNotMix` | of `Infrastructure` | `InfrastructureInv`: the policy row is held by one replacement, whose targets have gone |
| `CredentialsStayOpen`, `OldKeyIsRetired` | of `CredentialKeys` | `KeysInv`: labels agree with keys, and what the script has read is current or `raced`; `RetireInv`: every row the cursor has passed is under the new key |
| `SlotsExact`, `WindowLimitHolds` (both assuming that there is an address), `OnePassHolds` | of `GatewayRequests`, `WorkerLoop` | a held slot has its `close` still to come; the entry and the ghost window are the same window; the flag is set exactly while a pass runs |
| `ShownListingIsSelected` | `ShownIsSelected` | `BrowserInv`: a request with the latest id asked for what is selected now |
| `NoUpdatesDeadlock` | `NoCircularWait` | `SettingsInv`: what an update has yet to write comes after all it has written, in the order of the schema; so in any set of updates the one that waits for the last key waits for none of them |
| `ShownStaysStored` | `ShownIsStored` | `ExplorerInv`: what is shown, or may be shown again after a failed delete, is stored, unless an answer was lost |
| `UsageHolds`, `CapacityHolds` | `NamespaceUsage`, `CapacityKept` | `CountsInv`, over `ExplorerInv`: an upload's bytes are reserved from its reservation to its end, and then used for as long as its record keeps them; an upload enters its target's sum only at a moment when the target has room for it |
| `ControlPlaneTyped` (assuming that there is an address) | `TypeOK` of the control plane | each component of `MCControlPlane` takes its own steps or none, so that the composition's `Spec` implies the `Spec` of each, and with it every theorem above |

The core.  First, *every step is one transaction or leaves the tables alone*
(`NextTables`): the interleavings of requests, deletes and worker reduce to
sequences of `TableStep`s, and from there on most proofs do not mention a request.  That
needs to know that whoever is at work is at work on an attempt (`OnUploads`).
Second, the inductive invariant

    IInv == TypeOK /\ OnUploads /\ PublishedSessionClosed /\ IndexAgreesWithLocations

`IndexAgreesWithLocations` is not inductive alone: a publication would make a
second ACTIVE location of an attempt already shown, unless that attempt's session
is closed, which is `PublishedSessionClosed`; and `TypeOK` needs the record's `at` to be an
attempt when an overwrite computes the difference of sizes.  It also shows that the
worker's branch for DELETING records without an ACTIVE location never runs in the
core (`NoneUnlocated`).  Third, each further invariant is one lemma over
`TableStep`s: the cardinality of the open sessions moves with the slot counter, that
of the shown records with the object counter.  `LibraryImplemented` maps each
transaction to the step of `ObjectLibrary` it makes, or to a stutter.

`ReservationOwned` and `UsageExact` are such lemmas too, about sums of sizes.  A sum is a fold of
the community modules, which is a recursive function on the subsets of a set;
`SumTheorems` proves that this function exists and what follows of it: that the sum is a
natural number, that an element adds its size to it and takes it away again, that a part
sums to no more than the whole (`TotalFacts`).  Its inductions are on the size of a set, by
the least counterexample: the relation `<` is well founded, so a set of numbers
that is not empty has a least one, and no theorem with an operator parameter is needed.
`UsageExact` is an equation because the transaction that moves or closes a pointer also
charges the difference, guarded by the record's state; `ReservationOwned` is only a bound, as
a session may give its bytes back twice.

`DeletedIsGone` does need the actors, because the bytes come back from what is in
flight.  `GoneInv` adds to `IInv` what they may still write: a request that is creating an
attempt has it for itself (`RequestWrites`); only a multipart upload can be assembled again, and a
published attempt has none open (`AttemptBytes`); a delete or the worker that is about to
finalise has erased the bytes (`DeleteErases`, `WorkerErases`).

## 6. What is only model-checked

The liveness properties `DeletionsSettle`, `ExpiredSessionsClose` and `RunsSettle`: fairness and
ENABLED are out of the prover's reach.  The five findings are counterexamples, which
need no proof.

## 7. Not modelled

* *Usage reports*: read-only aggregation in single statements, on which nothing decides.
  *Observability*: counters rendered as text.  *Shared schemas, password hashing*: no state.
* *Provider adapter*: its calls are modelled as effects that fail or whose answer is lost;
  endpoint validation and the encoding of requests are not.  *HTTP layer*: parsing and
  the mapping of errors.  *Operational scripts*: backup, verification and setup are one-shot
  tools.
* *Web console*: the other pages render what one request returned.  Three places there
  have the bucket browser's hazard without its fence and were only read: a snapshot that
  arrives after a later one (`admin-dashboard.tsx:228`), a lost logout whose cookie
  restores the session (`:318`), and a row of the explorer's page removed after the
  namespace was switched (`:745`).
* Hazards that were read in the code and have no property, because no text promises
  otherwise: the health of a provider may be recorded for a
  configuration that was edited during the test (`providers/service.ts:379`), and placement
  trusts the last status; a multipart upload created before the session row is inserted is
  left to the provider (`upload-service.ts:151`); a bounded batch full of entries that
  always fail starves the rest (`upload-reconciliation.ts:34`); two worker processes, or
  a copy older than `STALE_COPYING_MS` whose pass has broken off, can run one item twice and erase
  the live copy (`migration-reconciliation.ts:53`, `:251`); an address evicted from the full table
  of the request limiter begins a new window (`rate-limit.ts:63`); a copy whose erasure fails is an orphan; one
  reconciliation that throws in every pass keeps those after it from running.
  `PROJECT.json` has a note on each listed hazard without a property.
* With more time: several worker processes over `Migration`.

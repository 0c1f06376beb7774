--------------------------- MODULE MCControlPlane ---------------------------
(***************************************************************************)
(* One instance of every component around the object index.  The           *)
(* components share no state, so that each is checked by itself: part says *)
(* which one runs, and the others stay as they began.                      *)
(***************************************************************************)
EXTENDS Sessions, Organizations, StorageAccess, Infrastructure, PlatformSettings,
        ExplorerUploads, GatewayRequests, WorkerLoop, CredentialKeys, BucketBrowser, TLC

CONSTANT Folder   \* the explorer upload that is a folder's marker

VARIABLE part

Parts == {"sessions", "organizations", "access", "infrastructure", "settings",
          "explorer", "gateway", "worker", "keys", "browser"}

Init ==
  /\ part \in Parts
  /\ SessionsInit /\ OrganizationsInit /\ StorageAccessInit /\ InfrastructureInit
  /\ SettingsInit /\ ExplorerInit /\ GatewayInit /\ WorkerInit /\ CredentialKeysInit
  /\ BucketBrowserInit

Frozen(p, variables) == IF part = p THEN TRUE ELSE UNCHANGED variables

Next ==
  /\ \/ part = "sessions" /\ SessionsNext
     \/ part = "organizations" /\ OrganizationsNext
     \/ part = "access" /\ StorageAccessNext
     \/ part = "infrastructure" /\ InfrastructureNext
     \/ part = "settings" /\ SettingsNext
     \/ part = "explorer" /\ ExplorerNext
     \/ part = "gateway" /\ GatewayNext
     \/ part = "worker" /\ WorkerNext
     \/ part = "keys" /\ CredentialKeysNext
     \/ part = "browser" /\ BucketBrowserNext
  /\ Frozen("sessions", sessions) /\ Frozen("organizations", organizations)
  /\ Frozen("access", storageAccess) /\ Frozen("infrastructure", infrastructure)
  /\ Frozen("settings", settings) /\ Frozen("explorer", explorer)
  /\ Frozen("gateway", gateway) /\ Frozen("worker", workerLoop)
  /\ Frozen("keys", credentialKeys) /\ Frozen("browser", browser)
  /\ UNCHANGED part

vars == <<part, sessions, organizations, storageAccess, infrastructure, settings,
          explorer, gateway, workerLoop, credentialKeys, browser>>

Spec == Init /\ [][Next]_vars

\* Every variable of the component that runs has its type.
TypeOK ==
  /\ part = "sessions" => SessionsOK
  /\ part = "organizations" => OrganizationsOK
  /\ part = "access" => StorageAccessOK
  /\ part = "infrastructure" => InfrastructureOK
  /\ part = "settings" => SettingsOK
  /\ part = "explorer" => ExplorerOK
  /\ part = "gateway" => GatewayOK
  /\ part = "worker" => WorkerOK
  /\ part = "keys" => CredentialKeysOK
  /\ part = "browser" => BucketBrowserOK

-----------------------------------------------------------------------------
(* The instance *)

MCPermissionSets == {{"assign"}, {"manage", "update"}}
MCBelow == [p \in Paths |-> IF p = "docs" THEN {"docs/a"} ELSE {}]
MCStartsWith == [p \in Paths |-> IF p = "docs" THEN Paths ELSE {p}]
MCProviderOf == [b \in BucketIds |-> "s3"]
MCTargetSets == {{"east"}, {"west"}}
MCSettingOrder == <<"mode", "quota">>
MCExpectations == {[k \in SettingKeys |-> x] : x \in {NoUpdate, 1}}
MCKeyOf == [u \in Uploads |-> IF u \in Gateway THEN u ELSE "shared"]
MCSizeOf == [u \in Uploads |-> IF u = Folder THEN 0 ELSE 1]
MCBucketAt == [t \in Targets |-> t]
MCCapacity == [t \in Targets |-> IF t = "first" THEN 1 ELSE 0]
MCTier == [t \in Targets |-> IF t = "first" THEN 2 ELSE 1]
MCTenantOf == [b \in Buckets |-> IF b = "b3" THEN "o2" ELSE "o1"]
Symmetry == Permutations(Gateway)
=============================================================================

------------------------- MODULE ControlPlaneProofs -------------------------
(***************************************************************************)
(* The instance in which one component runs and the others stay as they    *)
(* began behaves, seen from each component, as that component by itself.   *)
(* So what is proved of each component holds of the instance.              *)
(***************************************************************************)
EXTENDS MCControlPlane, AccessProofs, InfrastructureProofs, RequestsProofs, ExplorerProofs

\* Every component is given the behaviours of its own specification, and no others.
LEMMA PeopleAndAccess == Spec => SessionsSpec /\ OrganizationsSpec /\ StorageAccessSpec
<1>1. Init => SessionsInit /\ OrganizationsInit /\ StorageAccessInit BY DEF Init
<1>2. [Next]_vars => /\ [SessionsNext]_sessions /\ [OrganizationsNext]_organizations
                     /\ [StorageAccessNext]_storageAccess
  BY DEF Next, Frozen, vars
<1> QED BY <1>1, <1>2, PTL DEF Spec, SessionsSpec, OrganizationsSpec, StorageAccessSpec

LEMMA ConnectionsAndSettings == Spec => InfrastructureSpec /\ CredentialKeysSpec /\ SettingsSpec
<1>1. Init => InfrastructureInit /\ CredentialKeysInit /\ SettingsInit BY DEF Init
<1>2. [Next]_vars => /\ [InfrastructureNext]_infrastructure /\ [CredentialKeysNext]_credentialKeys
                     /\ [SettingsNext]_settings
  BY DEF Next, Frozen, vars
<1> QED BY <1>1, <1>2, PTL DEF Spec, InfrastructureSpec, CredentialKeysSpec, SettingsSpec

LEMMA RequestsAndBrowsers ==
  Spec => ExplorerSpec /\ GatewaySpec /\ WorkerSpec /\ BucketBrowserSpec
<1>1. Init => ExplorerInit /\ GatewayInit /\ WorkerInit /\ BucketBrowserInit BY DEF Init
<1>2. [Next]_vars => /\ [ExplorerNext]_explorer /\ [GatewayNext]_gateway
                     /\ [WorkerNext]_workerLoop /\ [BucketBrowserNext]_browser
  BY DEF Next, Frozen, vars
<1> QED BY <1>1, <1>2, PTL DEF Spec, ExplorerSpec, GatewaySpec, WorkerSpec, BucketBrowserSpec

\* Every variable of every component keeps its type, whichever component runs.
THEOREM ControlPlaneTyped == ASSUME Addresses # {} PROVE Spec => []TypeOK
<1>1. /\ SessionsOK /\ OrganizationsOK /\ StorageAccessOK /\ InfrastructureOK /\ SettingsOK
      /\ ExplorerOK /\ GatewayOK /\ WorkerOK /\ CredentialKeysOK /\ BucketBrowserOK
      => TypeOK
  BY DEF TypeOK
<1>2. GatewaySpec => []GatewayOK BY GatewayTyped
<1> QED BY <1>1, <1>2, PeopleAndAccess, ConnectionsAndSettings, RequestsAndBrowsers, SessionsTypeCorrect,
           OrganizationsTyped, StorageAccessTyped, InfrastructureTyped, CredentialKeysTyped,
           SettingsTyped, ExplorerTypes, WorkerTyped, BrowserTyped, PTL
=============================================================================

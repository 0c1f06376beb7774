SPECIFICATION Spec
CONSTANTS
  RefreshTokens = {"r1", "r2", "r3"}
  Calls = {p1, p2}
  NoToken = "none"
  Roles = {"owner", "role"}
  Owner = "owner"
  Members = {"root", "member"}
  Root = "root"
  Changes = {p1, p2}
  PermissionSets <- MCPermissionSets
  ApiCredentials = {"credential"}
  ApiTokens = {"t1", "t2", "t3"}
  NoName = "none"
  Paths = {"docs", "docs/a", "docs2"}
  Below <- MCBelow
  StartsWith <- MCStartsWith
  Reads = {"read"}
  Managers = {p1, p2}
  Providers = {"s3"}
  BucketIds = {"east", "west"}
  ProviderOf <- MCProviderOf
  Namespaces = {"namespace"}
  TargetSets <- MCTargetSets
  Jobs = {p1, p2}
  SettingOrder <- MCSettingOrder
  Updates = {p1, p2, p3}
  NoUpdate = NoUpdate
  Expectations <- MCExpectations
  Gateway = {p1, p2}
  Explorer = {"file", "folder"}
  Folder = "folder"
  KeyOf <- MCKeyOf
  SizeOf <- MCSizeOf
  Targets = {"first", "second"}
  NoTarget = "none"
  BucketAt <- MCBucketAt
  Capacity <- MCCapacity
  Tier <- MCTier
  Quota = 2
  Requests = {p1, p2, p3}
  Addresses = {"a1", "a2"}
  InFlightLimit = 2
  RateLimit = 1
  Window = 2
  MaxEntries = 1
  MaxTime = 3
  Ticks = 3
  Ids = {1, 2, 3}
  OldKey = "v1"
  NewKey = "v2"
  BatchSize = 2
  MaxPayload = 3
  Tenants = {"o1", "o2"}
  Buckets = {"b1", "b2", "b3"}
  TenantOf <- MCTenantOf
  Nothing = Nothing
  Prefixes = {"", "docs/"}
  NoPrefix = ""
  MaxPage = 1
  MaxAsked = 6
SYMMETRY Symmetry
INVARIANTS
  TypeOK
  OneRefreshToken
  LateIsRefused
  RoleIsOneRequest
  RetiredIsRefused
  ServedWasGranted
  NothingDangles
  PolicyIsOneRequest
  NoCircularWait
  NamespaceUsage
  ShownIsStored
  CapacityKept
  InFlightExact
  WindowLimit
  OnePass
  CredentialsOpen
  OldKeyRetired
  ShownIsSelected
PROPERTY
  EndedStaysEnded
CHECK_DEADLOCK FALSE

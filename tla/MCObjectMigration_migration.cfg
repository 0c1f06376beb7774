SPECIFICATION Spec
CONSTANTS
  u1 = u1  u2 = u2  u3 = u3  u4 = u4  m1 = m1  m2 = m2  m3 = m3  m4 = m4  m5 = m5
  r1 = r1  r2 = r2  k1 = k1  k2 = k2  k3 = k3  b1 = b1  b2 = b2  c1 = c1  t1 = t1
  Uploads = {u1, u2, u3, u4, m1, m2, m3, m4, m5}
  Keys = {k1, k2, k3}
  Credentials = {c1}
  Tokens = {t1}
  NoUpload = NoUpload
  KeyOf <- MCKeyOf
  SizeOf <- MCSizeOf
  ModeOf <- MCModeOf
  TokenOf <- MCTokenOf
  CredentialOf <- MCCredentialOf
  Overwrites = {u3}
  Quota = 4
  MaxActive = 2
  MaxPerCredential = 2
  DeferredPointer = TRUE
  LostAnswers = {"provider", "database"}
  Deleters = {d1}
  Copies = {m1, m2, m3, m4, m5}
  Runs = {r1, r2}
  RunOf <- MCRunOf
  Buckets = {b1, b2}
  BucketOf <- MCBucketOf
  SourceOf <- MCSourceOf
  MaxConcurrent = 2
  Starts <- AllStarts
  Deletable = {k1}
INVARIANTS
  TypeOK
  ActiveIsShown
  CompletedRunIsDone
  ShownIsCharged
PROPERTIES
  LiveCopiesStored
  NothingResurrected

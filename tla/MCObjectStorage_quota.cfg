SPECIFICATION Spec
CONSTANTS
  u1 = u1  u2 = u2  u3 = u3  k1 = k1  c1 = c1  t1 = t1  t2 = t2  t3 = t3
  Uploads = {u1, u2, u3}
  Keys = {k1}
  Credentials = {c1}
  Tokens = {t1, t2, t3}
  NoUpload = NoUpload
  KeyOf <- OneKey
  SizeOf <- MCSizeOf
  ModeOf <- MCModeOf
  TokenOf <- MCTokenOf
  CredentialOf <- MCCredentialOf
  Overwrites = {}
  Quota = 2
  MaxActive = 3
  MaxPerCredential = 3
  DeferredPointer = FALSE
  LostAnswers = {}
  Requests = {r1, r2}
  Deleters = {}
SYMMETRY RequestSymmetry
INVARIANT
  QuotaCoversUploads

--------------------------- MODULE StorageAccess ---------------------------
(***************************************************************************)
(* What an API credential may reach: credentials that are created, rotated *)
(* and revoked, folder grants that are made and withdrawn, and the reads   *)
(* of the storage gateway, which look all of it up one query after another.*)
(*                                                                         *)
(* A token is a credential's key id and secret.  A key or prefix is a name *)
(* with Below[p], the keys under p as a folder, and StartsWith[p], the     *)
(* keys whose text starts with p.  Namespaces, the objects themselves, the *)
(* actions of a grant and grants to roles, which no read asks for, are     *)
(* left out.                                                               *)
(***************************************************************************)
EXTENDS FiniteSets

CONSTANTS
  ApiCredentials,   \* credentials
  ApiTokens,        \* every token that will be generated
  NoName,             \* no token, credential or key
  Paths,            \* keys and prefixes
  Below,            \* the keys below a folder
  StartsWith,       \* the keys whose text starts with a prefix
  Reads,            \* reads in flight
  Managers          \* rotations and revocations in flight

ASSUME StorageAccessAssumption ==
  /\ Below \in [Paths -> SUBSET Paths] /\ StartsWith \in [Paths -> SUBSET Paths]
  /\ \A p \in Paths : {p} \cup Below[p] \subseteq StartsWith[p]
  /\ NoName \notin ApiTokens \cup ApiCredentials \cup Paths

VARIABLES
  credential,   \* ApiCredential: state, token
  retired,      \* tokens that were rotated away or revoked
  grant,        \* FolderGrant: pairs of a credential and a prefix
  read,         \* where each read is
  manager       \* where each rotation or revocation is

storageAccess == <<credential, retired, grant, read, manager>>

CredentialStates == {"absent", "ACTIVE", "expired", "REVOKED"}
ReadSteps == {"idle", "find", "touch", "known", "list", "head", "presign",
              "proxy", "served"}

\* late: its token was retired when it was sent; granted: a grant has covered its
\* key since.
NoRead == [at |-> "idle", token |-> NoName, of |-> NoName, key |-> NoName,
           late |-> FALSE, granted |-> FALSE]
NoWork == [at |-> "idle", of |-> NoName]

StorageAccessOK ==
  /\ credential \in [ApiCredentials -> [state : CredentialStates, token : ApiTokens \cup {NoName}]]
  /\ retired \subseteq ApiTokens
  /\ grant \subseteq ApiCredentials \X Paths
  /\ read \in [Reads -> [at : ReadSteps, token : ApiTokens \cup {NoName},
                         of : ApiCredentials \cup {NoName}, key : Paths \cup {NoName},
                         late : BOOLEAN, granted : BOOLEAN]]
  /\ manager \in [Managers -> [at : {"idle", "rotate", "revoke"}, of : ApiCredentials \cup {NoName}]]

StorageAccessInit ==
  /\ credential = [c \in ApiCredentials |-> [state |-> "absent", token |-> NoName]]
  /\ retired = {} /\ grant = {}
  /\ read = [q \in Reads |-> NoRead]
  /\ manager = [m \in Managers |-> NoWork]

CredentialActive(c) == credential[c].state = "ACTIVE"

-----------------------------------------------------------------------------
(* Credentials *)

\* Random, so none that was generated before.
Unused == ApiTokens \ (retired \cup {credential[c].token : c \in ApiCredentials})
GenerateCredential == CHOOSE t \in Unused : TRUE

CreateCredential(c) ==
  /\ credential[c].state = "absent" /\ Unused # {}
  /\ credential' = [credential EXCEPT ![c] = [state |-> "ACTIVE", token |-> GenerateCredential]]
  /\ UNCHANGED <<retired, grant, read, manager>>

Expires(c) ==
  /\ CredentialActive(c) /\ credential' = [credential EXCEPT ![c].state = "expired"]
  /\ UNCHANGED <<retired, grant, read, manager>>

\* Both read the row first, and then write it by its id, whatever its state has
\* become.  An expired one can be revoked but not rotated.
Manage(m, c, step) ==
  /\ manager[m].at = "idle" /\ manager' = [manager EXCEPT ![m] = [at |-> step, of |-> c]]
  /\ UNCHANGED <<credential, retired, grant, read>>
ReadForRotate(m, c) == CredentialActive(c) /\ Manage(m, c, "rotate")
ReadForRevoke(m, c) == credential[c].state \in {"ACTIVE", "expired"} /\ Manage(m, c, "revoke")

Managed(m) ==
  /\ retired' = retired \cup {credential[manager[m].of].token}
  /\ manager' = [manager EXCEPT ![m] = NoWork]
  /\ UNCHANGED <<grant, read>>

\* (The first form renews the credential and leaves its key in place.)
RenewedOnly(c, t) == [credential EXCEPT ![c].state = "ACTIVE"]
Renewed(c, t) == [credential EXCEPT ![c] = [state |-> "ACTIVE", token |-> t]]
Rotate(m) ==
  /\ manager[m].at = "rotate" /\ Unused # {}
  /\ credential' = Renewed(manager[m].of, GenerateCredential) /\ Managed(m)
Revoke(m) ==
  /\ manager[m].at = "revoke"
  /\ credential' = [credential EXCEPT ![manager[m].of].state = "REVOKED"] /\ Managed(m)

-----------------------------------------------------------------------------
(* Folder grants *)

Covers(p, k) == k = p \/ k \in Below[p]
Granted(c, k) == \E p \in Paths : <<c, p>> \in grant /\ Covers(p, k)

CreateGrant(c, p) ==
  /\ <<c, p>> \notin grant /\ CredentialActive(c)
  /\ grant' = grant \cup {<<c, p>>}
  /\ read' = [q \in Reads |->
       IF read[q].of = c /\ Covers(p, read[q].key) THEN [read[q] EXCEPT !.granted = TRUE] ELSE read[q]]
  /\ UNCHANGED <<credential, retired, manager>>

DeleteGrant(c, p) ==
  /\ <<c, p>> \in grant /\ grant' = grant \ {<<c, p>>}
  /\ UNCHANGED <<credential, retired, read, manager>>

-----------------------------------------------------------------------------
(* Reads: list, head and the downloads *)

ReadGoes(q, step) == read' = [read EXCEPT ![q].at = step]
ReadRefused(q) == read' = [read EXCEPT ![q] = NoRead]
ReadAt(q, step) == read[q].at = step /\ UNCHANGED <<credential, retired, grant, manager>>

\* A client sends a token of a credential, maybe an old one.
SendRead(q, c, k) ==
  /\ ReadAt(q, "idle")
  /\ \E t \in retired \cup {credential[c].token} :
       /\ t # NoName
       /\ read' = [read EXCEPT ![q] = [at |-> "find", token |-> t, of |-> c, key |-> k,
                                       late |-> t \in retired, granted |-> Granted(c, k)]]

Valid(q) == credential[read[q].of].token = read[q].token /\ CredentialActive(read[q].of)

\* authenticate: find the credential by its key id and compare the secret ...
Authenticate(q) ==
  /\ ReadAt(q, "find")
  /\ \/ Valid(q) /\ ReadGoes(q, "touch")
     \/ ~Valid(q) /\ ReadRefused(q)

\* ... and note its use, unless it was revoked.  (Its expiry is not looked at again.)
Touch(q) ==
  /\ ReadAt(q, "touch")
  /\ \/ credential[read[q].of].state # "REVOKED" /\ ReadGoes(q, "known")
     \/ credential[read[q].of].state = "REVOKED" /\ ReadRefused(q)

\* canAccess: the principal's state, and then the grants that it has.  A folder
\* covers itself and what is below it.  (The first form compares text.)
PrefixStarts(p, k) == k \in StartsWith[p]
PrefixMatches(p, k) == k = p \/ k \in Below[p]
PrincipalIsActive(c) == CredentialActive(c)
CanAccess(c, k) == \E p \in Paths : <<c, p>> \in grant /\ PrefixMatches(p, k)

\* The record is looked up, and whether the principal is active.
LookupRecord(q, kind) ==
  /\ ReadAt(q, "known")
  /\ \/ PrincipalIsActive(read[q].of) /\ ReadGoes(q, kind)
     \/ ReadRefused(q)

\* A list checks its prefix first, and then the key of each record.
List(q) ==
  /\ \E p \in Paths : read[q].key \in StartsWith[p] /\ CanAccess(read[q].of, p)
  /\ LookupRecord(q, "list")
HeadObject(q) == LookupRecord(q, "head")
PresignDownload(q) == LookupRecord(q, "presign")
ProxyDownload(q) == LookupRecord(q, "proxy")

\* The grants decide; a download can still fail at the provider.
Decide(q) ==
  /\ read[q].at \in {"list", "head", "presign", "proxy"} /\ ReadAt(q, read[q].at)
  /\ \/ CanAccess(read[q].of, read[q].key) /\ ReadGoes(q, "served")
     \/ ReadRefused(q)
ReadAnswered(q) == ReadAt(q, "served") /\ ReadRefused(q)

StorageAccessNext ==
  \/ \E c \in ApiCredentials :
       \/ CreateCredential(c) \/ Expires(c)
       \/ \E m \in Managers : ReadForRotate(m, c) \/ ReadForRevoke(m, c)
       \/ \E p \in Paths : CreateGrant(c, p) \/ DeleteGrant(c, p)
       \/ \E q \in Reads, k \in Paths : SendRead(q, c, k)
  \/ \E m \in Managers : Rotate(m) \/ Revoke(m)
  \/ \E q \in Reads :
       \/ Authenticate(q) \/ Touch(q) \/ List(q) \/ HeadObject(q) \/ PresignDownload(q)
       \/ ProxyDownload(q) \/ Decide(q) \/ ReadAnswered(q)

StorageAccessSpec == StorageAccessInit /\ [][StorageAccessNext]_storageAccess

-----------------------------------------------------------------------------
\* A token that was rotated away or revoked before a request was sent serves
\* nothing, whatever rotations and revocations of its credential raced since.
RetiredIsRefused == \A q \in Reads : read[q].at = "served" => ~read[q].late

\* What is served was covered by a folder grant at some moment of the request.
ServedWasGranted == \A q \in Reads : read[q].at = "served" => read[q].granted
=============================================================================

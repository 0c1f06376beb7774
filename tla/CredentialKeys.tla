--------------------------- MODULE CredentialKeys ---------------------------
(***************************************************************************)
(* The encryption keys of provider credentials: the API that writes        *)
(* credentials under its own key, and the script that re-encrypts them, in *)
(* pages by id, under another while the API runs.                          *)
(*                                                                         *)
(* An envelope is the payload, named by a number, the key that wraps it    *)
(* and the version it is labelled with; what the ciphers guarantee is that *)
(* it opens with that key and that label and with no other.                *)
(***************************************************************************)
EXTENDS Naturals, FiniteSets, FiniteSetsExt

CONSTANTS
  Ids,             \* ids of credential rows, in their order
  OldKey, NewKey,  \* the API's key, and the one the script rotates to
  BatchSize,
  MaxPayload       \* bound on the payloads the API writes

ASSUME CredentialKeysAssumption ==
  /\ Ids \subseteq Nat /\ IsFiniteSet(Ids) /\ BatchSize \in Nat \ {0} /\ MaxPayload \in Nat
  /\ OldKey # NewKey

VARIABLES
  sealed,     \* ProviderCredential: the envelope of each row
  latest,     \* ghost: the payload the API last wrote to each row
  rotation,   \* the script
  touched,    \* ghost: rows the API wrote or deleted since the script began
  raced       \* ghost: rows the API wrote while the script held what it had read of them

credentialKeys == <<sealed, latest, rotation, touched, raced>>

KeyNames == {OldKey, NewKey}
Envelopes == [payload : 0 .. MaxPayload, key : KeyNames, label : KeyNames]
NoEnvelope == [payload |-> 0, key |-> OldKey, label |-> OldKey]   \* payload 0: no row

\* page: rows that were read and are still to be rotated; clean: no conflict and
\* no failure so far.
NoRotation == [at |-> "idle", cursor |-> 0, page |-> {}, read |-> [i \in Ids |-> NoEnvelope], clean |-> TRUE]

CredentialKeysOK ==
  /\ sealed \in [Ids -> Envelopes] /\ latest \in [Ids -> 0 .. MaxPayload]
  /\ rotation \in [at : {"idle", "running", "done"}, cursor : Nat, page : SUBSET Ids,
                   read : [Ids -> Envelopes], clean : BOOLEAN]
  /\ touched \subseteq Ids /\ raced \subseteq Ids

CredentialRow(i) == sealed[i].payload > 0
Unwritten == {n \in 1 .. MaxPayload : \A i \in Ids : latest[i] < n}

CredentialKeysInit ==
  /\ sealed = [i \in Ids |-> NoEnvelope] /\ latest = [i \in Ids |-> 0]
  /\ rotation = NoRotation /\ touched = {} /\ raced = {}

-----------------------------------------------------------------------------
(* The API *)

\* encrypt: a fresh data key wrapped by the key and labelled with its version.  (The
\* first form keeps the label the row had.)
EncryptSameLabel(payload, key, old) == [payload |-> payload, key |-> key, label |-> old.label]
Encrypt(payload, key, old) == [payload |-> payload, key |-> key, label |-> key]

\* unwrapKey picks the key by the label, and decrypt opens the payload with it.
Opens(envelope, keys) == envelope.label \in keys /\ envelope.label = envelope.key

\* A provider is created, under a random id, or given another credential.
WriteCredential(i) ==
  /\ (CredentialRow(i) \/ latest[i] = 0) /\ Unwritten # {}
  /\ latest' = [latest EXCEPT ![i] = Min(Unwritten)]
  /\ sealed' = [sealed EXCEPT ![i] = Encrypt(latest'[i], OldKey, sealed[i])]
  /\ touched' = touched \cup {i} /\ raced' = raced \cup ({i} \cap rotation.page)
  /\ UNCHANGED rotation
DeleteCredential(i) ==
  /\ CredentialRow(i) /\ sealed' = [sealed EXCEPT ![i] = NoEnvelope]
  /\ UNCHANGED latest
  /\ touched' = touched \cup {i} /\ UNCHANGED <<rotation, raced>>

-----------------------------------------------------------------------------
(* The script, with --apply *)

StartRotation ==
  /\ rotation.at # "running" /\ rotation' = [NoRotation EXCEPT !.at = "running"]
  /\ touched' = {} /\ UNCHANGED <<sealed, latest, raced>>

\* The page after a row, by id.  (The first form skips two rows, not one.)
AfterNext(i) == {j \in Ids : CredentialRow(j) /\ Cardinality({k \in Ids : i < k /\ k <= j}) > 1}
AfterCursor(i) == {j \in Ids : CredentialRow(j) /\ i < j}
FirstOf(rows) == {i \in rows : Cardinality({j \in rows : j < i}) < BatchSize}

\* A page is read when the one before is finished, after the last row of that one;
\* if that row is gone, nothing is read and the script ends as if it were done.
CursorLost == rotation.cursor > 0 /\ ~CredentialRow(rotation.cursor)
ReadPage ==
  LET rest == IF rotation.cursor = 0 THEN {i \in Ids : CredentialRow(i)} ELSE AfterCursor(rotation.cursor)
      page == FirstOf(rest)
  IN
  /\ rotation.at = "running" /\ rotation.page = {} /\ UNCHANGED <<sealed, latest, touched, raced>>
  /\ \/ /\ ~CursorLost /\ page # {}
        /\ rotation' = [rotation EXCEPT !.cursor = Max(page), !.page = page, !.read = sealed]
     \/ (CursorLost \/ page = {}) /\ rotation' = [rotation EXCEPT !.at = "done"]

\* Each row that was not under the new key is re-encrypted from what was read, and
\* written if its version is still the one that was read.
Rotated(i) ==
  LET old == rotation.read[i] IN
  /\ rotation.at = "running" /\ rotation.page # {} /\ i = Min(rotation.page)
  /\ rotation' = [rotation EXCEPT !.page = @ \ {i},
       !.clean = @ /\ (old.label = NewKey
                       \/ (Opens(old, KeyNames) /\ CredentialRow(i) /\ sealed[i].label = old.label))]
  /\ sealed' = IF old.label # NewKey /\ Opens(old, KeyNames) /\ CredentialRow(i) /\ sealed[i].label = old.label
                 THEN [sealed EXCEPT ![i] = Encrypt(old.payload, NewKey, old)] ELSE sealed
  /\ UNCHANGED <<latest, touched, raced>>

StopRotation ==
  /\ rotation.at = "running" /\ rotation' = NoRotation
  /\ UNCHANGED <<sealed, latest, touched, raced>>

CredentialKeysNext ==
  \/ \E i \in Ids : WriteCredential(i) \/ DeleteCredential(i) \/ Rotated(i)
  \/ StartRotation \/ ReadPage \/ StopRotation

CredentialKeysSpec == CredentialKeysInit /\ [][CredentialKeysNext]_credentialKeys

-----------------------------------------------------------------------------
\* Every credential opens with the two keys, and is the one the API wrote last
\* unless the API wrote it between the script's read and write of it.
CredentialsOpen ==
  \A i \in Ids : CredentialRow(i) => /\ Opens(sealed[i], KeyNames)
                            /\ (sealed[i].payload = latest[i] \/ i \in raced)

\* After a run without conflicts and failures the old key is needed only by the
\* credentials that the API wrote since it began; a run during which a credential
\* was deleted may have ended early.
OldKeyRetired ==
  rotation.at = "done" /\ rotation.clean /\ (\A i \in touched : CredentialRow(i)) =>
    \A i \in Ids \ touched : CredentialRow(i) => sealed[i].label = NewKey
=============================================================================

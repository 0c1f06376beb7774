--------------------------- MODULE MCObjectStorage ---------------------------
(***************************************************************************)
(* Small instances of ObjectStorage.  Upload attempts carry their request  *)
(* as constant functions, so an instance is the list of its attempts.      *)
(***************************************************************************)
EXTENDS ObjectStorage, TLC

CONSTANTS u1, u2, u3, k1, c1, t1, t2, t3

\* Attempt u1 is direct, u2 multipart, u3 proxied.
MCModeOf == [u \in Uploads |->
  IF u = u1 THEN "DIRECT" ELSE IF u = u2 THEN "MULTIPART" ELSE "PROXIED"]
MCSizeOf == [u \in Uploads |-> IF u = u2 THEN 2 ELSE 1]
MCTokenOf == [u \in Uploads |-> IF u = u1 THEN t1 ELSE IF u = u2 THEN t2 ELSE t3]
MCCredentialOf == [u \in Uploads |-> c1]

\* A retry: every attempt carries the same idempotency key.
SameToken == [u \in Uploads |-> t1]
\* All attempts compete for one key.
OneKey == [u \in Uploads |-> k1]

RequestSymmetry == Permutations(Requests)
DeleterSymmetry == Permutations(Deleters)
=============================================================================

--------------------------- MODULE UploadService ---------------------------
(***************************************************************************)
(* The upload endpoints of the storage gateway: initiate, proxyUpload,     *)
(* presignPart, complete and abort.  Each request in flight is a small     *)
(* state machine that stops at every provider call and every transaction,  *)
(* and acts on the session it read when it started.                        *)
(***************************************************************************)
EXTENDS StorageTables

CONSTANT Requests    \* upload requests in flight at the same time

Steps == {"idle", "create", "reserve", "unmake", "presign", "put", "read", "assemble",
          "mark", "head", "publish", "retire", "reject", "discard", "erase", "abort",
          "release", "releasing", "expire", "expiring"}

\* fin: providerUploadFinalized as the request knows it; proxied: the request
\* is inside the try block of proxyUpload, whose handler cleans up.
Idle == [at |-> "idle", on |-> NoUpload, fin |-> FALSE, proxied |-> FALSE]

RequestsOK ==
  req \in [Requests -> [at : Steps, on : Uploads \cup {NoUpload},
                        fin : BOOLEAN, proxied : BOOLEAN]]

RequestsInit == req = [r \in Requests |-> Idle]

At(r, step) == req[r].at = step
Becomes(r, control) == req' = [req EXCEPT ![r] = control] /\ UNCHANGED <<del, worker>>
Serve(r, step, u, fin, proxied) ==
  Becomes(r, [at |-> step, on |-> u, fin |-> fin, proxied |-> proxied])
Goto(r, step) == Serve(r, step, req[r].on, req[r].fin, req[r].proxied)
Answer(r) == Becomes(r, Idle)
Begin(r, u, step, proxied) == Serve(r, step, u, u \in finalized, proxied)

\* An error reaches the caller: inside proxyUpload that is cleanupFailedUpload.
Throw(r) ==
  IF req[r].proxied THEN Serve(r, "reject", req[r].on, FALSE, FALSE) ELSE Answer(r)

store == <<tables, provider, signed>>

-----------------------------------------------------------------------------
(* initiate *)

\* A new attempt passes the reads: no row for its idempotency key and no
\* object it may not replace.  Attempt ids are never reused: one that left
\* anything at the provider is not minted again.
Initiate(r, u) ==
  /\ At(r, "idle")
  /\ session[u] = "absent" /\ blob[u] = "absent" /\ u \notin parts
  /\ \A q \in Requests : req[q].on # u
  /\ \A v \in Uploads :
       TokenOf[v] = TokenOf[u] /\ CredentialOf[v] = CredentialOf[u] => ~Exists(v)
  /\ record[KeyOf[u]].state = "AVAILABLE" => u \in Overwrites
  /\ Begin(r, u, IF Multipart(u) THEN "create" ELSE "reserve", FALSE)
  /\ UNCHANGED store

\* The same initiate again: an unexpired session gets a new url.
InitiateAgain(u) ==
  /\ session[u] = "INITIATED" /\ u \notin due /\ ModeOf[u] = "DIRECT"
  /\ signed' = signed \cup {u}
  /\ UNCHANGED <<tables, provider, actors>>

CreateMultipart(r) ==
  LET u == req[r].on
  IN  /\ At(r, "create")
      /\ Call(parts' = parts \cup {u} /\ UNCHANGED blob, Goto(r, "reserve"), Answer(r))

Reserve(r) ==
  LET u == req[r].on
  IN  /\ At(r, "reserve")
      /\ Transaction(ReserveTx(u), Goto(r, "presign"),
                     IF Multipart(u) THEN Goto(r, "unmake") ELSE Answer(r))

AbortUnreserved(r) ==
  /\ At(r, "unmake")
  /\ Call(PartsAborted(req[r].on), Answer(r), Answer(r))

\* presign, and its handler: abort the multipart upload, release.
Presign(r) ==
  LET u == req[r].on
  IN  /\ At(r, "presign")
      /\ \/ /\ signed' = IF ModeOf[u] = "DIRECT" THEN signed \cup {u} ELSE signed
            /\ Answer(r)
         \/ /\ ModeOf[u] # "PROXIED"
            /\ Goto(r, IF Multipart(u) THEN "reject" ELSE "release")
            /\ UNCHANGED signed
      /\ UNCHANGED <<tables, provider>>

-----------------------------------------------------------------------------
(* proxyUpload and presignPart *)

\* An expired session is released; so is one sent with the wrong length.
ProxyUpload(r, u) ==
  /\ At(r, "idle")
  /\ session[u] = "INITIATED" /\ ModeOf[u] = "PROXIED"
  /\ \/ u \in due /\ Begin(r, u, "expire", FALSE)
     \/ u \notin due /\ Begin(r, u, "release", FALSE)
     \/ u \notin due /\ Begin(r, u, "put", TRUE)
  /\ UNCHANGED store

PutProxied(r) ==
  LET u == req[r].on
  IN  /\ At(r, "put")
      /\ Call((\E data \in {"good", "bad"} : blob' = [blob EXCEPT ![u] = data])
                /\ UNCHANGED parts,
              Goto(r, "read"), Throw(r))

PresignPart(r, u) ==
  /\ At(r, "idle")
  /\ session[u] = "INITIATED" /\ Multipart(u) /\ u \in due
  /\ Begin(r, u, "expire", FALSE)
  /\ UNCHANGED store

-----------------------------------------------------------------------------
(* complete *)

\* The session a completion starts from; a multipart completion with the wrong
\* parts is refused before any provider call.
ReadSession(r, u, proxied) ==
  /\ \/ session[u] = "COMPLETED" /\ Answer(r)
     \/ session[u] \notin {"COMPLETED", "INITIATED"} /\ Throw(r)
     \/ /\ session[u] = "INITIATED"
        /\ \/ u \in due /\ Begin(r, u, "expire", proxied)
           \/ /\ u \notin due
              /\ Begin(r, u, IF Multipart(u) /\ u \notin finalized THEN "assemble" ELSE "head",
                       proxied)
  /\ UNCHANGED store

Complete(r, u) == At(r, "idle") /\ session[u] = "INITIATED" /\ ReadSession(r, u, FALSE)

CompleteProxied(r) == At(r, "read") /\ ReadSession(r, req[r].on, TRUE)

\* objectExists, then completeMultipartUpload unless it exists already.
Assemble(r) ==
  LET u == req[r].on
  IN  /\ At(r, "assemble")
      /\ Call(\/ blob[u] # "absent" /\ UNCHANGED provider
              \/ /\ blob[u] = "absent" /\ u \in parts
                 /\ \E data \in {"good", "bad"} : blob' = [blob EXCEPT ![u] = data]
                 /\ parts' = parts \ {u},
              Goto(r, "mark"), Throw(r))

MarkFinalized(r) ==
  /\ At(r, "mark")
  /\ Transaction(MarkFinalizedTx(req[r].on),
                 Serve(r, "head", req[r].on, TRUE, req[r].proxied), Throw(r))

\* headObject and the comparison of size and checksum.
Head(r) ==
  LET u == req[r].on
  IN  /\ At(r, "head")
      /\ \/ blob[u] = "good" /\ Goto(r, "publish")
         \/ blob[u] = "bad" /\ Goto(r, "reject")
         \/ Throw(r)
      /\ UNCHANGED store

\* A rolled-back publication removes the object only when it was assembled
\* from parts; a replaced location is deleted at the provider afterwards.
Publish(r) ==
  LET u == req[r].on
      old == record[KeyOf[u]]
  IN  /\ At(r, "publish")
      /\ Transaction(PublishTx(u),
                     IF old.state = "AVAILABLE"
                     THEN Serve(r, "retire", old.at, FALSE, FALSE)
                     ELSE Answer(r),
                     IF req[r].fin THEN Goto(r, "discard") ELSE Throw(r))

DeleteReplaced(r) ==
  /\ At(r, "retire")
  /\ Call(Erased(req[r].on), Answer(r), Answer(r))

-----------------------------------------------------------------------------
(* Cleanup, abort, and the two-statement release *)

\* cleanupFailedUpload: whatever the provider answers, release.
CleanupFailed(r) ==
  LET u == req[r].on
  IN  /\ At(r, "reject")
      /\ Call(IF Multipart(u) /\ ~req[r].fin THEN PartsAborted(u) ELSE Erased(u),
              Goto(r, "release"), Goto(r, "release"))

\* cleanupFinalizedProviderObject: release only after the deletion.
CleanupFinalized(r) ==
  /\ At(r, "discard")
  /\ Call(Erased(req[r].on), Goto(r, "release"), Throw(r))

Abort(r, u) ==
  /\ At(r, "idle") /\ session[u] = "INITIATED"
  /\ Begin(r, u, "erase", FALSE)
  /\ UNCHANGED store

AbortErase(r) ==
  LET u == req[r].on
  IN  /\ At(r, "erase")
      /\ Call(IF Multipart(u) /\ ~req[r].fin THEN PartsAborted(u) ELSE Erased(u),
              Goto(r, "abort"), Answer(r))

AbortCommit(r) ==
  /\ At(r, "abort")
  /\ Transaction(CloseTx(req[r].on, "ABORTED"), Answer(r), Answer(r))

\* releaseReservation and expire, first statement: is the session INITIATED?
ReleaseRead(r) ==
  /\ req[r].at \in {"release", "expire"}
  /\ IF session[req[r].on] = "INITIATED"
     THEN Goto(r, IF At(r, "release") THEN "releasing" ELSE "expiring")
     ELSE Throw(r)
  /\ UNCHANGED store

\* Second statement and commit.
ReleaseCommit(r) ==
  /\ req[r].at \in {"releasing", "expiring"}
  /\ Transaction(ReleaseTx(req[r].on, IF At(r, "releasing") THEN "ABORTED" ELSE "EXPIRED"),
                 Throw(r), Throw(r))

-----------------------------------------------------------------------------
(* The client, the clock and crashes *)

\* The client uses its presigned url, which outlives the session.
ClientPut(u) ==
  /\ u \in signed
  /\ \E data \in {"good", "bad"} : blob' = [blob EXCEPT ![u] = data]
  /\ UNCHANGED <<tables, parts, signed, actors>>

Expires(u) == PassTx(u) /\ UNCHANGED <<provider, signed, actors>>

\* The API process stops, or the request is cut off, between two steps.
RequestLost(r) == ~At(r, "idle") /\ Answer(r) /\ UNCHANGED store

UploadNext ==
  \/ \E r \in Requests, u \in Uploads :
       \/ Initiate(r, u) \/ ProxyUpload(r, u) \/ PresignPart(r, u)
       \/ Complete(r, u) \/ Abort(r, u)
  \/ \E r \in Requests :
       \/ CreateMultipart(r) \/ Reserve(r) \/ AbortUnreserved(r) \/ Presign(r)
       \/ PutProxied(r) \/ CompleteProxied(r) \/ Assemble(r) \/ MarkFinalized(r)
       \/ Head(r) \/ Publish(r) \/ DeleteReplaced(r)
       \/ CleanupFailed(r) \/ CleanupFinalized(r) \/ AbortErase(r) \/ AbortCommit(r)
       \/ ReleaseRead(r) \/ ReleaseCommit(r) \/ RequestLost(r)
  \/ \E u \in Uploads : InitiateAgain(u) \/ ClientPut(u) \/ Expires(u)
=============================================================================

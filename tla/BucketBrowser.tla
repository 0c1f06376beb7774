---------------------------- MODULE BucketBrowser ----------------------------
(***************************************************************************)
(* The console's bucket browser: what it has selected, the listing it      *)
(* shows, and the answers of the API, which come in any order.  Around it  *)
(* the dashboard selects an organization and loads snapshots of it, whose  *)
(* answers come in any order as well.                                      *)
(*                                                                         *)
(* React runs the effects of a change before the next event.  The page     *)
(* after a cursor is named by a number, as many as MaxPage; the objects    *)
(* listed, messages and the other pages of the console are left out.       *)
(***************************************************************************)
EXTENDS Naturals, Sequences, FiniteSets

CONSTANTS
  Tenants,             \* organizations
  Buckets, TenantOf,   \* buckets, and the organization of each
  Nothing,             \* no bucket, no organization, no listing
  Prefixes, NoPrefix,  \* prefixes; "" is NoPrefix
  MaxPage,             \* bound on the pages of a listing
  MaxAsked             \* bound on the requests made

ASSUME BucketBrowserAssumption ==
  /\ TenantOf \in [Buckets -> Tenants] /\ NoPrefix \in Prefixes
  /\ Nothing \notin Buckets \cup Tenants /\ MaxPage \in Nat /\ MaxAsked \in Nat

VARIABLES
  tenant,      \* organizationId
  shownOf,     \* the organization of the snapshot, whose buckets are offered
  wanted,      \* snapshots that are on their way
  view,        \* bucketId, prefix, currentCursor and cursorHistory
  listing,     \* the listing shown
  requestId,   \* requestIdRef
  busy,        \* loading
  asked        \* listings that are on their way

browser == <<tenant, shownOf, wanted, view, listing, requestId, busy, asked>>

Listings == [of : Tenants \cup {Nothing}, bucket : Buckets, prefix : Prefixes, page : 0 .. MaxPage]
BucketBrowserOK ==
  /\ {tenant, shownOf} \subseteq Tenants \cup {Nothing} /\ wanted \subseteq Tenants
  /\ view \in [bucket : Buckets \cup {Nothing}, prefix : Prefixes, page : 0 .. MaxPage,
               history : Seq(0 .. MaxPage)]
  /\ listing \in Listings \cup {Nothing}
  /\ requestId \in Nat /\ busy \in BOOLEAN
  /\ \A a \in asked : a.id \in 1 .. requestId /\ a.what \in Listings

Top(bucket) == [bucket |-> bucket, prefix |-> NoPrefix, page |-> 0, history |-> <<>>]
BucketBrowserInit ==
  /\ tenant = Nothing /\ shownOf = Nothing /\ wanted = {}
  /\ view = Top(Nothing) /\ listing = Nothing
  /\ requestId = 0 /\ busy = FALSE /\ asked = {}

ActiveBuckets(o) == {b \in Buckets : TenantOf[b] = o}
Dashboard == <<tenant, shownOf, wanted>>

\* loadListing: nothing is shown until the answer, unless no bucket is selected.
LoadListing(v) ==
  /\ view' = v
  /\ IF v.bucket = Nothing \/ tenant = Nothing THEN UNCHANGED <<listing, requestId, busy, asked>>
     ELSE /\ requestId < MaxAsked
          /\ requestId' = requestId + 1 /\ listing' = Nothing /\ busy' = TRUE
          /\ asked' = asked \cup {[id |-> requestId + 1,
               what |-> [of |-> tenant, bucket |-> v.bucket, prefix |-> v.prefix, page |-> v.page]]}

-----------------------------------------------------------------------------
(* The dashboard *)

\* The effects of another organization or another snapshot: the selection is reset,
\* and a bucket that is no longer offered is replaced, which loads its listing.
Reset ==
  LET offered == ActiveBuckets(shownOf')
      kept == IF view.bucket \in offered THEN {view.bucket}
              ELSE IF offered = {} THEN {Nothing} ELSE offered
  IN
  \E b \in kept :
    IF b = view.bucket \/ b = Nothing
      THEN /\ view' = Top(b) /\ listing' = Nothing
           /\ requestId < MaxAsked /\ requestId' = requestId + 1 /\ UNCHANGED <<busy, asked>>
      ELSE /\ view' = Top(b) /\ listing' = Nothing /\ busy' = TRUE
           /\ requestId + 1 < MaxAsked /\ requestId' = requestId + 2
           /\ asked' = asked \cup {[id |-> requestId + 2,
                what |-> [of |-> tenant', bucket |-> b, prefix |-> NoPrefix, page |-> 0]]}

HandleOrganizationChange(o) ==
  /\ o # tenant /\ tenant' = o /\ shownOf' = Nothing /\ wanted' = wanted \cup {o} /\ Reset

RefreshDashboard ==
  /\ tenant # Nothing /\ wanted' = wanted \cup {tenant}
  /\ UNCHANGED <<tenant, shownOf, view, listing, requestId, busy, asked>>

\* The answer to loadSnapshot is shown, whatever has been selected since.
LoadSnapshot(o) ==
  /\ o \in wanted /\ wanted' = wanted \ {o}
  /\ UNCHANGED tenant /\ (shownOf' = o \/ shownOf' = Nothing) /\ Reset

-----------------------------------------------------------------------------
(* The browser *)

SelectBucket(b) ==
  /\ b \in ActiveBuckets(shownOf) \cup {Nothing} /\ b # view.bucket
  /\ LoadListing(Top(b)) /\ UNCHANGED Dashboard
Reload ==
  /\ ~busy /\ view.bucket # Nothing /\ LoadListing(view) /\ UNCHANGED Dashboard
OpenPrefix(p) ==
  /\ listing # Nothing /\ LoadListing([Top(view.bucket) EXCEPT !.prefix = p]) /\ UNCHANGED Dashboard
NextPage ==
  /\ listing # Nothing /\ listing.page < MaxPage /\ view.page < MaxPage
  /\ LoadListing([view EXCEPT !.page = listing.page + 1, !.history = Append(@, view.page)])
  /\ UNCHANGED Dashboard
PreviousPage ==
  /\ listing # Nothing /\ view.history # <<>>
  /\ LoadListing([view EXCEPT !.page = view.history[Len(view.history)],
                              !.history = SubSeq(@, 1, Len(@) - 1)])
  /\ UNCHANGED Dashboard

\* An answer to a request that is not the latest changes nothing.  The API lists a
\* bucket of the organization that asks, or answers with an error.  (The first form
\* takes any answer.)
AnyAnswer(id) == TRUE
Latest(id) == id = requestId
ListBucketObjects(what) == {Nothing} \cup (IF TenantOf[what.bucket] = what.of THEN {what} ELSE {})
Listed(a) ==
  /\ a \in asked /\ asked' = asked \ {a}
  /\ IF Latest(a.id) THEN listing' \in ListBucketObjects(a.what) /\ busy' = FALSE
                     ELSE UNCHANGED <<listing, busy>>
  /\ UNCHANGED <<Dashboard, view, requestId>>

BucketBrowserNext ==
  \/ \E o \in Tenants : HandleOrganizationChange(o) \/ LoadSnapshot(o)
  \/ RefreshDashboard \/ Reload \/ NextPage \/ PreviousPage
  \/ \E b \in Buckets \cup {Nothing} : SelectBucket(b)
  \/ \E p \in Prefixes : OpenPrefix(p)
  \/ \E a \in asked : Listed(a)

BucketBrowserSpec == BucketBrowserInit /\ [][BucketBrowserNext]_browser

-----------------------------------------------------------------------------
\* The listing shown is the page that is selected, of the bucket that is selected,
\* and of the organization that is selected, in whatever order the answers come.
\* With no bucket selected the last listing may stay.
ShownIsSelected ==
  listing # Nothing /\ view.bucket # Nothing =>
    /\ listing.bucket = view.bucket /\ listing.prefix = view.prefix /\ listing.page = view.page
    /\ TenantOf[listing.bucket] = tenant
=============================================================================

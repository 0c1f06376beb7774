---------------------------- MODULE ObjectLibrary ----------------------------
(***************************************************************************)
(* What a namespace promises its clients, without sessions, locations,     *)
(* providers or a worker.  An upload attempt is decided once: its data is  *)
(* kept or dropped.  A key shows the attempt kept last, and nothing        *)
(* replaces it while a delete holds the key.                               *)
(***************************************************************************)
CONSTANTS Uploads, Keys, KeyOf, NoUpload

VARIABLES
  fate,      \* "new", "open", "kept" or "dropped": each attempt's outcome
  shelf,     \* the attempt each key shows, or NoUpload
  leaving    \* keys a delete holds

library == <<fate, shelf, leaving>>

Init ==
  /\ fate = [u \in Uploads |-> "new"]
  /\ shelf = [k \in Keys |-> NoUpload]
  /\ leaving = {}

Decide(u, from, to) == fate[u] = from /\ fate' = [fate EXCEPT ![u] = to]

Open(u) == Decide(u, "new", "open") /\ UNCHANGED <<shelf, leaving>>

Drop(u) == Decide(u, "open", "dropped") /\ UNCHANGED <<shelf, leaving>>

Keep(u) ==
  /\ Decide(u, "open", "kept")
  /\ KeyOf[u] \notin leaving
  /\ shelf' = [shelf EXCEPT ![KeyOf[u]] = u]
  /\ UNCHANGED leaving

Claim(k) ==
  /\ shelf[k] # NoUpload /\ k \notin leaving
  /\ leaving' = leaving \cup {k}
  /\ UNCHANGED <<fate, shelf>>

Restore(k) ==
  /\ k \in leaving
  /\ leaving' = leaving \ {k}
  /\ UNCHANGED <<fate, shelf>>

Remove(k) ==
  /\ k \in leaving
  /\ leaving' = leaving \ {k}
  /\ shelf' = [shelf EXCEPT ![k] = NoUpload]
  /\ UNCHANGED fate

Next ==
  \/ \E u \in Uploads : Open(u) \/ Drop(u) \/ Keep(u)
  \/ \E k \in Keys : Claim(k) \/ Restore(k) \/ Remove(k)

Spec == Init /\ [][Next]_library
=============================================================================

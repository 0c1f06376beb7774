------------------------- MODULE MCObjectMigration -------------------------
(***************************************************************************)
(* Small instances of ObjectMigration.  Run r1 moves objects from bucket   *)
(* b1 to b2, and r2 moves them back: copy m2 is of r2, the others of r1,   *)
(* and m5 is that of the larger object with which u3 overwrites u1.        *)
(***************************************************************************)
EXTENDS ObjectMigration, TLC

CONSTANTS u1, u2, u3, u4, m1, m2, m3, m4, m5, r1, r2, k1, k2, k3, b1, b2, c1, t1

MCKeyOf == [u \in Uploads |->
  IF u \in {u2, m3} THEN k2 ELSE IF u \in {u4, m4} THEN k3 ELSE k1]
MCSizeOf == [u \in Uploads |-> IF u \in {u3, m5} THEN 2 ELSE 1]
MCModeOf == [u \in Uploads |-> "PROXIED"]
MCTokenOf == [u \in Uploads |-> t1]
MCCredentialOf == [u \in Uploads |-> c1]
MCRunOf == [u \in Copies |-> IF u = m2 THEN r2 ELSE r1]
MCBucketOf == [u \in Uploads |-> IF u \in {m1, m3, m4, m5} THEN b2 ELSE b1]
MCSourceOf == [r \in Runs |-> IF r = r1 THEN b1 ELSE b2]

Overwritten == [published |-> {u1}, pending |-> {u3}, runs |-> {r1}]
Deleted == [published |-> {u1}, pending |-> {}, runs |-> {r1}]
Returned == [published |-> {u1}, pending |-> {}, runs |-> {r1, r2}]
TwoObjects == [published |-> {u2, u4}, pending |-> {}, runs |-> {r1}]

\* One object, deleted and overwritten during its move, or moved and moved back;
\* or two objects nobody deletes.
AllStarts == {Overwritten, Returned, TwoObjects}

\* The same, smaller, for the liveness property.
FewStarts == {Deleted, TwoObjects}
=============================================================================
